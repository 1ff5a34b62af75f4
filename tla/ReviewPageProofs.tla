-------------------------- MODULE ReviewPageProofs --------------------------
(***************************************************************************)
(* Proofs about ReviewPage, for any entries, times, scores and page sizes  *)
(* and any number of filter changes and marks: a list that ends has shown  *)
(* every entry that did not change, and the page shows the read state of   *)
(* the server, whatever answers arrive in whatever order, except where the *)
(* server carried out a request that the page had given up.                *)
(***************************************************************************)
EXTENDS ReviewPage, TLAPS

USE PageAssumption

-----------------------------------------------------------------------------
(***************************************************************************)
(* The inductive invariants.                                               *)
(***************************************************************************)
\* Only the list in view, and the ones before it, have been asked for.
Generations ==
    /\ generation = reloads /\ reloads <= MaxReloads
    /\ \A g \in 0..MaxReloads : g > generation => load[g] = NoLoad

\* Entries that match and did not change since the list was opened.
Due(i) == i \in Items \ touched /\ Matches(i, filters)

\* What is due and not loaded lies behind the cursor.
RestIsBehind ==
    loaded # {} => \A i \in Items : Due(i) /\ i \notin loaded =>
        hasMore /\ After(Key(i, filters.sort), nextCursor)

\* The request for the list in view goes on where the list ends, ...
AskedWhereItEnds ==
    LET asked == load[generation]
    IN  asked.at = "sent" =>
          /\ asked.filters = filters
          /\ asked.append => loaded # {} /\ asked.cursor = nextCursor
          /\ ~asked.append => asked.cursor = NoCursor

\* ... and its answer leaves nothing out that is due.
AnswerIsWhole ==
    LET got == load[generation]
    IN  got.at = "answered" =>
          \A i \in Items : Due(i) /\ i \notin got.page =>
             \/ got.append /\ i \in loaded
             \/ got.more /\ After(Key(i, filters.sort), got.next)

ListInv == RestIsBehind /\ AskedWhereItEnds /\ AnswerIsWhole

\* No request that was carried out still has to end for an entry.
Settled(i) == /\ change[i] = NoChange /\ finish # "done"
              /\ bulk.at = "done" => i \notin bulk.items

\* Fields are remembered with revisions that have been given out.
RevisionsInOrder ==
    /\ dayOverride <= revision
    /\ \A i \in Items : override[i].revision <= revision
    /\ \A g \in 0..MaxReloads : load[g] # NoLoad => load[g].revision <= revision

\* The row of an entry that no request which the page gave up has changed.
Sure(i) == i \in inDay \ strayed

\* For an entry that no two requests changed at once: one request at a time, ...
OneRequest(i) ==
    change[i] # NoChange =>
        finish = "none" /\ (bulk # NoBulk => i \notin bulk.items)

\* ... remembered while it is under way, and the row follows it; ...
ChangeRemembered(i) ==
    change[i] # NoChange =>
        /\ override[i].value = change[i].to /\ override[i].revision >= dayOverride
        /\ Sure(i) => isRead[i] = IF change[i].at = "done" THEN change[i].to
                                  ELSE change[i].was

\* ... what was marked as a whole is read; ...
MarkedIsRead(i) ==
    Sure(i) => /\ finish = "done" => isRead[i]
               /\ bulk.at = "done" /\ i \in bulk.items => isRead[i]

\* ... the page is hopeful while a change is under way, and right otherwise; ...
PageIsRight(i) ==
    i \in loaded =>
        /\ change[i] # NoChange => showsRead[i] = change[i].to
        /\ Sure(i) /\ Settled(i) => showsRead[i] = isRead[i]

\* ... and what is in flight for it becomes right where it is put on the page.
FlightIsRight(i) ==
    LET req == load[generation]
    IN  Sure(i) /\ Settled(i) =>
          /\ req.at = "sent" => Overlay(i, isRead[i], req.revision) = isRead[i]
          /\ req.at = "answered" /\ i \in req.page =>
                Overlay(i, req.read[i], req.revision) = isRead[i]

ItemRight(i) == /\ OneRequest(i) /\ ChangeRemembered(i) /\ MarkedIsRead(i)
                /\ PageIsRight(i) /\ FlightIsRight(i)

ReadInv == RevisionsInOrder /\ \A i \in Items \ contended : ItemRight(i)

-----------------------------------------------------------------------------
(***************************************************************************)
(* Types.                                                                  *)
(***************************************************************************)
LEMMA KeyIsCursor ==
    ASSUME PageTypeOK, NEW i \in Items, NEW sort \in {"ai", "date"}
    PROVE  Key(i, sort) \in Cursors
<1>1. Stamp[i] \in Nat /\ i \in Nat
  OBVIOUS
<1>2. aiScore[i] \in Nat \/ aiScore[i] = -1
  BY DEF PageTypeOK, RowTypes, NoScore
<1>3. Cohort(i) \in {0, 1, 3}
  BY DEF Cohort
<1> QED
  BY <1>1, <1>2, <1>3 DEF Key, Cursors

\* A request for a page has the type of a load.
LEMMA SentIsLoad ==
    ASSUME NEW f \in Filters, NEW append \in BOOLEAN, NEW cursor \in Cursors,
           NEW r \in Nat
    PROVE  [at |-> "sent", filters |-> f, append |-> append, cursor |-> cursor,
            revision |-> r] \in Loads
  BY DEF Loads

\* An answered page has the type of a load.
LEMMA AnsweredIsLoad ==
    ASSUME NEW append \in BOOLEAN, NEW r \in Nat, NEW page \in SUBSET Items,
           NEW read \in [Items -> BOOLEAN], NEW next \in Cursors,
           NEW more \in BOOLEAN
    PROVE  [at |-> "answered", append |-> append, revision |-> r, page |-> page,
            read |-> read, next |-> next, more |-> more] \in Loads
  BY DEF Loads

\* The fields of a request, by where it is.
LEMMA LoadFields ==
    ASSUME NEW l \in Loads
    PROVE  /\ l.at \in {"none", "sent", "answered"}
           /\ l = NoLoad <=> l.at = "none"
           /\ l.at = "sent" => /\ l.filters \in Filters /\ l.append \in BOOLEAN
                               /\ l.cursor \in Cursors /\ l.revision \in Nat
           /\ l.at = "answered" =>
                 /\ l.append \in BOOLEAN /\ l.revision \in Nat
                 /\ l.page \in SUBSET Items /\ l.read \in [Items -> BOOLEAN]
                 /\ l.next \in Cursors /\ l.more \in BOOLEAN
  BY DEF Loads, NoLoad

\* The fields of a change.
LEMMA ChangeFields ==
    ASSUME NEW c \in Changes
    PROVE  /\ c.at \in {"none", "sent", "done", "refused"}
           /\ c = NoChange <=> c.at = "none"
           /\ c # NoChange => c.to \in BOOLEAN /\ c.was \in BOOLEAN
  BY DEF Changes, NoChange

\* The overlay shows an entry as read or as unread.
LEMMA OverlayIsBoolean ==
    ASSUME PageTypeOK, NEW i \in Items, NEW value \in BOOLEAN, NEW since \in Nat
    PROVE  Overlay(i, value, since) \in BOOLEAN
  BY DEF PageTypeOK, OverrideTypes, Overlay

\* Types and generations go together: the list in view has a request of its own.
PageInv == PageTypeOK /\ Generations

\* The start of a list has the type of a cursor.
LEMMA NoCursorIsCursor == NoCursor \in Cursors
  BY DEF NoCursor, Cursors

\* The absence of a request has the type of a load.
LEMMA NoLoadIsLoad == NoLoad \in Loads
  BY DEF Loads

\* The absence of a change has the type of a change.
LEMMA NoChangeIsChange == NoChange \in Changes
  BY DEF Changes

\* The initial states have their types.
LEMMA PageInitial == PageInit => PageInv
<1> SUFFICES ASSUME PageInit PROVE PageInv
  OBVIOUS
<1>1. RowTypes /\ OverrideTypes
  BY DEF PageInit, RowTypes, OverrideTypes, NoScore
<1>2. ListTypes
  BY NoCursorIsCursor DEF PageInit, ListTypes
<1>3. load \in [0..MaxReloads -> Loads]
  BY NoLoadIsLoad DEF PageInit
<1>4. MarkTypes
  BY NoChangeIsChange DEF PageInit, MarkTypes
<1>5. HistoryTypes
  BY DEF PageInit, HistoryTypes
<1>6. Generations
  BY DEF PageInit, Generations
<1> QED
  BY <1>1, <1>2, <1>3, <1>4, <1>5, <1>6 DEF PageInv, PageTypeOK

\* What a step leaves alone keeps its type.
LEMMA RowsKept == ASSUME RowTypes, UNCHANGED itemRows PROVE RowTypes'
  BY DEF RowTypes, itemRows

\* Steps that leave the list alone keep its types.
LEMMA ListKept ==
    ASSUME ListTypes, UNCHANGED <<filters, generation, list, showsRead>>
    PROVE  ListTypes'
  BY DEF ListTypes, list

\* Steps that leave the overrides alone keep their types.
LEMMA OverridesKept == ASSUME OverrideTypes, UNCHANGED overrides PROVE OverrideTypes'
  BY DEF OverrideTypes, overrides

\* Steps that leave the marks alone keep their types.
LEMMA MarksKept == ASSUME MarkTypes, UNCHANGED <<marks, late>> PROVE MarkTypes'
  BY DEF MarkTypes, marks

\* Steps that leave the history alone keep its types.
LEMMA HistoryKept ==
    ASSUME HistoryTypes, UNCHANGED <<strayed, touched, contended, counters>>
    PROVE  HistoryTypes'
  BY DEF HistoryTypes, counters

\* Steps that open no list keep requests and generations in step.
LEMMA GenerationsKept ==
    ASSUME Generations, UNCHANGED <<generation, reloads, load>>
    PROVE  Generations'
  BY DEF Generations

\* An act of the reader is counted within its bound.
LEMMA ActKeepsCounting ==
    ASSUME HistoryTypes, Act, UNCHANGED <<reloads, strayed>>, touched' \in SUBSET Items,
           contended' \in SUBSET Items
    PROVE  HistoryTypes'
  BY DEF HistoryTypes, Act

\* What the page shows, remembers and marks keeps its type.
LEMMA ShowKeeps ==
    ASSUME ListTypes, NEW items, NEW value \in BOOLEAN, Show(items, value),
           UNCHANGED <<filters, generation, list>>
    PROVE  ListTypes'
<1>1. showsRead' \in [Items -> BOOLEAN]
  BY DEF ListTypes, Show
<1> QED
  BY <1>1 DEF ListTypes, list

\* Remembering a change keeps the types of the overrides.
LEMMA RememberKeeps ==
    ASSUME OverrideTypes, NEW items, NEW value \in BOOLEAN, Remember(items, value),
           UNCHANGED dayOverride
    PROVE  OverrideTypes'
<1>1. revision \in Nat /\ revision + 1 \in Nat /\ dayOverride' \in Nat
  BY DEF OverrideTypes
<1>2. [value |-> value, revision |-> revision + 1] \in [value : BOOLEAN, revision : Nat]
  BY <1>1
<1>3. override' \in [Items -> [value : BOOLEAN, revision : Nat]]
  BY <1>2 DEF OverrideTypes, Remember
<1> QED
  BY <1>1, <1>3 DEF OverrideTypes, Remember

\* The rows a request changes on the server keep their types.
LEMMA SetReadKeeps ==
    ASSUME RowTypes, HistoryTypes, NEW items \in SUBSET Items, NEW value \in BOOLEAN,
           SetRead(items, value), strayed' \in SUBSET Items,
           UNCHANGED <<inDay, aiScore, contended, counters>>
    PROVE  RowTypes' /\ HistoryTypes'
<1>1. isRead' \in [Items -> BOOLEAN]
  BY DEF RowTypes, SetRead
<1>2. touched' \in SUBSET Items
  BY DEF HistoryTypes, SetRead
<1> QED
  BY <1>1, <1>2 DEF RowTypes, HistoryTypes, counters

\* So do rows and history when a request is answered, or given up.
LEMMA OutcomeKeeps ==
    ASSUME RowTypes, HistoryTypes, MarkTypes, NEW items \in SUBSET Items, NEW value \in BOOLEAN,
           Saves(items, value) \/ GivesUp(items, value),
           UNCHANGED <<inDay, aiScore, contended, counters>>
    PROVE  RowTypes' /\ HistoryTypes' /\ late' \in SUBSET [items : SUBSET Items, to : BOOLEAN]
<1>1. CASE Saves(items, value)
  <2>1. strayed' \in SUBSET Items /\ late' = late
    BY <1>1 DEF Saves, HistoryTypes
  <2> QED
    BY <1>1, <2>1, SetReadKeeps DEF Saves, MarkTypes
<1>2. CASE GivesUp(items, value)
  <2>1. [items |-> items, to |-> value] \in [items : SUBSET Items, to : BOOLEAN]
    OBVIOUS
  <2>2. late' = late \cup {[items |-> items, to |-> value]} /\ UNCHANGED <<isRead, touched, strayed>>
    BY <1>2 DEF GivesUp
  <2>3. late' \in SUBSET [items : SUBSET Items, to : BOOLEAN]
    BY <2>1, <2>2 DEF MarkTypes
  <2> QED
    BY <2>2, <2>3, RowsKept, HistoryKept DEF itemRows
<1> QED
  BY <1>1, <1>2

\* Every step keeps the types and the generations.
LEMMA TypeStep ==
    ASSUME PageInv, [PageNext]_pageVars
    PROVE  PageInv'
<1> USE DEF PageInv
<1>p. RowTypes /\ ListTypes /\ OverrideTypes /\ MarkTypes /\ HistoryTypes /\ Generations
      /\ load \in [0..MaxReloads -> Loads]
  BY DEF PageTypeOK
<1>0. generation \in 0..MaxReloads
  BY <1>p DEF ListTypes, Generations
<1>s. ASSUME NEW append \in BOOLEAN, NEW cursor \in Cursors, Send(append, cursor)
      PROVE  PageInv'
  <2>1. [at |-> "sent", filters |-> filters, append |-> append,
         cursor |-> cursor, revision |-> revision] \in Loads
    BY <1>p, SentIsLoad DEF ListTypes, OverrideTypes
  <2>2. load' \in [0..MaxReloads -> Loads]
    BY <1>p, <1>s, <2>1 DEF Send
  <2>3. Generations'
    BY <1>p, <1>s, <1>0 DEF Send, Generations, counters
  <2>4. ListTypes'
    BY <1>p, <1>s DEF Send, ListTypes
  <2> QED
    BY <1>p, <1>s, <2>2, <2>3, <2>4, RowsKept, OverridesKept, MarksKept, HistoryKept
       DEF Send, PageTypeOK, strays
<1>1. CASE OpenDay
  BY <1>1, <1>s, NoCursorIsCursor DEF OpenDay
<1>2. CASE LoadMore
  BY <1>2, <1>s, <1>p DEF LoadMore, ListTypes
<1>3. ASSUME NEW g \in 0..MaxReloads, AnswerLoad(g)
      PROVE  PageInv'
  <2> DEFINE asked == load[g]
  <2>1. asked \in Loads /\ asked.at = "sent"
    BY <1>p, <1>3 DEF AnswerLoad
  <2>2. asked.append \in BOOLEAN /\ asked.revision \in Nat /\ asked.filters \in Filters
    BY <2>1, LoadFields
  <2>3. asked.filters.sort \in {"ai", "date"}
    BY <2>2
  <2>4. PICK page \in SUBSET Rest(asked.filters, asked.cursor),
             next \in {NoCursor} \cup {Key(i, asked.filters.sort) :
                                       i \in Rest(asked.filters, asked.cursor)} :
          load' = [load EXCEPT ![g] =
                   [at |-> "answered", append |-> asked.append,
                    revision |-> asked.revision, page |-> page, read |-> isRead,
                    next |-> next,
                    more |-> (page # Rest(asked.filters, asked.cursor))]]
    BY <1>3 DEF AnswerLoad
  <2>5. page \in SUBSET Items
    BY <2>4 DEF Rest
  <2>6. next \in Cursors
    <3>1. CASE next = NoCursor
      BY <3>1, NoCursorIsCursor
    <3>2. CASE next # NoCursor
      <4>1. PICK i \in Rest(asked.filters, asked.cursor) :
               next = Key(i, asked.filters.sort)
        BY <2>4, <3>2
      <4>2. i \in Items
        BY <4>1 DEF Rest
      <4> QED
        BY <4>1, <4>2, <2>3, KeyIsCursor
    <3> QED
      BY <3>1, <3>2
  <2>7. (page # Rest(asked.filters, asked.cursor)) \in BOOLEAN
    OBVIOUS
  <2>8. isRead \in [Items -> BOOLEAN]
    BY <1>p DEF RowTypes
  <2>9. [at |-> "answered", append |-> asked.append,
         revision |-> asked.revision, page |-> page, read |-> isRead,
         next |-> next,
         more |-> (page # Rest(asked.filters, asked.cursor))] \in Loads
    BY <2>2, <2>5, <2>6, <2>7, <2>8, AnsweredIsLoad
  <2> HIDE DEF asked
  <2>10. load' \in [0..MaxReloads -> Loads] /\ \A h \in 0..MaxReloads \ {g} : load'[h] = load[h]
    BY <1>p, <2>4, <2>9
  <2>11. ~(g > generation)
    BY <1>3, <1>p DEF Generations, AnswerLoad, NoLoad
  <2>12. Generations'
    BY <1>3, <1>p, <2>10, <2>11 DEF AnswerLoad, Generations, counters
  <2> QED
    BY <1>3, <1>p, <2>10, <2>12, RowsKept, ListKept, OverridesKept, MarksKept, HistoryKept
       DEF AnswerLoad, PageTypeOK, strays
<1>4. ASSUME NEW g \in 0..MaxReloads, Receive(g)
      PROVE  PageInv'
  <2>1. load' = [load EXCEPT ![g] = NoLoad]
    BY <1>4 DEF Receive
  <2>2. load' \in [0..MaxReloads -> Loads]
    BY <1>p, <2>1, NoLoadIsLoad
  <2>3. Generations'
    BY <1>p, <2>1, <1>4 DEF Receive, Generations, counters
  <2>4. CASE g = generation /\ TakeAnswer(g)
    <3> DEFINE got == load[g]
    <3>1. got \in Loads /\ got.at = "answered"
      BY <1>4, <1>p DEF Receive
    <3>2. /\ got.append \in BOOLEAN /\ got.revision \in Nat
          /\ got.page \in SUBSET Items /\ got.read \in [Items -> BOOLEAN]
          /\ got.next \in Cursors /\ got.more \in BOOLEAN
      BY <3>1, LoadFields
    <3>3. \A i \in Items : Overlay(i, got.read[i], got.revision) \in BOOLEAN
      BY <3>2, OverlayIsBoolean
    <3> HIDE DEF got
    <3>4. showsRead' \in [Items -> BOOLEAN]
      BY <2>4, <3>3, <1>p DEF TakeAnswer, ListTypes, got
    <3>5. loaded' \in SUBSET Items /\ nextCursor' \in Cursors /\ hasMore' \in BOOLEAN
          /\ dayState' = "ready"
      BY <2>4, <3>2, <1>p DEF TakeAnswer, ListTypes, got
    <3>6. ListTypes'
      BY <1>4, <1>p, <3>4, <3>5 DEF Receive, ListTypes
    <3> QED
      BY <1>4, <1>p, <2>2, <2>3, <3>6, RowsKept, OverridesKept, MarksKept, HistoryKept
         DEF Receive, PageTypeOK, strays
  <2>5. CASE g # generation /\ UNCHANGED <<list, showsRead>>
    BY <1>4, <1>p, <2>2, <2>3, <2>5, RowsKept, ListKept, OverridesKept, MarksKept, HistoryKept
       DEF Receive, PageTypeOK, strays
  <2> QED
    BY <1>4, <2>4, <2>5 DEF Receive
<1>5. ASSUME NEW g \in 0..MaxReloads, LoadFails(g)
      PROVE  PageInv'
  <2>1. load' = [load EXCEPT ![g] = NoLoad] /\ load' \in [0..MaxReloads -> Loads]
    BY <1>5, <1>p, NoLoadIsLoad DEF LoadFails
  <2>2. Generations'
    BY <1>p, <2>1, <1>5 DEF LoadFails, Generations, counters
  <2>3. ListTypes'
    BY <1>p, <1>5 DEF LoadFails, ListTypes
  <2> QED
    BY <1>5, <1>p, <2>1, <2>2, <2>3, RowsKept, OverridesKept, MarksKept, HistoryKept
       DEF LoadFails, PageTypeOK, strays
<1>6. ASSUME NEW f \in Filters, ChangeFilters(f)
      PROVE  PageInv'
  <2>1. ListTypes'
    <3>1. showsRead' \in [Items -> BOOLEAN] /\ generation' \in Nat
      BY <1>6, <1>p DEF ChangeFilters, ListTypes
    <3>2. nextCursor' \in Cursors
      BY <1>6, NoCursorIsCursor DEF ChangeFilters
    <3>3. filters' \in Filters /\ loaded' \in SUBSET Items /\ hasMore' \in BOOLEAN
          /\ dayState' = "unknown"
      BY <1>6 DEF ChangeFilters
    <3> QED
      BY <3>1, <3>2, <3>3 DEF ListTypes
  <2>2. HistoryTypes'
    BY <1>6, <1>p DEF ChangeFilters, HistoryTypes
  <2>3. Generations'
    BY <1>6, <1>p DEF ChangeFilters, Generations, ListTypes, HistoryTypes
  <2> QED
    BY <1>6, <1>p, <2>1, <2>2, <2>3, RowsKept, OverridesKept, MarksKept
       DEF ChangeFilters, PageTypeOK
<1>7. ASSUME NEW i \in Items, StartChange(i)
      PROVE  PageInv'
  <2>1. showsRead[i] \in BOOLEAN /\ (~showsRead[i]) \in BOOLEAN
    BY <1>p DEF ListTypes
  <2>2. [at |-> "sent", to |-> ~showsRead[i], was |-> showsRead[i]] \in Changes
    BY <2>1 DEF Changes
  <2>3. MarkTypes'
    BY <1>7, <1>p, <2>2 DEF StartChange, MarkTypes, strays
  <2>4. ListTypes' /\ OverrideTypes'
    BY <1>7, <1>p, <2>1, ShowKeeps, RememberKeeps DEF StartChange
  <2>5. touched' \in SUBSET Items /\ contended' \in SUBSET Items
    BY <1>7, <1>p DEF StartChange, HistoryTypes
  <2>6. HistoryTypes'
    BY <1>7, <1>p, <2>5, ActKeepsCounting DEF StartChange, strays
  <2> QED
    BY <1>7, <1>p, <2>3, <2>4, <2>6, RowsKept, GenerationsKept DEF StartChange, PageTypeOK
<1>8. ASSUME NEW i \in Items, SaveChange(i)
      PROVE  PageInv'
  <2>1. change[i] \in Changes /\ change[i].at = "sent"
    BY <1>8, <1>p DEF SaveChange, MarkTypes
  <2>2. /\ [change[i] EXCEPT !.at = "done"] \in Changes
        /\ [change[i] EXCEPT !.at = "refused"] \in Changes
        /\ change[i].to \in BOOLEAN
    BY <2>1 DEF Changes, NoChange
  <2>3. change' \in [Items -> Changes]
    BY <1>8, <1>p, <2>2 DEF SaveChange, MarkTypes
  <2>5. RowTypes' /\ HistoryTypes' /\ late' \in SUBSET [items : SUBSET Items, to : BOOLEAN]
    <3>1. {i} \in SUBSET Items
      OBVIOUS
    <3> QED
      BY <1>8, <1>p, <2>2, <3>1, OutcomeKeeps DEF SaveChange
  <2>4. MarkTypes'
    BY <1>8, <1>p, <2>3, <2>5 DEF SaveChange, MarkTypes
  <2>7. Generations'
    BY <1>8, <1>p, GenerationsKept DEF SaveChange, counters
  <2> QED
    BY <1>8, <1>p, <2>4, <2>5, <2>7, ListKept, OverridesKept DEF SaveChange, PageTypeOK
<1>9. ASSUME NEW i \in Items, EndChange(i)
      PROVE  PageInv'
  <2> DEFINE shows == IF change[i].at = "done" THEN change[i].to ELSE change[i].was
  <2>1. shows \in BOOLEAN
    BY <1>9, <1>p, ChangeFields DEF EndChange, MarkTypes
  <2>2. Show({i}, shows) /\ Remember({i}, shows)
    BY <1>9 DEF EndChange
  <2> HIDE DEF shows
  <2>3. ListTypes' /\ OverrideTypes'
    BY <1>9, <1>p, <2>1, <2>2, ShowKeeps, RememberKeeps DEF EndChange
  <2>4. MarkTypes'
    BY <1>9, <1>p, NoChangeIsChange DEF EndChange, MarkTypes, strays
  <2>5. Generations'
    BY <1>9, <1>p, GenerationsKept DEF EndChange, counters
  <2> QED
    BY <1>9, <1>p, <2>3, <2>4, <2>5, RowsKept, HistoryKept DEF EndChange, PageTypeOK,
       strays
<1>10. CASE StartFinish
  <2>1. MarkTypes'
    BY <1>10, <1>p DEF StartFinish, MarkTypes, strays
  <2>2. contended' \in SUBSET Items /\ touched' \in SUBSET Items
    BY <1>10, <1>p DEF StartFinish, HistoryTypes
  <2>3. HistoryTypes'
    BY <1>10, <1>p, <2>2, ActKeepsCounting DEF StartFinish, strays
  <2> QED
    BY <1>10, <1>p, <2>1, <2>3, RowsKept, ListKept, OverridesKept, GenerationsKept
       DEF StartFinish, PageTypeOK
<1>11. CASE SaveFinish
  <2>2. RowTypes' /\ HistoryTypes' /\ late' \in SUBSET [items : SUBSET Items, to : BOOLEAN]
    <3>1. inDay \in SUBSET Items /\ Items \in SUBSET Items
      BY <1>p DEF RowTypes
    <3> QED
      BY <1>11, <1>p, <3>1, OutcomeKeeps DEF SaveFinish
  <2>1. MarkTypes'
    BY <1>11, <1>p, <2>2 DEF SaveFinish, MarkTypes
  <2>3. Generations'
    BY <1>11, <1>p, GenerationsKept DEF SaveFinish, counters
  <2> QED
    BY <1>11, <1>p, <2>1, <2>2, <2>3, ListKept, OverridesKept DEF SaveFinish, PageTypeOK
<1>12. CASE EndFinish
  <2>1. MarkTypes'
    BY <1>12, <1>p DEF EndFinish, MarkTypes, strays
  <2>2. ListTypes'
    BY <1>12, <1>p, ShowKeeps, ListKept DEF EndFinish
  <2>3. OverrideTypes'
    <3>1. revision' \in Nat /\ dayOverride' \in Nat /\ override' = override
      <4>1. CASE finish = "done"
        BY <1>12, <1>p, <4>1 DEF EndFinish, OverrideTypes
      <4>2. CASE finish # "done"
        BY <1>12, <1>p, <4>2 DEF EndFinish, OverrideTypes
      <4> QED
        BY <4>1, <4>2
    <3> QED
      BY <1>p, <3>1 DEF OverrideTypes
  <2>4. Generations'
    BY <1>12, <1>p, GenerationsKept DEF EndFinish, counters
  <2> QED
    BY <1>12, <1>p, <2>1, <2>2, <2>3, <2>4, RowsKept, HistoryKept
       DEF EndFinish, PageTypeOK, strays
<1>13. CASE StartBulk
  <2> DEFINE unread == {i \in loaded : ~showsRead[i]}
  <2>1. unread \in SUBSET Items
    BY <1>p DEF ListTypes
  <2>2. bulk' = [at |-> "sent", items |-> unread]
        /\ contended' = contended \cup {i \in unread : change[i] # NoChange}
    BY <1>13 DEF StartBulk
  <2> HIDE DEF unread
  <2>3. bulk' \in [at : {"sent", "done", "refused"}, items : SUBSET Items]
    BY <2>1, <2>2
  <2>6. MarkTypes'
    BY <1>13, <1>p, <2>3 DEF StartBulk, MarkTypes, strays
  <2>4. contended' \in SUBSET Items /\ touched' \in SUBSET Items
    BY <1>13, <1>p, <2>1, <2>2 DEF StartBulk, HistoryTypes
  <2>5. HistoryTypes'
    BY <1>13, <1>p, <2>4, ActKeepsCounting DEF StartBulk, strays
  <2> QED
    BY <1>13, <1>p, <2>6, <2>5, RowsKept, ListKept, OverridesKept, GenerationsKept
       DEF StartBulk, PageTypeOK
<1>14. CASE SaveBulk
  <2>1. bulk \in [at : {"sent", "done", "refused"}, items : SUBSET Items]
    BY <1>14, <1>p DEF SaveBulk, MarkTypes, NoBulk
  <2>2. bulk' \in [at : {"sent", "done", "refused"}, items : SUBSET Items]
    BY <1>14, <2>1 DEF SaveBulk
  <2>4. RowTypes' /\ HistoryTypes' /\ late' \in SUBSET [items : SUBSET Items, to : BOOLEAN]
    <3>1. bulk.items \cap inDay \in SUBSET Items /\ bulk.items \in SUBSET Items
      BY <2>1
    <3> QED
      BY <1>14, <1>p, <3>1, OutcomeKeeps DEF SaveBulk
  <2>3. MarkTypes'
    BY <1>14, <1>p, <2>2, <2>4 DEF SaveBulk, MarkTypes
  <2>5. Generations'
    BY <1>14, <1>p, GenerationsKept DEF SaveBulk, counters
  <2> QED
    BY <1>14, <1>p, <2>3, <2>4, <2>5, ListKept, OverridesKept DEF SaveBulk, PageTypeOK
<1>15. CASE EndBulk
  <2>1. MarkTypes'
    BY <1>15, <1>p DEF EndBulk, MarkTypes, strays
  <2>2. ListTypes'
    BY <1>15, <1>p, ShowKeeps, ListKept DEF EndBulk
  <2>3. OverrideTypes'
    BY <1>15, <1>p, RememberKeeps, OverridesKept DEF EndBulk, overrides
  <2>4. Generations'
    BY <1>15, <1>p, GenerationsKept DEF EndBulk, counters
  <2> QED
    BY <1>15, <1>p, <2>1, <2>2, <2>3, <2>4, RowsKept, HistoryKept
       DEF EndBulk, PageTypeOK, strays
<1>16. ASSUME NEW i \in Items, NEW s \in Scores, Evaluate(i, s)
       PROVE  PageInv'
  <2>1. RowTypes'
    BY <1>16, <1>p DEF Evaluate, RowTypes
  <2>2. touched' \in SUBSET Items /\ contended' \in SUBSET Items
    BY <1>16, <1>p DEF Evaluate, HistoryTypes
  <2>3. HistoryTypes'
    BY <1>16, <1>p, <2>2, ActKeepsCounting DEF Evaluate, strays
  <2> QED
    BY <1>16, <1>p, <2>1, <2>3, ListKept, OverridesKept, MarksKept, GenerationsKept
       DEF Evaluate, PageTypeOK, strays
<1>17. ASSUME NEW i \in Items, Replace(i)
       PROVE  PageInv'
  <2>1. RowTypes'
    BY <1>17, <1>p DEF Replace, RowTypes, NoScore
  <2>2. touched' \in SUBSET Items /\ contended' \in SUBSET Items
    BY <1>17, <1>p DEF Replace, HistoryTypes
  <2>3. HistoryTypes'
    BY <1>17, <1>p, <2>2, ActKeepsCounting DEF Replace, strays
  <2> QED
    BY <1>17, <1>p, <2>1, <2>3, ListKept, OverridesKept, MarksKept, GenerationsKept
       DEF Replace, PageTypeOK, strays
<1>18. CASE UNCHANGED pageVars
  BY <1>18, <1>p, RowsKept, ListKept, OverridesKept, MarksKept, HistoryKept, GenerationsKept
     DEF pageVars, PageTypeOK, counters, strays
<1>19. ASSUME NEW r \in late, LateSave(r)
       PROVE  PageInv'
  <2>1. r.items \cap inDay \in SUBSET Items /\ r.to \in BOOLEAN
    BY <1>p DEF MarkTypes, RowTypes
  <2>2. strayed' \in SUBSET Items /\ SetRead(r.items \cap inDay, r.to)
    BY <1>19, <1>p, <2>1 DEF LateSave, HistoryTypes
  <2>3. RowTypes' /\ HistoryTypes'
    BY <1>19, <1>p, <2>1, <2>2, SetReadKeeps DEF LateSave
  <2>4. Generations'
    BY <1>19, <1>p, GenerationsKept DEF LateSave, counters
  <2> QED
    BY <1>19, <1>p, <2>3, <2>4, ListKept, OverridesKept, MarksKept DEF LateSave, PageTypeOK
<1> QED
  BY <1>1, <1>2, <1>3, <1>4, <1>5, <1>6, <1>7, <1>8, <1>9, <1>10, <1>11, <1>12, <1>13,
     <1>14, <1>15, <1>16, <1>17, <1>18, <1>19 DEF PageNext

\* Every reachable state of the page has its type, and the list in view is the
\* last one that was asked for.
THEOREM PageTypeCorrect == PageSpec => []PageInv
<1>1. PageInit => PageInv
  BY PageInitial
<1>2. PageInv /\ [PageNext]_pageVars => PageInv'
  BY TypeStep
<1> QED
  BY <1>1, <1>2, PTL DEF PageSpec

-----------------------------------------------------------------------------
(***************************************************************************)
(* The list: the keys order the entries totally, so what a page leaves out *)
(* lies behind its last entry.                                             *)
(***************************************************************************)
LEMMA PairsAreOrdered ==
    ASSUME NEW a1 \in Int, NEW a2 \in Int, NEW b1 \in Int, NEW b2 \in Int, a2 # b2
    PROVE  After(<<a1, a2>>, <<b1, b2>>) \/ After(<<b1, b2>>, <<a1, a2>>)
<1>1. ASSUME NEW x1 \in Int, NEW x2 \in Int, NEW y1 \in Int, NEW y2 \in Int,
             x1 > y1 \/ (x1 = y1 /\ x2 > y2)
      PROVE  After(<<x1, x2>>, <<y1, y2>>)
  <2>1. CASE x1 > y1
    <3>1. 1 \in DOMAIN <<x1, x2>> /\ \A m \in 1..(1 - 1) : <<x1, x2>>[m] = <<y1, y2>>[m]
      OBVIOUS
    <3> QED
      BY <2>1, <3>1 DEF After
  <2>2. CASE x1 = y1 /\ x2 > y2
    <3>1. 2 \in DOMAIN <<x1, x2>> /\ \A m \in 1..(2 - 1) : <<x1, x2>>[m] = <<y1, y2>>[m]
      BY <2>2
    <3> QED
      BY <2>2, <3>1 DEF After
  <2> QED
    BY <1>1, <2>1, <2>2
<1>2. \/ a1 > b1 \/ (a1 = b1 /\ a2 > b2)
      \/ b1 > a1 \/ (b1 = a1 /\ b2 > a2)
  OBVIOUS
<1> QED
  BY <1>1, <1>2

\* Quadruples that differ in their last member are ordered one way or the
\* other.
LEMMA QuadruplesAreOrdered ==
    ASSUME NEW a1 \in Int, NEW a2 \in Int, NEW a3 \in Int, NEW a4 \in Int,
           NEW b1 \in Int, NEW b2 \in Int, NEW b3 \in Int, NEW b4 \in Int, a4 # b4
    PROVE  \/ After(<<a1, a2, a3, a4>>, <<b1, b2, b3, b4>>)
           \/ After(<<b1, b2, b3, b4>>, <<a1, a2, a3, a4>>)
<1>1. ASSUME NEW x1 \in Int, NEW x2 \in Int, NEW x3 \in Int, NEW x4 \in Int,
             NEW y1 \in Int, NEW y2 \in Int, NEW y3 \in Int, NEW y4 \in Int,
             \/ x1 > y1
             \/ x1 = y1 /\ x2 > y2
             \/ x1 = y1 /\ x2 = y2 /\ x3 > y3
             \/ x1 = y1 /\ x2 = y2 /\ x3 = y3 /\ x4 > y4
      PROVE  After(<<x1, x2, x3, x4>>, <<y1, y2, y3, y4>>)
  <2> DEFINE x == <<x1, x2, x3, x4>>
             y == <<y1, y2, y3, y4>>
  <2>1. PICK k \in 1..4 : x[k] > y[k] /\ \A m \in 1..(k - 1) : x[m] = y[m]
    <3>1. CASE x1 > y1
      <4>1. x[1] > y[1] /\ \A m \in 1..(1 - 1) : x[m] = y[m]
        BY <3>1
      <4> QED
        BY <4>1
    <3>2. CASE x1 = y1 /\ x2 > y2
      <4>1. x[2] > y[2] /\ \A m \in 1..(2 - 1) : x[m] = y[m]
        BY <3>2
      <4> QED
        BY <4>1
    <3>3. CASE x1 = y1 /\ x2 = y2 /\ x3 > y3
      <4>1. x[3] > y[3] /\ \A m \in 1..(3 - 1) : x[m] = y[m]
        BY <3>3
      <4> QED
        BY <4>1
    <3>4. CASE x1 = y1 /\ x2 = y2 /\ x3 = y3 /\ x4 > y4
      <4>1. x[4] > y[4] /\ \A m \in 1..(4 - 1) : x[m] = y[m]
        BY <3>4
      <4> QED
        BY <4>1
    <3> QED
      BY <1>1, <3>1, <3>2, <3>3, <3>4
  <2>2. DOMAIN x = 1..4
    OBVIOUS
  <2> HIDE DEF x, y
  <2>3. After(x, y)
    BY <2>1, <2>2 DEF After
  <2> QED
    BY <2>3 DEF x, y
<1>2. \/ \/ a1 > b1
         \/ a1 = b1 /\ a2 > b2
         \/ a1 = b1 /\ a2 = b2 /\ a3 > b3
         \/ a1 = b1 /\ a2 = b2 /\ a3 = b3 /\ a4 > b4
      \/ \/ b1 > a1
         \/ b1 = a1 /\ b2 > a2
         \/ b1 = a1 /\ b2 = a2 /\ b3 > a3
         \/ b1 = a1 /\ b2 = a2 /\ b3 = a3 /\ b4 > a4
  OBVIOUS
<1> QED
  BY <1>1, <1>2

\* The keys of two entries are ordered one way or the other: each ends with
\* the id.
LEMMA KeysAreOrdered ==
    ASSUME RowTypes, NEW i \in Items, NEW j \in Items, i # j, NEW sort \in {"ai", "date"}
    PROVE  After(Key(i, sort), Key(j, sort)) \/ After(Key(j, sort), Key(i, sort))
<1>1. \A n \in Items : /\ -Stamp[n] \in Int /\ -n \in Int /\ -aiScore[n] \in Int
                       /\ Cohort(n) \in Int
  <2> TAKE n \in Items
  <2>1. n \in Nat /\ Stamp[n] \in Nat
    OBVIOUS
  <2>2. aiScore[n] \in Nat \/ aiScore[n] = -1
    BY DEF RowTypes, NoScore
  <2> QED
    BY <2>1, <2>2 DEF Cohort
<1>2. -i # -j
  OBVIOUS
<1>3. CASE sort = "date"
  BY <1>1, <1>2, <1>3, PairsAreOrdered DEF Key
<1>4. CASE sort # "date"
  BY <1>1, <1>2, <1>4, QuadruplesAreOrdered DEF Key
<1> QED
  BY <1>3, <1>4

\* A step that leaves the list and its requests alone, and every entry that is
\* still due, leaves the invariant true.
LEMMA ListInvKept ==
    ASSUME ListInv, UNCHANGED <<filters, generation, list, load>>,
           \A i \in Items : Due(i)' => Due(i) /\ aiScore'[i] = aiScore[i]
    PROVE  ListInv'
<1>1. \A i \in Items : Due(i)' =>
         Due(i) /\ Key(i, filters.sort)' = Key(i, filters.sort)
  BY DEF Key, Cohort
<1>2. RestIsBehind'
  BY <1>1 DEF ListInv, RestIsBehind, list
<1>3. AskedWhereItEnds'
  BY DEF ListInv, AskedWhereItEnds, list
<1>4. AnswerIsWhole'
  BY <1>1 DEF ListInv, AnswerIsWhole, list
<1> QED
  BY <1>2, <1>3, <1>4 DEF ListInv

\* The rows a request changes make no entry due, and those that stay due keep
\* their scores.
LEMMA DueAfterSetRead ==
    ASSUME NEW items \in SUBSET Items, NEW value, SetRead(items, value), RowTypes, ListTypes,
           UNCHANGED <<inDay, aiScore, filters>>
    PROVE  \A i \in Items : Due(i)' => Due(i) /\ aiScore'[i] = aiScore[i]
<1> TAKE i \in Items
<1>1. filters.read \in {"all", "unread"}
  BY DEF ListTypes
<1>2. i \notin items => isRead'[i] = isRead[i]
  BY DEF SetRead
<1>3. CASE filters.read = "all"
  BY <1>3 DEF SetRead, Due, Matches
<1>4. CASE filters.read = "unread"
  BY <1>2, <1>4 DEF SetRead, Due, Matches
<1> QED
  BY <1>1, <1>3, <1>4

\* A page that has asked for nothing keeps the invariant of the list.
LEMMA ListInitial == PageInit => ListInv
  BY DEF PageInit, ListInv, RestIsBehind, AskedWhereItEnds, AnswerIsWhole, NoLoad

\* Every step keeps the invariant of the list.
LEMMA ListStep ==
    ASSUME PageInv, ListInv, [PageNext]_pageVars
    PROVE  ListInv'
<1>p. RowTypes /\ ListTypes /\ OverrideTypes /\ MarkTypes /\ HistoryTypes /\ Generations
      /\ load \in [0..MaxReloads -> Loads]
  BY DEF PageInv, PageTypeOK
<1>0. generation \in 0..MaxReloads
  BY <1>p DEF ListTypes, Generations
<1>d. UNCHANGED <<itemRows, filters, touched>> =>
         \A i \in Items : Due(i)' => Due(i) /\ aiScore'[i] = aiScore[i]
  BY DEF Due, Matches, itemRows
<1>k. UNCHANGED <<itemRows, filters>> =>
         \A i \in Items : Key(i, filters.sort)' = Key(i, filters.sort)
  BY DEF Key, Cohort, itemRows
<1>s. ASSUME NEW append \in BOOLEAN, NEW cursor, Send(append, cursor),
             append => loaded # {} /\ cursor = nextCursor,
             ~append => cursor = NoCursor
      PROVE  ListInv'
  <2>1. load'[generation'] = [at |-> "sent", filters |-> filters, append |-> append,
                              cursor |-> cursor, revision |-> revision]
    BY <1>p, <1>0, <1>s DEF Send
  <2>2. UNCHANGED <<itemRows, filters, touched, loaded, nextCursor, hasMore>>
    BY <1>s DEF Send
  <2>3. RestIsBehind'
    BY <1>d, <1>k, <2>2 DEF ListInv, RestIsBehind
  <2>4. AskedWhereItEnds'
    BY <1>s, <2>1, <2>2 DEF AskedWhereItEnds
  <2>5. AnswerIsWhole'
    BY <2>1 DEF AnswerIsWhole
  <2> QED
    BY <2>3, <2>4, <2>5 DEF ListInv
<1>1. CASE OpenDay
  BY <1>1, <1>s DEF OpenDay
<1>2. CASE LoadMore
  BY <1>2, <1>s DEF LoadMore
<1>3. ASSUME NEW g \in 0..MaxReloads, AnswerLoad(g)
      PROVE  ListInv'
  <2> DEFINE asked == load[g]
             sort == asked.filters.sort
             rest == Rest(asked.filters, asked.cursor)
  <2>1. PICK page \in SUBSET rest, next \in {NoCursor} \cup {Key(i, sort) : i \in rest} :
          /\ IsPage(page, rest, sort) /\ IsNext(next, page, rest, sort)
          /\ load' = [load EXCEPT ![g] =
                [at |-> "answered", append |-> asked.append,
                 revision |-> asked.revision, page |-> page, read |-> isRead,
                 next |-> next, more |-> (page # rest)]]
    BY <1>3 DEF AnswerLoad
  <2>2. asked.at = "sent" /\ UNCHANGED <<itemRows, filters, generation, list, touched>>
    BY <1>3 DEF AnswerLoad
  <2>3. CASE g # generation
    <3>1. load'[generation'] = load[generation]
      BY <1>p, <1>0, <2>1, <2>2, <2>3
    <3>2. RestIsBehind'
      BY <1>d, <1>k, <2>2 DEF ListInv, RestIsBehind, list
    <3>3. AskedWhereItEnds'
      BY <2>2, <3>1 DEF ListInv, AskedWhereItEnds, list
    <3>4. AnswerIsWhole'
      BY <1>d, <1>k, <2>2, <3>1 DEF ListInv, AnswerIsWhole, list
    <3> QED
      BY <3>2, <3>3, <3>4 DEF ListInv
  <2>4. CASE g = generation
    <3>1. /\ asked.filters = filters
          /\ asked.append => loaded # {} /\ asked.cursor = nextCursor
          /\ ~asked.append => asked.cursor = NoCursor
      BY <2>2, <2>4 DEF ListInv, AskedWhereItEnds
    <3>2. load'[generation'] =
            [at |-> "answered", append |-> asked.append, revision |-> asked.revision,
             page |-> page, read |-> isRead, next |-> next, more |-> (page # rest)]
      BY <1>p, <1>0, <2>1, <2>2, <2>4
    <3>3. sort \in {"ai", "date"} /\ sort = filters.sort
      BY <3>1, <1>p DEF ListTypes
    <3>4. asked.append \in BOOLEAN
      BY <1>p, <2>2, LoadFields
    <3>5. ASSUME NEW i \in Items, Due(i), i \notin page, ~(asked.append /\ i \in loaded)
          PROVE  page # rest /\ After(Key(i, sort), next)
      <4>1. asked.cursor # NoCursor => After(Key(i, sort), asked.cursor)
        BY <3>1, <3>3, <3>4, <3>5 DEF ListInv, RestIsBehind
      <4>2. i \in rest
        BY <3>1, <3>5, <4>1 DEF Rest, Due
      <4>3. page # rest
        BY <3>5, <4>2
      <4>4. PICK j \in page : next = Key(j, sort)
        BY <2>1, <4>3 DEF IsNext
      <4>5. j \in Items /\ j # i
        BY <3>5, <2>1 DEF Rest
      <4>6. ~After(Key(j, sort), Key(i, sort))
        BY <2>1, <3>5, <4>2 DEF IsPage
      <4>7. After(Key(i, sort), Key(j, sort))
        BY <1>p, <3>3, <4>5, <4>6, KeysAreOrdered
      <4> QED
        BY <4>3, <4>4, <4>7
    <3>6. RestIsBehind'
      BY <1>d, <1>k, <2>2 DEF ListInv, RestIsBehind, list
    <3>7. AskedWhereItEnds'
      BY <3>2 DEF AskedWhereItEnds
    <3> HIDE DEF asked, sort, rest
    <3>8. ASSUME NEW i \in Items, Due(i)', i \notin page
          PROVE  \/ asked.append /\ i \in loaded'
                 \/ page # rest /\ After(Key(i, filters.sort)', next)
      <4>1. Due(i) /\ Key(i, filters.sort)' = Key(i, sort) /\ loaded' = loaded
        BY <1>d, <1>k, <2>2, <3>3, <3>8 DEF list
      <4> QED
        BY <3>5, <3>8, <4>1
    <3>9. AnswerIsWhole'
      <4>1. /\ load'[generation'].append = asked.append
            /\ load'[generation'].page = page /\ load'[generation'].next = next
            /\ load'[generation'].more = (page # rest)
        BY <3>2
      <4>2. SUFFICES ASSUME NEW i \in Items, Due(i)', i \notin load'[generation'].page
                     PROVE  \/ load'[generation'].append /\ i \in loaded'
                            \/ load'[generation'].more
                                 /\ After(Key(i, filters.sort)', load'[generation'].next)
        BY DEF AnswerIsWhole
      <4> QED
        BY <3>8, <4>1, <4>2
    <3> QED
      BY <3>6, <3>7, <3>9 DEF ListInv
  <2> QED
    BY <2>3, <2>4
<1>4. ASSUME NEW g \in 0..MaxReloads, Receive(g)
      PROVE  ListInv'
  <2>1. UNCHANGED <<itemRows, filters, generation, touched>>
        /\ load' = [load EXCEPT ![g] = NoLoad] /\ load[g].at = "answered"
    BY <1>4 DEF Receive
  <2>2. CASE g = generation /\ TakeAnswer(g)
    <3>1. load'[generation'] = NoLoad
      BY <1>p, <1>0, <2>1, <2>2
    <3>2. loaded' = (IF load[g].append THEN loaded \cup load[g].page ELSE load[g].page)
          /\ nextCursor' = load[g].next /\ hasMore' = load[g].more
      BY <2>2 DEF TakeAnswer
    <3>3. \A i \in Items : Due(i) /\ i \notin load[g].page =>
             \/ load[g].append /\ i \in loaded
             \/ load[g].more /\ After(Key(i, filters.sort), load[g].next)
      BY <2>1, <2>2 DEF ListInv, AnswerIsWhole
    <3>4. RestIsBehind'
      BY <1>d, <1>k, <2>1, <3>2, <3>3 DEF RestIsBehind
    <3>5. AskedWhereItEnds' /\ AnswerIsWhole'
      BY <3>1 DEF AskedWhereItEnds, AnswerIsWhole, NoLoad
    <3> QED
      BY <3>4, <3>5 DEF ListInv
  <2>3. CASE g # generation /\ UNCHANGED <<list, showsRead>>
    <3>1. load'[generation'] = load[generation]
      BY <1>p, <1>0, <2>1, <2>3
    <3>2. RestIsBehind'
      BY <1>d, <1>k, <2>1, <2>3 DEF ListInv, RestIsBehind, list
    <3>3. AskedWhereItEnds'
      BY <2>1, <2>3, <3>1 DEF ListInv, AskedWhereItEnds, list
    <3>4. AnswerIsWhole'
      BY <1>d, <1>k, <2>1, <2>3, <3>1 DEF ListInv, AnswerIsWhole, list
    <3> QED
      BY <3>2, <3>3, <3>4 DEF ListInv
  <2> QED
    BY <1>4, <2>2, <2>3 DEF Receive
<1>5. ASSUME NEW g \in 0..MaxReloads, LoadFails(g)
      PROVE  ListInv'
  <2>1. load'[generation'] = NoLoad
        /\ UNCHANGED <<itemRows, filters, touched, loaded, nextCursor, hasMore>>
    BY <1>p, <1>0, <1>5 DEF LoadFails
  <2>2. RestIsBehind'
    BY <1>d, <1>k, <2>1 DEF ListInv, RestIsBehind
  <2>3. AskedWhereItEnds' /\ AnswerIsWhole'
    BY <2>1 DEF AskedWhereItEnds, AnswerIsWhole, NoLoad
  <2> QED
    BY <2>2, <2>3 DEF ListInv
<1>6. ASSUME NEW f \in Filters, ChangeFilters(f)
      PROVE  ListInv'
  <2>1. load'[generation'] = NoLoad
    BY <1>p, <1>6 DEF ChangeFilters, Generations, ListTypes, HistoryTypes
  <2>2. loaded' = {}
    BY <1>6 DEF ChangeFilters
  <2> QED
    BY <2>1, <2>2 DEF ListInv, RestIsBehind, AskedWhereItEnds, AnswerIsWhole, NoLoad
<1>7. ASSUME NEW i \in Items, StartChange(i)
      PROVE  ListInv'
  BY <1>7, <1>d, ListInvKept DEF StartChange
<1>8. ASSUME NEW i \in Items, SaveChange(i)
      PROVE  ListInv'
  <2>1. {i} \in SUBSET Items /\ UNCHANGED <<inDay, aiScore, filters, generation, list, load>>
    BY <1>8 DEF SaveChange
  <2>2. CASE SetRead({i}, change[i].to)
    BY <1>p, <2>1, <2>2, DueAfterSetRead, ListInvKept
  <2>3. CASE UNCHANGED <<isRead, touched>>
    BY <1>d, <2>1, <2>3, ListInvKept DEF itemRows
  <2> QED
    BY <1>8, <2>2, <2>3 DEF SaveChange, Saves, GivesUp
<1>9. ASSUME NEW i \in Items, EndChange(i)
      PROVE  ListInv'
  BY <1>9, <1>d, ListInvKept DEF EndChange
<1>10. CASE StartFinish
  BY <1>10, <1>d, ListInvKept DEF StartFinish
<1>11. CASE SaveFinish
  <2>1. CASE SetRead(inDay, TRUE)
    BY <1>11, <1>p, <2>1, DueAfterSetRead, ListInvKept DEF SaveFinish, RowTypes
  <2>2. CASE UNCHANGED <<isRead, touched>>
    BY <1>11, <1>d, <2>2, ListInvKept DEF SaveFinish, itemRows
  <2> QED
    BY <1>11, <2>1, <2>2 DEF SaveFinish, Saves, GivesUp
<1>12. CASE EndFinish
  BY <1>12, <1>d, ListInvKept DEF EndFinish
<1>13. CASE StartBulk
  BY <1>13, <1>d, ListInvKept DEF StartBulk
<1>14. CASE SaveBulk
  <2>1. CASE SetRead(bulk.items \cap inDay, TRUE)
    <3>1. bulk.items \cap inDay \in SUBSET Items
      BY <1>p DEF RowTypes
    <3> QED
      BY <1>14, <1>p, <2>1, <3>1, DueAfterSetRead, ListInvKept DEF SaveBulk
  <2>2. CASE UNCHANGED <<isRead, touched>>
    BY <1>14, <1>d, <2>2, ListInvKept DEF SaveBulk, itemRows
  <2> QED
    BY <1>14, <2>1, <2>2 DEF SaveBulk, Saves, GivesUp
<1>15. CASE EndBulk
  BY <1>15, <1>d, ListInvKept DEF EndBulk
<1>16. ASSUME NEW i \in Items, NEW s \in Scores, Evaluate(i, s)
       PROVE  ListInv'
  <2>1. \A n \in Items : Due(n)' => Due(n) /\ aiScore'[n] = aiScore[n]
    BY <1>16, <1>p DEF Evaluate, Due, Matches, RowTypes
  <2> QED
    BY <1>16, <2>1, ListInvKept DEF Evaluate
<1>17. ASSUME NEW i \in Items, Replace(i)
       PROVE  ListInv'
  <2>1. touched' = touched \cup {i} /\ UNCHANGED filters
    BY <1>17 DEF Replace
  <2>2. \A n \in Items \ {i} : /\ n \in inDay' <=> n \in inDay
                               /\ isRead'[n] = isRead[n] /\ aiScore'[n] = aiScore[n]
    BY <1>17, <1>p DEF Replace, RowTypes
  <2>3. \A n \in Items : Due(n)' => Due(n) /\ aiScore'[n] = aiScore[n]
    BY <2>1, <2>2 DEF Due, Matches
  <2> QED
    BY <1>17, <2>3, ListInvKept DEF Replace
<1>18. CASE UNCHANGED pageVars
  BY <1>18, <1>d, ListInvKept DEF pageVars
<1>19. ASSUME NEW r \in late, LateSave(r)
       PROVE  ListInv'
  <2>1. r.items \cap inDay \in SUBSET Items /\ SetRead(r.items \cap inDay, r.to)
    BY <1>19, <1>p DEF LateSave, RowTypes
  <2> QED
    BY <1>19, <1>p, <2>1, DueAfterSetRead, ListInvKept DEF LateSave
<1> QED
  BY <1>1, <1>2, <1>3, <1>4, <1>5, <1>6, <1>7, <1>8, <1>9, <1>10, <1>11, <1>12, <1>13,
     <1>14, <1>15, <1>16, <1>17, <1>18, <1>19 DEF PageNext

\* A list that says it has no more pages has shown every entry that matches and
\* did not change since it was opened, however many pages and failures that took
\* and whatever was marked, evaluated or deleted in between.
THEOREM NothingSkipped == PageSpec => []AllShown
<1>1. PageInit => PageInv /\ ListInv
  BY PageInitial, ListInitial
<1>2. PageInv /\ ListInv /\ [PageNext]_pageVars => (PageInv /\ ListInv)'
  BY TypeStep, ListStep
<1>3. ListInv => AllShown
  BY DEF ListInv, RestIsBehind, Due, AllShown
<1> QED
  BY <1>1, <1>2, <1>3, PTL DEF PageSpec

-----------------------------------------------------------------------------
(***************************************************************************)
(* The read state.                                                         *)
(***************************************************************************)
LEMMA BulkFields ==
    ASSUME MarkTypes
    PROVE  /\ bulk = NoBulk <=> bulk.at = "none"
           /\ bulk # NoBulk => bulk.items \in SUBSET Items
  BY DEF MarkTypes, NoBulk

\* What the answer of a request that was sent at a revision becomes.
LEMMA OverlayTaken ==
    ASSUME NEW i, NEW value, NEW since,
           override[i].revision > since \/ change[i] # NoChange,
           override[i].revision >= dayOverride
    PROVE  Overlay(i, value, since) = override[i].value
  BY DEF Overlay

\* An entry that nobody changed is shown as the server sent it.
LEMMA OverlayNothing ==
    ASSUME NEW i, NEW value \in BOOLEAN, NEW since,
           ~(override[i].revision > since), change[i] = NoChange, ~(dayOverride > since)
    PROVE  Overlay(i, value, since) = value
  BY DEF Overlay

\* A step that leaves an entry, its row and its requests alone.
LEMMA ItemKept ==
    ASSUME NEW i \in Items, ItemRight(i),
           change'[i] = change[i], override'[i] = override[i], dayOverride' = dayOverride,
           isRead'[i] = isRead[i], Sure(i)' => Sure(i),
           i \in loaded' => i \in loaded /\ showsRead'[i] = showsRead[i],
           load'[generation'].at \in {"sent", "answered"} =>
               load'[generation'] = load[generation],
           finish' = "done" => finish = "done",
           bulk'.at = "done" /\ i \in bulk'.items => bulk.at = "done" /\ i \in bulk.items,
           Settled(i)' => Settled(i), OneRequest(i)'
    PROVE  ItemRight(i)'
<1> USE DEF ItemRight
<1>1. ChangeRemembered(i)'
  BY DEF ChangeRemembered
<1>2. MarkedIsRead(i)'
  BY DEF MarkedIsRead
<1>3. PageIsRight(i)'
  BY DEF PageIsRight
<1>4. FlightIsRight(i)'
  BY DEF FlightIsRight, Overlay
<1> QED
  BY <1>1, <1>2, <1>3, <1>4

\* A step that leaves all requests that change rows alone.
LEMMA AllKept ==
    ASSUME \A i \in Items \ contended : ItemRight(i), contended \subseteq contended',
           UNCHANGED <<inDay, isRead, strayed, overrides, marks>>,
           \A i \in loaded' : i \in loaded /\ showsRead'[i] = showsRead[i],
           load'[generation'].at \in {"sent", "answered"} =>
               load'[generation'] = load[generation]
    PROVE  \A i \in Items \ contended' : ItemRight(i)'
<1> TAKE i \in Items \ contended'
<1>1. ItemRight(i)
  OBVIOUS
<1>2. OneRequest(i)' /\ (Settled(i)' <=> Settled(i))
  BY <1>1 DEF ItemRight, OneRequest, Settled, marks
<1> QED
  BY <1>1, <1>2, ItemKept DEF overrides, marks, Sure

\* Revisions stay in order while changes and requests stay as they are.
LEMMA RevisionsKept ==
    ASSUME RevisionsInOrder, UNCHANGED <<override, dayOverride, load>>,
           revision \in Nat, revision' \in {revision, revision + 1},
           OverrideTypes, load \in [0..MaxReloads -> Loads]
    PROVE  RevisionsInOrder'
<1>1. \A g \in 0..MaxReloads : load[g] # NoLoad => load[g].revision \in Nat
  BY LoadFields
<1>2. \A i \in Items : override[i].revision \in Nat
  BY DEF OverrideTypes
<1>3. revision <= revision' /\ revision' \in Nat /\ dayOverride \in Nat
  BY DEF OverrideTypes
<1>4. dayOverride' <= revision'
  BY <1>3 DEF RevisionsInOrder
<1>5. \A i \in Items : override'[i].revision <= revision'
  BY <1>2, <1>3 DEF RevisionsInOrder
<1>6. \A g \in 0..MaxReloads : load'[g] # NoLoad => load'[g].revision <= revision'
  BY <1>1, <1>3 DEF RevisionsInOrder
<1> QED
  BY <1>4, <1>5, <1>6 DEF RevisionsInOrder

\* A page on which nothing was marked keeps the invariant of the read states.
LEMMA ReadInitial == PageInit => ReadInv
<1> SUFFICES ASSUME PageInit PROVE ReadInv
  OBVIOUS
<1>1. RevisionsInOrder
  BY DEF PageInit, RevisionsInOrder
<1>2. ASSUME NEW i \in Items PROVE ItemRight(i)
  <2>1. change[i] = NoChange /\ loaded = {} /\ finish = "none" /\ bulk.at = "none"
    BY DEF PageInit, NoBulk
  <2>2. generation \in 0..MaxReloads /\ load[generation].at = "none"
    BY DEF PageInit, NoLoad
  <2> QED
    BY <2>1, <2>2 DEF ItemRight, OneRequest, ChangeRemembered, MarkedIsRead, PageIsRight,
       FlightIsRight
<1> QED
  BY <1>1, <1>2 DEF ReadInv

\* A new revision, for an override of some entries.
LEMMA RevisionsRemembered ==
    ASSUME RevisionsInOrder, OverrideTypes, load \in [0..MaxReloads -> Loads],
           NEW items, NEW value, Remember(items, value), UNCHANGED <<dayOverride, load>>
    PROVE  RevisionsInOrder'
<1>1. \A g \in 0..MaxReloads : load[g] # NoLoad => load[g].revision \in Nat
  BY LoadFields
<1>2. \A i \in Items : override[i].revision \in Nat
  BY DEF OverrideTypes
<1>3. revision \in Nat /\ dayOverride \in Nat /\ revision' = revision + 1
  BY DEF OverrideTypes, Remember
<1>4. dayOverride' <= revision'
  BY <1>3 DEF RevisionsInOrder
<1>5. \A i \in Items : override'[i].revision <= revision'
  <2> TAKE i \in Items
  <2>1. CASE i \in items
    BY <1>3, <2>1 DEF Remember
  <2>2. CASE i \notin items
    BY <1>2, <1>3, <2>2 DEF Remember, RevisionsInOrder
  <2> QED
    BY <2>1, <2>2
<1>6. \A g \in 0..MaxReloads : load'[g] # NoLoad => load'[g].revision <= revision'
  BY <1>1, <1>3 DEF RevisionsInOrder
<1> QED
  BY <1>4, <1>5, <1>6 DEF RevisionsInOrder

\* What is remembered with a new revision wins over everything in flight.
LEMMA RememberedWins ==
    ASSUME RevisionsInOrder, OverrideTypes, load \in [0..MaxReloads -> Loads],
           NEW items, NEW value, Remember(items, value), UNCHANGED dayOverride,
           NEW i \in items \cap Items, NEW g \in 0..MaxReloads, load[g] # NoLoad
    PROVE  /\ override'[i].revision > load[g].revision
           /\ override'[i].revision >= dayOverride'
<1>1. load[g].revision \in Nat /\ load[g].revision <= revision
  BY LoadFields DEF RevisionsInOrder
<1>2. override'[i] = [value |-> value, revision |-> revision + 1]
  BY DEF Remember
<1>3. dayOverride' <= revision /\ dayOverride' \in Nat /\ revision \in Nat
  BY DEF RevisionsInOrder, OverrideTypes
<1> QED
  BY <1>1, <1>2, <1>3

\* Every step keeps the invariant of the read states.
LEMMA ReadStep ==
    ASSUME PageInv, ReadInv, [PageNext]_pageVars
    PROVE  ReadInv'
<1>p. RowTypes /\ ListTypes /\ OverrideTypes /\ MarkTypes /\ HistoryTypes /\ Generations
      /\ load \in [0..MaxReloads -> Loads]
  BY DEF PageInv, PageTypeOK
<1>0. generation \in 0..MaxReloads
  BY <1>p DEF ListTypes, Generations
<1>i. RevisionsInOrder /\ \A i \in Items \ contended : ItemRight(i)
  BY DEF ReadInv
<1>r. UNCHANGED <<overrides, load>> => RevisionsInOrder'
  BY <1>i DEF RevisionsInOrder, overrides
<1>s. ASSUME NEW append \in BOOLEAN, NEW cursor, Send(append, cursor)
      PROVE  ReadInv'
  <2> DEFINE asked == [at |-> "sent", filters |-> filters, append |-> append,
                       cursor |-> cursor, revision |-> revision]
  <2>1. load' = [load EXCEPT ![generation] = asked] /\ generation' = generation
        /\ UNCHANGED <<inDay, isRead, strayed, overrides, marks, contended, loaded, showsRead>>
    BY <1>s DEF Send, itemRows, strays
  <2>2. load'[generation'] = asked
        /\ \A g \in 0..MaxReloads \ {generation} : load'[g] = load[g]
    BY <1>p, <1>0, <2>1
  <2>3. revision \in Nat
    BY <1>p DEF OverrideTypes
  <2>4. RevisionsInOrder'
    BY <1>i, <2>1, <2>2, <2>3 DEF RevisionsInOrder, overrides
  <2>5. ASSUME NEW i \in Items \ contended'
        PROVE  ItemRight(i)'
    <3>1. ItemRight(i) /\ i \in Items
      BY <1>i, <2>1, <2>5
    <3>2. FlightIsRight(i)'
      <4>1. ASSUME Settled(i)
            PROVE  Overlay(i, isRead[i], revision) = isRead[i]
        <5>1. override[i].revision <= revision /\ override[i].revision \in Nat
              /\ dayOverride <= revision /\ dayOverride \in Nat
          BY <1>i, <1>p, <3>1 DEF RevisionsInOrder, OverrideTypes
        <5>2. isRead[i] \in BOOLEAN /\ change[i] = NoChange
          BY <1>p, <3>1, <4>1 DEF RowTypes, Settled
        <5> QED
          BY <2>3, <5>1, <5>2, OverlayNothing
      <4>2. Settled(i)' <=> Settled(i)
        BY <2>1 DEF Settled, marks
      <4> QED
        BY <2>1, <2>2, <4>1, <4>2 DEF FlightIsRight, Overlay, Sure, overrides, marks
    <3>3. OneRequest(i)' /\ ChangeRemembered(i)' /\ MarkedIsRead(i)' /\ PageIsRight(i)'
      BY <2>1, <3>1 DEF ItemRight, OneRequest, ChangeRemembered, MarkedIsRead, PageIsRight,
         Settled, Sure, overrides, marks
    <3> QED
      BY <3>2, <3>3 DEF ItemRight
  <2> QED
    BY <2>4, <2>5 DEF ReadInv
<1>1. CASE OpenDay
  BY <1>1, <1>s DEF OpenDay
<1>2. CASE LoadMore
  BY <1>2, <1>s DEF LoadMore
<1>3. ASSUME NEW g \in 0..MaxReloads, AnswerLoad(g)
      PROVE  ReadInv'
  <2>1. load[g].at = "sent" /\ generation' = generation
        /\ UNCHANGED <<inDay, isRead, strayed, overrides, marks, contended, loaded, showsRead>>
    BY <1>3 DEF AnswerLoad, itemRows, list, strays
  <2>2. PICK page, next, more :
          load' = [load EXCEPT ![g] =
                    [at |-> "answered", append |-> load[g].append,
                     revision |-> load[g].revision, page |-> page, read |-> isRead,
                     next |-> next, more |-> more]]
    BY <1>3 DEF AnswerLoad
  <2>3. /\ load'[g].at = "answered" /\ load'[g].revision = load[g].revision
        /\ load'[g].read = isRead
        /\ \A h \in 0..MaxReloads \ {g} : load'[h] = load[h]
    BY <1>p, <2>2
  <2>4. RevisionsInOrder'
    <3>1. \A h \in 0..MaxReloads : load'[h] # NoLoad =>
             load[h] # NoLoad /\ load'[h].revision = load[h].revision
      BY <2>1, <2>3 DEF NoLoad
    <3> QED
      BY <1>i, <2>1, <3>1 DEF RevisionsInOrder, overrides
  <2>5. CASE g # generation
    <3>1. load'[generation'] = load[generation]
      BY <1>0, <2>1, <2>3, <2>5
    <3>2. \A i \in Items \ contended' : ItemRight(i)'
      BY <1>i, <2>1, <3>1, AllKept
    <3> QED
      BY <2>4, <3>2 DEF ReadInv
  <2>6. CASE g = generation
    <3>1. ASSUME NEW i \in Items \ contended'
          PROVE  ItemRight(i)'
      <4>1. ItemRight(i)
        BY <1>i, <2>1
      <4>2. Settled(i)' <=> Settled(i)
        BY <2>1 DEF Settled, marks
      <4>3. Sure(i) /\ Settled(i) =>
               Overlay(i, isRead[i], load[g].revision) = isRead[i]
        BY <2>1, <2>6, <4>1 DEF ItemRight, FlightIsRight
      <4>4. FlightIsRight(i)'
        BY <2>1, <2>3, <2>6, <4>2, <4>3 DEF FlightIsRight, Overlay, Sure, overrides, marks
      <4>5. OneRequest(i)' /\ ChangeRemembered(i)' /\ MarkedIsRead(i)' /\ PageIsRight(i)'
        BY <2>1, <4>1 DEF ItemRight, OneRequest, ChangeRemembered, MarkedIsRead, PageIsRight,
           Settled, Sure, overrides, marks
      <4> QED
        BY <4>4, <4>5 DEF ItemRight
    <3> QED
      BY <2>4, <3>1 DEF ReadInv
  <2> QED
    BY <2>5, <2>6
<1>4. ASSUME NEW g \in 0..MaxReloads, Receive(g)
      PROVE  ReadInv'
  <2>1. load' = [load EXCEPT ![g] = NoLoad] /\ generation' = generation
        /\ UNCHANGED <<inDay, isRead, strayed, overrides, marks, contended>>
    BY <1>4 DEF Receive, itemRows, strays
  <2>2. load'[g] = NoLoad /\ \A h \in 0..MaxReloads \ {g} : load'[h] = load[h]
    BY <1>p, <2>1
  <2>3. RevisionsInOrder'
    BY <1>i, <2>1, <2>2 DEF RevisionsInOrder, overrides
  <2>4. CASE g # generation /\ UNCHANGED <<list, showsRead>>
    <3>1. load'[generation'] = load[generation]
      BY <1>0, <2>1, <2>2, <2>4
    <3>2. \A i \in Items \ contended' : ItemRight(i)'
      BY <1>i, <2>1, <2>4, <3>1, AllKept DEF list
    <3> QED
      BY <2>3, <3>2 DEF ReadInv
  <2>5. CASE g = generation /\ TakeAnswer(g)
    <3> DEFINE got == load[g]
    <3>1. got.at = "answered" /\ got \in Loads
      BY <1>4, <1>p DEF Receive
    <3>2. ASSUME NEW i \in Items \ contended'
          PROVE  ItemRight(i)'
      <4>1. ItemRight(i)
        BY <1>i, <2>1
      <4>2. Settled(i)' <=> Settled(i)
        BY <2>1 DEF Settled, marks
      <4>3. FlightIsRight(i)'
        BY <2>1, <2>2, <2>5 DEF FlightIsRight, NoLoad
      <4>4. OneRequest(i)' /\ ChangeRemembered(i)' /\ MarkedIsRead(i)'
        BY <2>1, <4>1 DEF ItemRight, OneRequest, ChangeRemembered, MarkedIsRead,
           Sure, overrides, marks
      <4>5. PageIsRight(i)'
        <5>1. CASE i \in (IF got.append THEN got.page \ loaded ELSE got.page)
          <6>1. showsRead'[i] = Overlay(i, got.read[i], got.revision) /\ i \in got.page
            BY <2>5, <5>1 DEF TakeAnswer
          <6>2. change[i] # NoChange => showsRead'[i] = change[i].to
            BY <4>1, <6>1, OverlayTaken DEF ItemRight, ChangeRemembered
          <6>3. Sure(i) /\ Settled(i) => showsRead'[i] = isRead[i]
            BY <2>5, <3>1, <4>1, <6>1 DEF ItemRight, FlightIsRight
          <6> QED
            BY <2>1, <4>2, <6>2, <6>3 DEF PageIsRight, Sure, marks
        <5>2. CASE i \notin (IF got.append THEN got.page \ loaded ELSE got.page)
          <6>1. showsRead'[i] = showsRead[i]
            BY <2>5, <5>2 DEF TakeAnswer
          <6>2. i \in loaded' => i \in loaded
            BY <2>5, <5>2 DEF TakeAnswer
          <6> QED
            BY <2>1, <4>1, <4>2, <6>1, <6>2 DEF ItemRight, PageIsRight, Sure, marks
        <5> QED
          BY <5>1, <5>2
      <4> QED
        BY <4>3, <4>4, <4>5 DEF ItemRight
    <3> QED
      BY <2>3, <3>2 DEF ReadInv
  <2> QED
    BY <1>4, <2>4, <2>5 DEF Receive
<1>5. ASSUME NEW g \in 0..MaxReloads, LoadFails(g)
      PROVE  ReadInv'
  <2>1. load' = [load EXCEPT ![g] = NoLoad] /\ generation' = generation /\ g = generation
        /\ UNCHANGED <<inDay, isRead, strayed, overrides, marks, contended, loaded, showsRead>>
    BY <1>5 DEF LoadFails, itemRows, strays
  <2>2. load'[g] = NoLoad /\ \A h \in 0..MaxReloads \ {g} : load'[h] = load[h]
    BY <1>p, <2>1
  <2>3. RevisionsInOrder'
    BY <1>i, <2>1, <2>2 DEF RevisionsInOrder, overrides
  <2>4. \A i \in Items \ contended' : ItemRight(i)'
    BY <1>i, <2>1, <2>2, AllKept DEF NoLoad
  <2> QED
    BY <2>3, <2>4 DEF ReadInv
<1>6. ASSUME NEW f \in Filters, ChangeFilters(f)
      PROVE  ReadInv'
  <2>1. /\ load'[generation'] = NoLoad /\ loaded' = {}
        /\ UNCHANGED <<inDay, isRead, overrides, load, marks>>
        /\ contended' = IF Idle THEN {} ELSE contended
        /\ strayed' = IF Idle THEN {} ELSE strayed
    BY <1>p, <1>6 DEF ChangeFilters, Generations, ListTypes, HistoryTypes, itemRows
  <2>2. RevisionsInOrder'
    BY <1>r, <2>1
  <2>3. CASE Idle
    <3>1. ASSUME NEW i \in Items PROVE ItemRight(i)'
      <4>1. change'[i] = NoChange /\ finish' = "none" /\ bulk'.at = "none" /\ loaded' = {}
            /\ load'[generation'].at = "none"
        BY <2>1, <2>3 DEF Idle, NoBulk, NoLoad, marks
      <4> QED
        BY <4>1 DEF ItemRight, OneRequest, ChangeRemembered, MarkedIsRead, PageIsRight,
           FlightIsRight
    <3> QED
      BY <2>2, <3>1 DEF ReadInv
  <2>4. CASE ~Idle
    <3>1. \A i \in Items \ contended' : ItemRight(i)'
      BY <1>i, <2>1, <2>4, AllKept DEF NoLoad
    <3> QED
      BY <2>2, <3>1 DEF ReadInv
  <2> QED
    BY <2>3, <2>4
<1>7. ASSUME NEW i \in Items, StartChange(i)
      PROVE  ReadInv'
  <2> DEFINE to == ~showsRead[i]
  <2>1. /\ i \in loaded /\ change[i] = NoChange
        /\ change' = [change EXCEPT ![i] = [at |-> "sent", to |-> to, was |-> showsRead[i]]]
        /\ Show({i}, to) /\ Remember({i}, to)
        /\ UNCHANGED <<inDay, isRead, strayed, generation, list, dayOverride, load, finish, bulk>>
    BY <1>7 DEF StartChange, itemRows, strays
  <2>2. contended' = IF finish = "none" /\ (bulk = NoBulk \/ i \notin bulk.items)
                     THEN contended ELSE contended \cup {i}
    BY <1>7 DEF StartChange
  <2>3. change'[i] = [at |-> "sent", to |-> to, was |-> showsRead[i]]
        /\ change'[i] # NoChange /\ \A j \in Items \ {i} : change'[j] = change[j]
    BY <1>p, <2>1 DEF MarkTypes, NoChange
  <2>4. showsRead'[i] = to /\ override'[i] = [value |-> to, revision |-> revision + 1]
        /\ \A j \in Items \ {i} : showsRead'[j] = showsRead[j] /\ override'[j] = override[j]
    BY <2>1 DEF Show, Remember
  <2> HIDE DEF to
  <2>5. RevisionsInOrder'
    BY <1>i, <1>p, <2>1, RevisionsRemembered
  <2>6. ASSUME NEW j \in Items \ contended', j # i
        PROVE  ItemRight(j)'
    <3>1. ItemRight(j) /\ j \in Items
      BY <1>i, <2>2, <2>6
    <3>2. OneRequest(j)' /\ (Settled(j)' <=> Settled(j))
      BY <2>1, <2>3, <2>6, <3>1 DEF ItemRight, OneRequest, Settled
    <3> QED
      BY <2>1, <2>3, <2>4, <2>6, <3>1, <3>2, ItemKept DEF list, Sure
  <2>7. ASSUME i \notin contended'
        PROVE  ItemRight(i)'
    <3>1. i \notin contended /\ finish = "none" /\ (bulk = NoBulk \/ i \notin bulk.items)
      BY <2>2, <2>7
    <3>2. Settled(i) /\ ItemRight(i)
      BY <1>i, <1>p, <2>1, <3>1, BulkFields DEF Settled
    <3>3. OneRequest(i)'
      BY <2>1, <3>1 DEF OneRequest
    <3>4. ChangeRemembered(i)'
      <4>1. Sure(i) => isRead[i] = showsRead[i]
        BY <2>1, <3>2 DEF ItemRight, PageIsRight
      <4>2. revision + 1 >= dayOverride
        BY <1>i, <1>p DEF RevisionsInOrder, OverrideTypes
      <4> QED
        BY <2>1, <2>3, <2>4, <4>1, <4>2 DEF ChangeRemembered, Sure
    <3>5. MarkedIsRead(i)'
      BY <2>1, <3>2 DEF ItemRight, MarkedIsRead, Sure
    <3>6. PageIsRight(i)' /\ FlightIsRight(i)'
      BY <2>3, <2>4 DEF PageIsRight, FlightIsRight, Settled
    <3> QED
      BY <3>3, <3>4, <3>5, <3>6 DEF ItemRight
  <2>8. \A j \in Items \ contended' : ItemRight(j)'
    BY <2>6, <2>7
  <2> QED
    BY <2>5, <2>8 DEF ReadInv
<1>8. ASSUME NEW i \in Items, SaveChange(i)
      PROVE  ReadInv'
  <2>1. /\ change[i].at = "sent" /\ contended' = contended
        /\ UNCHANGED <<inDay, generation, list, showsRead, overrides, load, finish, bulk>>
    BY <1>8 DEF SaveChange
  <2>2. RevisionsInOrder'
    BY <1>r, <2>1
  <2>3. PICK at \in {"done", "refused"} :
          /\ change' = [change EXCEPT ![i].at = at]
          /\ \/ at = "done" /\ Saves({i}, change[i].to)
             \/ at = "refused" /\ GivesUp({i}, change[i].to)
    BY <1>8 DEF SaveChange
  <2>4. change[i] \in Changes /\ change[i] # NoChange
    BY <1>p, <2>1 DEF MarkTypes, NoChange
  <2>5. /\ change'[i] # NoChange /\ change'[i].at = at
        /\ change'[i].to = change[i].to /\ change'[i].was = change[i].was
        /\ \A j \in Items \ {i} : change'[j] = change[j]
    BY <1>p, <2>1, <2>3, <2>4 DEF MarkTypes, Changes, NoChange
  <2>6. /\ isRead'[i] = IF at = "done" THEN change[i].to ELSE isRead[i]
        /\ \A j \in Items \ {i} : isRead'[j] = isRead[j] /\ (Sure(j)' <=> Sure(j))
        /\ at = "refused" => (Sure(i)' <=> Sure(i))
    BY <1>p, <2>1, <2>3 DEF RowTypes, Saves, GivesUp, SetRead, Sure
  <2>7. ASSUME NEW j \in Items \ contended', j # i
        PROVE  ItemRight(j)'
    <3>1. ItemRight(j) /\ j \in Items
      BY <1>i, <2>1, <2>7
    <3>2. OneRequest(j)' /\ (Settled(j)' <=> Settled(j))
      BY <2>1, <2>5, <2>7, <3>1 DEF ItemRight, OneRequest, Settled
    <3> QED
      BY <2>1, <2>5, <2>6, <2>7, <3>1, <3>2, ItemKept DEF list, overrides, Sure
  <2>8. ASSUME i \notin contended'
        PROVE  ItemRight(i)'
    <3>1. ItemRight(i)
      BY <1>i, <2>1, <2>8
    <3>2. finish = "none" /\ (bulk # NoBulk => i \notin bulk.items)
      BY <2>4, <3>1 DEF ItemRight, OneRequest
    <3>3. OneRequest(i)'
      BY <2>1, <3>2 DEF OneRequest
    <3>4. ChangeRemembered(i)'
      BY <2>1, <2>3, <2>4, <2>5, <2>6, <3>1 DEF ItemRight, ChangeRemembered, overrides
    <3>5. MarkedIsRead(i)'
      BY <1>p, <2>1, <3>2, BulkFields DEF MarkedIsRead
    <3>6. PageIsRight(i)'
      BY <2>1, <2>4, <2>5, <3>1 DEF ItemRight, PageIsRight, Settled, list
    <3>7. FlightIsRight(i)'
      BY <2>5 DEF FlightIsRight, Settled
    <3> QED
      BY <3>3, <3>4, <3>5, <3>6, <3>7 DEF ItemRight
  <2>9. \A j \in Items \ contended' : ItemRight(j)'
    BY <2>7, <2>8
  <2> QED
    BY <2>2, <2>9 DEF ReadInv
<1>9. ASSUME NEW i \in Items, EndChange(i)
      PROVE  ReadInv'
  <2> DEFINE shows == IF change[i].at = "done" THEN change[i].to ELSE change[i].was
  <2>1. /\ change[i].at \in {"done", "refused"} /\ contended' = contended
        /\ change' = [change EXCEPT ![i] = NoChange]
        /\ Show({i}, shows) /\ Remember({i}, shows)
        /\ UNCHANGED <<inDay, isRead, strayed, generation, list, dayOverride, load, finish, bulk>>
    BY <1>9 DEF EndChange, itemRows, strays
  <2>2. change[i] # NoChange
    BY <2>1 DEF NoChange
  <2> HIDE DEF shows
  <2>3. change'[i] = NoChange /\ \A j \in Items \ {i} : change'[j] = change[j]
    BY <1>p, <2>1 DEF MarkTypes
  <2>4. override'[i] = [value |-> shows, revision |-> revision + 1]
        /\ (i \in loaded => showsRead'[i] = shows)
        /\ \A j \in Items \ {i} : showsRead'[j] = showsRead[j] /\ override'[j] = override[j]
    BY <2>1 DEF Show, Remember
  <2>5. RevisionsInOrder'
    BY <1>i, <1>p, <2>1, RevisionsRemembered
  <2>6. ASSUME NEW j \in Items \ contended', j # i
        PROVE  ItemRight(j)'
    <3>1. ItemRight(j) /\ j \in Items
      BY <1>i, <2>1, <2>6
    <3>2. OneRequest(j)' /\ (Settled(j)' <=> Settled(j))
      BY <2>1, <2>3, <2>6, <3>1 DEF ItemRight, OneRequest, Settled
    <3> QED
      BY <2>1, <2>3, <2>4, <2>6, <3>1, <3>2, ItemKept DEF list, Sure
  <2>7. ASSUME i \notin contended'
        PROVE  ItemRight(i)'
    <3>1. ItemRight(i)
      BY <1>i, <2>1, <2>7
    <3>2. Sure(i) => isRead[i] = shows
      BY <2>1, <2>2, <3>1 DEF ItemRight, ChangeRemembered, shows
    <3>3. OneRequest(i)' /\ ChangeRemembered(i)'
      BY <2>3 DEF OneRequest, ChangeRemembered
    <3>4. MarkedIsRead(i)'
      BY <2>1, <3>1 DEF ItemRight, MarkedIsRead, Sure
    <3>5. PageIsRight(i)'
      BY <2>1, <2>3, <2>4, <3>2 DEF PageIsRight, Sure, list
    <3>6. FlightIsRight(i)'
      <4>1. load[generation] # NoLoad =>
              /\ override'[i].revision > load[generation].revision
              /\ override'[i].revision >= dayOverride'
        BY <1>0, <1>i, <1>p, <2>1, RememberedWins
      <4>2. load[generation] # NoLoad =>
              /\ Overlay(i, isRead[i], load[generation].revision)' = shows
              /\ Overlay(i, load[generation].read[i], load[generation].revision)' = shows
        BY <2>1, <2>4, <4>1 DEF Overlay
      <4> QED
        BY <2>1, <3>2, <4>2 DEF FlightIsRight, Sure, NoLoad
    <3> QED
      BY <3>3, <3>4, <3>5, <3>6 DEF ItemRight
  <2>8. \A j \in Items \ contended' : ItemRight(j)'
    BY <2>6, <2>7
  <2> QED
    BY <2>5, <2>8 DEF ReadInv
<1>10. CASE StartFinish
  <2>1. /\ finish = "none" /\ finish' = "sent"
        /\ contended' = contended \cup {i \in Items : change[i] # NoChange}
        /\ UNCHANGED <<inDay, isRead, strayed, generation, list, showsRead, overrides, load, change, bulk>>
    BY <1>10 DEF StartFinish, itemRows, strays
  <2>2. ASSUME NEW j \in Items \ contended'
        PROVE  ItemRight(j)'
    <3>1. ItemRight(j) /\ change[j] = NoChange
      BY <1>i, <2>1
    <3>2. OneRequest(j)' /\ (Settled(j)' <=> Settled(j))
      BY <2>1, <3>1 DEF OneRequest, Settled
    <3> QED
      BY <2>1, <3>1, <3>2, ItemKept DEF list, overrides, Sure
  <2> QED
    BY <1>r, <2>1, <2>2 DEF ReadInv
<1>11. CASE SaveFinish
  <2>1. /\ finish = "sent" /\ contended' = contended
        /\ UNCHANGED <<inDay, generation, list, showsRead, overrides, load, change, bulk>>
    BY <1>11 DEF SaveFinish
  <2>2. ASSUME NEW j \in Items \ contended'
        PROVE  ItemRight(j) /\ change[j] = NoChange
    <3>1. ItemRight(j)
      BY <1>i, <2>1
    <3> QED
      BY <2>1, <3>1 DEF ItemRight, OneRequest
  <2>3. CASE finish' = "done" /\ Saves(inDay, TRUE)
    <3>1. ASSUME NEW j \in Items \ contended'
          PROVE  ItemRight(j)'
      <4>1. j \in inDay => isRead'[j]
        BY <2>3 DEF Saves, SetRead
      <4>2. OneRequest(j)' /\ ChangeRemembered(j)' /\ ~Settled(j)'
        BY <2>1, <2>2, <2>3 DEF OneRequest, ChangeRemembered, Settled
      <4>3. MarkedIsRead(j)'
        BY <2>1, <4>1 DEF MarkedIsRead, Sure
      <4>4. PageIsRight(j)' /\ FlightIsRight(j)'
        BY <2>1, <2>2, <4>2 DEF PageIsRight, FlightIsRight
      <4> QED
        BY <4>2, <4>3, <4>4 DEF ItemRight
    <3> QED
      BY <1>r, <2>1, <3>1 DEF ReadInv
  <2>4. CASE finish' = "refused" /\ GivesUp(Items, TRUE)
    <3>1. ASSUME NEW j \in Items \ contended'
          PROVE  ItemRight(j)'
      <4>1. OneRequest(j)' /\ (Settled(j)' <=> Settled(j))
        BY <2>1, <2>2, <2>4 DEF OneRequest, Settled
      <4> QED
        BY <2>1, <2>2, <2>4, <4>1, ItemKept DEF GivesUp, Sure, list, overrides
    <3> QED
      BY <1>r, <2>1, <3>1 DEF ReadInv
  <2> QED
    BY <1>11, <2>3, <2>4 DEF SaveFinish
<1>12. CASE EndFinish
  <2>1. /\ finish \in {"done", "refused"} /\ finish' = "none" /\ contended' = contended
        /\ UNCHANGED <<inDay, isRead, strayed, generation, list, override, load, change, bulk>>
    BY <1>12 DEF EndFinish, itemRows, strays
  <2>2. ASSUME NEW j \in Items \ contended'
        PROVE  ItemRight(j) /\ change[j] = NoChange
    <3>1. ItemRight(j)
      BY <1>i, <2>1
    <3> QED
      BY <2>1, <3>1 DEF ItemRight, OneRequest
  <2>3. CASE finish = "refused"
    <3>1. UNCHANGED <<showsRead, revision, dayOverride>>
      BY <1>12, <2>3 DEF EndFinish
    <3>2. ASSUME NEW j \in Items \ contended'
          PROVE  ItemRight(j)'
      <4>1. OneRequest(j)' /\ (Settled(j)' <=> Settled(j))
        BY <2>1, <2>2, <2>3 DEF OneRequest, Settled
      <4> QED
        BY <2>1, <2>2, <3>1, <4>1, ItemKept DEF list, Sure
    <3> QED
      BY <1>r, <2>1, <3>1, <3>2 DEF ReadInv, overrides
  <2>4. CASE finish = "done"
    <3>1. Show(Items, TRUE) /\ revision' = revision + 1 /\ dayOverride' = revision + 1
      BY <1>12, <2>4 DEF EndFinish
    <3>2. revision \in Nat /\ \A j \in Items : override[j].revision \in Nat
      BY <1>p DEF OverrideTypes
    <3>3. \A g \in 0..MaxReloads : load[g] # NoLoad =>
             load[g].revision \in Nat /\ load[g].revision <= revision
      BY <1>i, <1>p, LoadFields DEF RevisionsInOrder
    <3>4. RevisionsInOrder'
      <4>1. \A j \in Items : override'[j].revision <= revision'
        BY <1>i, <2>1, <3>1, <3>2 DEF RevisionsInOrder
      <4>2. \A g \in 0..MaxReloads : load'[g] # NoLoad => load'[g].revision <= revision'
        BY <2>1, <3>1, <3>2, <3>3
      <4> QED
        <5>1. dayOverride' <= revision'
          BY <3>1, <3>2
        <5> QED
          BY <4>1, <4>2, <5>1 DEF RevisionsInOrder
    <3>5. ASSUME NEW j \in Items \ contended'
          PROVE  ItemRight(j)'
      <4>1. Sure(j) => isRead[j] = TRUE
        BY <1>p, <2>2, <2>4 DEF ItemRight, MarkedIsRead, RowTypes
      <4>2. OneRequest(j)' /\ ChangeRemembered(j)'
        BY <2>1, <2>2 DEF OneRequest, ChangeRemembered
      <4>3. MarkedIsRead(j)'
        BY <2>1, <2>2 DEF ItemRight, MarkedIsRead, Sure
      <4>4. PageIsRight(j)'
        <5>1. j \in loaded => showsRead'[j] = TRUE
          BY <3>1 DEF Show
        <5> QED
          BY <2>1, <2>2, <4>1, <5>1 DEF PageIsRight, Sure, list
      <4>5. FlightIsRight(j)'
        <5>1. ~(override'[j].revision >= dayOverride')
          <6>1. override'[j].revision = override[j].revision /\ j \in Items
            BY <2>1
          <6>2. override[j].revision <= revision
            BY <1>i, <6>1 DEF RevisionsInOrder
          <6>3. dayOverride' = revision + 1 /\ revision \in Nat /\ override[j].revision \in Nat
            BY <3>1, <3>2
          <6> QED
            BY <6>1, <6>2, <6>3
        <5>2. load[generation] # NoLoad => dayOverride' > load[generation].revision
          BY <1>0, <3>1, <3>2, <3>3
        <5>3. load[generation] # NoLoad /\ Sure(j) =>
                /\ Overlay(j, isRead[j], load[generation].revision)' = isRead[j]
                /\ Overlay(j, load[generation].read[j], load[generation].revision)'
                     = isRead[j]
          BY <2>1, <4>1, <5>1, <5>2 DEF Overlay
        <5> QED
          BY <2>1, <5>3 DEF FlightIsRight, Sure, NoLoad
      <4> QED
        BY <4>2, <4>3, <4>4, <4>5 DEF ItemRight
    <3> QED
      BY <3>4, <3>5 DEF ReadInv
  <2> QED
    BY <2>1, <2>3, <2>4
<1>13. CASE StartBulk
  <2>1. PICK unread : bulk' = [at |-> "sent", items |-> unread]
                      /\ contended' = contended \cup {i \in unread : change[i] # NoChange}
    BY <1>13 DEF StartBulk
  <2>2. bulk = NoBulk /\ UNCHANGED <<inDay, isRead, strayed, generation, list, showsRead, overrides,
                                     load, change, finish>>
    BY <1>13 DEF StartBulk, itemRows, strays
  <2>3. ASSUME NEW j \in Items \ contended'
        PROVE  ItemRight(j)'
    <3>1. ItemRight(j) /\ (change[j] # NoChange => j \notin unread)
      BY <1>i, <2>1
    <3>2. OneRequest(j)' /\ (Settled(j)' <=> Settled(j))
      BY <2>1, <2>2, <3>1 DEF ItemRight, OneRequest, Settled, NoBulk
    <3> QED
      BY <2>1, <2>2, <3>1, <3>2, ItemKept DEF list, overrides, Sure
  <2> QED
    BY <1>r, <2>2, <2>3 DEF ReadInv
<1>14. CASE SaveBulk
  <2>1. /\ bulk.at = "sent" /\ contended' = contended
        /\ UNCHANGED <<inDay, generation, list, showsRead, overrides, load, change, finish>>
    BY <1>14 DEF SaveBulk
  <2>2. bulk # NoBulk /\ bulk \in [at : {"sent", "done", "refused"}, items : SUBSET Items]
    BY <1>p, <2>1 DEF MarkTypes, NoBulk
  <2>3. ASSUME NEW j \in Items \ contended'
        PROVE  ItemRight(j) /\ (j \in bulk.items => change[j] = NoChange)
    <3>1. ItemRight(j)
      BY <1>i, <2>1
    <3> QED
      BY <2>2, <3>1 DEF ItemRight, OneRequest
  <2>4. CASE bulk' = [bulk EXCEPT !.at = "done"] /\ Saves(bulk.items \cap inDay, TRUE)
    <3>1. bulk'.at = "done" /\ bulk'.items = bulk.items /\ bulk' # NoBulk
      BY <2>2, <2>4 DEF NoBulk
    <3>2. ASSUME NEW j \in Items \ contended'
          PROVE  ItemRight(j)'
      <4>1. isRead'[j] = IF j \in bulk.items \cap inDay THEN TRUE ELSE isRead[j]
        BY <2>4 DEF Saves, SetRead
      <4>2. OneRequest(j)'
        BY <2>1, <2>2, <2>3, <3>1 DEF ItemRight, OneRequest
      <4>3. CASE j \in bulk.items
        <5>1. ChangeRemembered(j)' /\ ~Settled(j)'
          BY <2>1, <2>3, <3>1, <4>3 DEF ChangeRemembered, Settled
        <5>2. MarkedIsRead(j)'
          BY <2>1, <4>1, <4>3 DEF MarkedIsRead, Sure
        <5>3. PageIsRight(j)' /\ FlightIsRight(j)'
          BY <2>1, <2>3, <4>3, <5>1 DEF PageIsRight, FlightIsRight
        <5> QED
          BY <4>2, <5>1, <5>2, <5>3 DEF ItemRight
      <4>4. CASE j \notin bulk.items
        <5>1. Settled(j)' <=> Settled(j)
          BY <2>1, <3>1, <4>4 DEF Settled
        <5>2. isRead'[j] = isRead[j]
          BY <4>1, <4>4
        <5>3. Sure(j)' <=> Sure(j)
          BY <2>1, <2>4, <4>4 DEF Saves, Sure
        <5> QED
          BY <2>1, <2>3, <3>1, <4>2, <4>4, <5>1, <5>2, <5>3, ItemKept DEF list, overrides
      <4> QED
        BY <4>3, <4>4
    <3> QED
      BY <1>r, <2>1, <3>2 DEF ReadInv
  <2>5. CASE bulk' = [bulk EXCEPT !.at = "refused"] /\ GivesUp(bulk.items, TRUE)
    <3>1. bulk'.at = "refused" /\ bulk'.items = bulk.items /\ bulk' # NoBulk
      BY <2>2, <2>5 DEF NoBulk
    <3>2. ASSUME NEW j \in Items \ contended'
          PROVE  ItemRight(j)'
      <4>1. OneRequest(j)' /\ (Settled(j)' <=> Settled(j))
        BY <2>1, <2>2, <2>3, <3>1 DEF ItemRight, OneRequest, Settled
      <4> QED
        BY <2>1, <2>3, <2>5, <3>1, <4>1, ItemKept DEF GivesUp, Sure, list, overrides
    <3> QED
      BY <1>r, <2>1, <3>2 DEF ReadInv
  <2> QED
    BY <1>14, <2>4, <2>5 DEF SaveBulk
<1>15. CASE EndBulk
  <2>1. /\ bulk.at \in {"done", "refused"} /\ bulk' = NoBulk /\ contended' = contended
        /\ UNCHANGED <<inDay, isRead, strayed, generation, list, dayOverride, load, change, finish>>
    BY <1>15 DEF EndBulk, itemRows, strays
  <2>2. bulk # NoBulk /\ bulk.items \in SUBSET Items
    BY <1>p, <2>1, BulkFields
  <2>3. ASSUME NEW j \in Items \ contended'
        PROVE  ItemRight(j) /\ OneRequest(j)'
    <3>1. ItemRight(j)
      BY <1>i, <2>1
    <3> QED
      BY <2>1, <3>1 DEF ItemRight, OneRequest
  <2>4. CASE bulk.at = "refused"
    <3>1. UNCHANGED <<showsRead, revision, override>>
      BY <1>15, <2>4 DEF EndBulk
    <3>2. ASSUME NEW j \in Items \ contended'
          PROVE  ItemRight(j)'
      <4>1. Settled(j)' <=> Settled(j)
        BY <2>1, <2>4 DEF Settled, NoBulk
      <4> QED
        BY <2>1, <2>3, <3>1, <4>1, ItemKept DEF list, NoBulk, Sure
    <3> QED
      BY <1>r, <2>1, <3>1, <3>2 DEF ReadInv, overrides
  <2>5. CASE bulk.at = "done"
    <3>1. Show(bulk.items, TRUE) /\ Remember(bulk.items, TRUE)
      BY <1>15, <2>5 DEF EndBulk
    <3>2. RevisionsInOrder'
      BY <1>i, <1>p, <2>1, <3>1, RevisionsRemembered
    <3>3. ASSUME NEW j \in Items \ contended', j \notin bulk.items
          PROVE  ItemRight(j)'
      <4>1. Settled(j)' <=> Settled(j)
        BY <2>1, <3>3 DEF Settled, NoBulk
      <4>2. showsRead'[j] = showsRead[j] /\ override'[j] = override[j]
        BY <3>1, <3>3 DEF Show, Remember
      <4> QED
        BY <2>1, <2>3, <4>1, <4>2, ItemKept DEF list, NoBulk, Sure
    <3>4. ASSUME NEW j \in Items \ contended', j \in bulk.items
          PROVE  ItemRight(j)'
      <4>1. change[j] = NoChange
        BY <2>2, <2>3, <3>4 DEF ItemRight, OneRequest
      <4>2. Sure(j) => isRead[j] = TRUE
        BY <1>p, <2>3, <2>5, <3>4 DEF ItemRight, MarkedIsRead, RowTypes
      <4>3. OneRequest(j)' /\ ChangeRemembered(j)'
        BY <2>1, <4>1 DEF OneRequest, ChangeRemembered
      <4>4. MarkedIsRead(j)'
        BY <2>1, <2>3 DEF ItemRight, MarkedIsRead, Sure, NoBulk
      <4>5. PageIsRight(j)'
        <5>1. j \in loaded => showsRead'[j] = TRUE
          BY <3>1, <3>4 DEF Show
        <5> QED
          BY <2>1, <4>1, <4>2, <5>1 DEF PageIsRight, Sure, list
      <4>6. FlightIsRight(j)'
        <5>1. load[generation] # NoLoad =>
                /\ override'[j].revision > load[generation].revision
                /\ override'[j].revision >= dayOverride'
          BY <1>0, <1>i, <1>p, <2>1, <3>1, <3>4, RememberedWins
        <5>3. override'[j].value = TRUE
          BY <3>1, <3>4 DEF Remember
        <5>2. load[generation] # NoLoad /\ Sure(j) =>
                /\ Overlay(j, isRead[j], load[generation].revision)' = isRead[j]
                /\ Overlay(j, load[generation].read[j], load[generation].revision)'
                     = isRead[j]
          BY <2>1, <4>2, <5>1, <5>3 DEF Overlay
        <5> QED
          BY <2>1, <5>2 DEF FlightIsRight, Sure, NoLoad
      <4> QED
        BY <4>3, <4>4, <4>5, <4>6 DEF ItemRight
    <3> QED
      BY <3>2, <3>3, <3>4 DEF ReadInv
  <2> QED
    BY <2>1, <2>4, <2>5
<1>16. ASSUME NEW i \in Items, NEW s \in Scores, Evaluate(i, s)
       PROVE  ReadInv'
  <2>1. contended' = contended
        /\ UNCHANGED <<inDay, isRead, strayed, generation, list, showsRead, overrides, load, marks>>
    BY <1>16 DEF Evaluate, strays
  <2>2. \A j \in Items \ contended' : ItemRight(j)'
    BY <1>i, <2>1, AllKept DEF list
  <2> QED
    BY <1>r, <2>1, <2>2 DEF ReadInv
<1>17. ASSUME NEW i \in Items, Replace(i)
       PROVE  ReadInv'
  <2>1. contended' = contended \cup {i}
        /\ UNCHANGED <<generation, list, showsRead, overrides, load, marks, strayed>>
    BY <1>17 DEF Replace, strays
  <2>2. \A j \in Items \ {i} : (j \in inDay' <=> j \in inDay) /\ isRead'[j] = isRead[j]
    BY <1>17, <1>p DEF Replace, RowTypes
  <2>3. ASSUME NEW j \in Items \ contended'
        PROVE  ItemRight(j)'
    <3>1. ItemRight(j) /\ j # i
      BY <1>i, <2>1
    <3>2. OneRequest(j)' /\ (Settled(j)' <=> Settled(j))
      BY <2>1, <3>1 DEF ItemRight, OneRequest, Settled, marks
    <3> QED
      BY <2>1, <2>2, <3>1, <3>2, ItemKept DEF list, overrides, marks, Sure
  <2> QED
    BY <1>r, <2>1, <2>3 DEF ReadInv
<1>18. CASE UNCHANGED pageVars
  <2>1. contended' = contended
        /\ UNCHANGED <<inDay, isRead, strayed, generation, list, showsRead, overrides, load, marks>>
    BY <1>18 DEF pageVars, itemRows, strays
  <2>2. \A j \in Items \ contended' : ItemRight(j)'
    BY <1>i, <2>1, AllKept DEF list
  <2> QED
    BY <1>r, <2>1, <2>2 DEF ReadInv
<1>19. ASSUME NEW r \in late, LateSave(r)
       PROVE  ReadInv'
  <2> DEFINE items == r.items \cap inDay
  <2>1. contended' = contended /\ strayed' = strayed \cup items
        /\ UNCHANGED <<inDay, generation, list, showsRead, overrides, load, marks>>
    BY <1>19 DEF LateSave
  <2>2. \A j \in Items \ items : isRead'[j] = isRead[j]
    BY <1>19 DEF LateSave, SetRead
  <2> HIDE DEF items
  <2>3. ASSUME NEW j \in Items \ contended'
        PROVE  ItemRight(j)'
    <3>1. ItemRight(j)
      BY <1>i, <2>1
    <3>2. OneRequest(j)' /\ (Settled(j)' <=> Settled(j))
      BY <2>1, <3>1 DEF ItemRight, OneRequest, Settled, marks
    <3>3. CASE j \in items
      <4>1. ~Sure(j)'
        BY <2>1, <3>3 DEF Sure
      <4>2. ChangeRemembered(j)' /\ MarkedIsRead(j)' /\ PageIsRight(j)' /\ FlightIsRight(j)'
        BY <2>1, <3>1, <4>1 DEF ItemRight, ChangeRemembered, MarkedIsRead, PageIsRight,
           FlightIsRight, list, overrides, marks
      <4> QED
        BY <3>2, <4>2 DEF ItemRight
    <3>4. CASE j \notin items
      <4>1. Sure(j)' <=> Sure(j)
        BY <2>1, <3>4 DEF Sure
      <4> QED
        BY <2>1, <2>2, <3>1, <3>2, <3>4, <4>1, ItemKept DEF list, overrides, marks
    <3> QED
      BY <3>3, <3>4
  <2> QED
    BY <1>r, <2>1, <2>3 DEF ReadInv
<1> QED
  BY <1>1, <1>2, <1>3, <1>4, <1>5, <1>6, <1>7, <1>8, <1>9, <1>10, <1>11, <1>12, <1>13,
     <1>14, <1>15, <1>16, <1>17, <1>18, <1>19 DEF PageNext

\* The inductive invariant of the read states.
LEMMA ReadInvariant == PageSpec => [](PageInv /\ ReadInv)
<1>1. PageInit => PageInv /\ ReadInv
  BY PageInitial, ReadInitial
<1>2. PageInv /\ ReadInv /\ [PageNext]_pageVars => (PageInv /\ ReadInv)'
  BY TypeStep, ReadStep
<1> QED
  BY <1>1, <1>2, PTL DEF PageSpec

\* Once the requests that concern an entry have ended, the page shows the read
\* state the server has, in whatever order pages and changes were answered, if
\* no two requests changed the entry at once, and no request that the page had
\* given up has changed it since.
THEOREM ReadStateAgrees == PageSpec => []ReadAgrees
<1>1. PageInv /\ ReadInv => ReadAgrees
  <2> SUFFICES ASSUME PageInv, ReadInv, NEW i \in (loaded \cap inDay) \ (contended \cup strayed),
                      change[i] = NoChange, finish = "none",
                      bulk = NoBulk \/ i \notin bulk.items
               PROVE  showsRead[i] = isRead[i]
    BY DEF ReadAgrees
  <2>1. i \in Items
    BY DEF PageInv, PageTypeOK, ListTypes
  <2>2. Settled(i)
    BY DEF Settled, NoBulk
  <2> QED
    BY <2>1, <2>2 DEF ReadInv, ItemRight, PageIsRight, Sure
<1> QED
  BY <1>1, ReadInvariant, PTL

\* While a change is under way the entry shows what the reader asked for, also
\* when a page that was answered before it arrives after it.
THEOREM ChangesAreShown == PageSpec => []ChangeIsShown
<1>1. PageInv /\ ReadInv => ChangeIsShown
  BY DEF PageInv, PageTypeOK, ListTypes, ReadInv, ItemRight, PageIsRight, ChangeIsShown
<1> QED
  BY <1>1, ReadInvariant, PTL

=============================================================================
