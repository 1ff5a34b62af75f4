-------------------------- MODULE FeedRefreshProofs --------------------------
(***************************************************************************)
(* Proofs about FeedRefresh, for any feeds, addresses, hosts and pools, any *)
(* length of a rest and any number of failures and edits: a row tells the  *)
(* history of its present address, hosts are spared, and a check runs out. *)
(***************************************************************************)
EXTENDS FeedRefresh, FiniteSetTheorems, WellFoundedInduction, TLAPS

USE RefreshAssumption

Places == {"none", "queued", "creating", "waiting", "asked", "ended"}
Addresses == Sources \cup {NoSource}
Documents == [source : Addresses, version : Nat]
Flights == [source : Addresses, failures : Nat, sent : Documents]

RowType ==
    /\ url \in [Feeds -> Addresses]
    /\ validator \in [Feeds -> Documents] /\ taken \in [Feeds -> Documents]
    /\ failures \in [Feeds -> Nat] /\ failed \in [Feeds -> Nat]
    /\ retry \in [Feeds -> Nat]
    /\ overtaken \subseteq Feeds /\ tainted \subseteq Feeds

HostType ==
    /\ backoff \in [Hosts -> Nat] /\ promised \in [Hosts -> Nat]
    /\ crossed \subseteq Hosts /\ split \subseteq Hosts
    /\ version \in [Sources -> Nat]
    /\ edits \in Nat

CheckType ==
    /\ checking \in BOOLEAN /\ forced \in BOOLEAN /\ stopped \in BOOLEAN
    /\ listed \in [Feeds -> Addresses]
    /\ pos \in [Feeds -> Places]
    /\ table \in [Hosts -> SUBSET Feeds] /\ semaphore \in [Feeds -> SUBSET Feeds]
    /\ flight \in [Feeds -> Flights]

\* A thread works on an address of the list, and asks a source.
WorksOnSource ==
    \A f \in Feeds :
        /\ pos[f] \in {"queued", "creating", "waiting", "asked"} => listed[f] \in Sources
        /\ pos[f] = "asked" => flight[f].source \in Sources

TypeInv == RowType /\ HostType /\ CheckType /\ WorksOnSource

\* A request that nobody overtook was made from the row as it still is.
FlightIsCurrent ==
    \A f \in Feeds \ overtaken : pos[f] = "asked" =>
        flight[f].source = url[f] /\ flight[f].failures = failures[f]

\* A deleted feed has no row to be wrong.
TaintIsOnRows == \A f \in tainted : url[f] # NoSource

HistoryInv == FlightIsCurrent /\ TaintIsOnRows /\ RowTellsHistory

\* Unless its requests crossed, a host rests at least as long as it wanted,
\* and a request in flight began when it wanted nothing.
RestIsKept ==
    \A h \in Hosts \ crossed :
        /\ promised[h] <= backoff[h]
        /\ AtHost(h) # {} => promised[h] = 0

\* The threads that wait for a host of the list, or ask for it.
Queued(h) == {f \in Feeds : pos[f] \in {"waiting", "asked"} /\ HostOf[listed[f]] = h}
HeldAt(h) == {f \in Asked : HostOf[listed[f]] = h}

\* A host that was not split has one semaphore, and no more requests than
\* that semaphore allows.
OneSemaphore ==
    \A h \in Hosts \ split : \A f \in Queued(h) : semaphore[f] = table[h] /\ table[h] # {}
CapIsKept == \A h \in Hosts \ split : Cardinality(HeldAt(h)) <= PerHost

-----------------------------------------------------------------------------
(***************************************************************************)
(* Types.                                                                  *)
(***************************************************************************)
\* The delay after a failure is a number of ticks.
LEMMA DelayType ==
    ASSUME NEW n \in Nat
    PROVE  RetryDelay(n) \in Nat
<1>1. CASE n <= MaxDelay /\ 2 ^ (n - 1) \in 1..MaxDelay
  BY <1>1 DEF RetryDelay
<1>2. CASE ~(n <= MaxDelay /\ 2 ^ (n - 1) \in 1..MaxDelay)
  BY <1>2 DEF RetryDelay
<1> QED
  BY <1>1, <1>2

\* A check starts with no row, host or history in a wrong state.
LEMMA InitType == FeedInit => TypeInv
<1> SUFFICES ASSUME FeedInit PROVE TypeInv
  OBVIOUS
<1>1. RowType
  BY DEF FeedInit, RowType, Addresses, Documents, NoDocument
<1>2. HostType
  BY DEF FeedInit, HostType
<1>3. CheckType
  BY DEF FeedInit, CheckType, Addresses, Documents, Flights, NoDocument, NoFlight, Places
<1>4. WorksOnSource
  BY DEF FeedInit, WorksOnSource
<1> QED
  BY <1>1, <1>2, <1>3, <1>4 DEF TypeInv

\* The steps before the request keep the types.
LEMMA PoolType ==
    ASSUME TypeInv, NEW f \in Feeds,
           TakeThread(f) \/ CreateSemaphore(f) \/ SkipFeed(f) \/ SkipResting(f) \/ AskSource(f)
    PROVE  TypeInv'
<1> USE DEF TypeInv
<1>1. RowType'
  BY DEF RowType, TakeThread, CreateSemaphore, SkipFeed, SkipResting, AskSource, rowVars, historyVars
<1>2. HostType'
  <2>1. CASE CreateSemaphore(f)
    BY <2>1 DEF HostType, CheckType, WorksOnSource, CreateSemaphore, rowVars
  <2>2. CASE ~CreateSemaphore(f)
    BY <2>2 DEF HostType, TakeThread, SkipFeed, SkipResting, AskSource, historyVars
  <2> QED BY <2>1, <2>2
<1>3. CheckType' /\ WorksOnSource'
  <2>1. CASE TakeThread(f)
    BY <2>1 DEF CheckType, WorksOnSource, TakeThread, Goes, poolVars, Places
  <2>2. CASE CreateSemaphore(f)
    BY <2>2 DEF CheckType, WorksOnSource, CreateSemaphore, Goes, Places
  <2>3. CASE SkipFeed(f) \/ SkipResting(f)
    BY <2>3 DEF CheckType, WorksOnSource, SkipFeed, SkipResting, Ends, Goes, Places, Addresses
  <2>4. CASE AskSource(f)
    <3>1. FlightOf(f) \in Flights /\ FlightOf(f).source = url[f]
      BY DEF RowType, FlightOf, Flights, Documents, NoDocument, Addresses
    <3>2. flight' = [flight EXCEPT ![f] = FlightOf(f)] /\ pos' = [pos EXCEPT ![f] = "asked"]
      BY <2>4 DEF AskSource, Goes
    <3>3. listed[f] \in Sources /\ url[f] \in Sources
      BY <2>4 DEF AskSource, Permit, WorksOnSource, RowType, Addresses
    <3> QED
      BY <2>4, <3>1, <3>2, <3>3 DEF CheckType, WorksOnSource, AskSource, poolVars, Places
  <2> QED
    BY <2>1, <2>2, <2>3, <2>4
<1> QED
  BY <1>1, <1>2, <1>3

\* So does every way in which a request ends.
LEMMA ReplyType ==
    ASSUME TypeInv, NEW f \in Feeds, Replies(f)
    PROVE  TypeInv'
<1> USE DEF TypeInv
<1>1. Lands(f) /\ flight[f].source \in Sources /\ flight[f] \in Flights
  BY DEF Replies, NotModified, Document, Failure, Lands, CheckType, WorksOnSource
<1>2. CheckType' /\ WorksOnSource'
  BY <1>1 DEF CheckType, WorksOnSource, Lands, Ends, Goes, Places, Addresses, Flights, Documents,
              NoFlight, NoDocument
<1>3. CASE NotModified(f)
  BY <1>1, <1>2, <1>3 DEF RowType, HostType, NotModified, Recovers, Lands
<1>4. ASSUME NEW validated \in BOOLEAN, Document(f, validated)
      PROVE  RowType' /\ HostType'
  <2>1. [source |-> flight[f].source, version |-> version[flight[f].source]] \in Documents
    BY <1>1 DEF HostType, Documents, Addresses
  <2>2. NoDocument \in Documents
    BY DEF NoDocument, Documents, Addresses
  <2> QED
    BY <1>1, <1>4, <2>1, <2>2 DEF RowType, HostType, Document, Recovers, Lands
<1>5. ASSUME NEW rest \in Rests \cup {0}, Failure(f, rest)
      PROVE  RowType' /\ HostType'
  <2> DEFINE count == flight[f].failures + 1
             delay == IF rest > RetryDelay(count) THEN rest ELSE RetryDelay(count)
  <2>1. rest \in Nat /\ count \in Nat /\ delay \in Nat
    <3>1. count \in Nat
      BY <1>1 DEF Flights
    <3>2. RetryDelay(count) \in Nat
      BY <3>1, DelayType
    <3>3. rest \in Nat
      OBVIOUS
    <3> QED
      BY <3>1, <3>2, <3>3
  <2>2. HostOf[flight[f].source] \in Hosts
    BY <1>1
  <2>3. failures' = [failures EXCEPT ![f] = IF Writes(f) THEN count ELSE @]
        /\ retry' = [retry EXCEPT ![f] = IF Writes(f) THEN delay ELSE @]
        /\ backoff' = [backoff EXCEPT ![HostOf[flight[f].source]] = IF rest > 0 THEN delay ELSE @]
    BY <1>5 DEF Failure
  <2>4. /\ promised' = [promised EXCEPT ![HostOf[flight[f].source]] = IF rest > @ THEN rest ELSE @]
        /\ crossed' \subseteq crossed \cup {HostOf[flight[f].source]}
        /\ failed' = [failed EXCEPT ![f] = IF Ours(f) THEN @ + 1 ELSE @]
        /\ tainted' \subseteq tainted \cup {f}
        /\ UNCHANGED <<validator, taken>>
    BY <1>5 DEF Failure
  <2> HIDE DEF count, delay
  <2>5. RowType'
    <3>1. failures' \in [Feeds -> Nat]
      BY <2>1, <2>3 DEF RowType
    <3>2. retry' \in [Feeds -> Nat]
      BY <2>1, <2>3 DEF RowType
    <3>3. failed' \in [Feeds -> Nat]
      BY <2>4 DEF RowType
    <3> QED
      BY <1>1, <2>4, <3>1, <3>2, <3>3 DEF RowType, Lands
  <2>6. HostType'
    BY <1>1, <2>1, <2>2, <2>3, <2>4 DEF HostType, Lands
  <2> QED
    BY <2>5, <2>6
<1> QED
  BY <1>2, <1>3, <1>4, <1>5 DEF Replies

\* And so do the check as a whole, edits, servers and time.
LEMMA OutsideType ==
    ASSUME TypeInv,
           \/ \E S \in SUBSET Feeds, force \in BOOLEAN : StartCheck(S, force)
           \/ \E f \in Feeds, s \in Sources \cup {NoSource} : EditFeed(f, s)
           \/ EndCheck \/ KillProcess \/ RequestStop
           \/ \E s \in Sources : Publish(s)
           \/ Passes
    PROVE  TypeInv'
<1> USE DEF TypeInv
<1>1. ASSUME NEW S \in SUBSET Feeds, NEW force \in BOOLEAN, StartCheck(S, force)
      PROVE  TypeInv'
  BY <1>1 DEF StartCheck, Subscribed, RowType, HostType, CheckType, WorksOnSource, rowVars, Places, Addresses
<1>2. ASSUME NEW f \in Feeds, NEW s \in Sources \cup {NoSource}, EditFeed(f, s)
      PROVE  TypeInv'
  <2>1. NoDocument \in Documents
    BY DEF NoDocument, Documents, Addresses
  <2>2. RowType'
    BY <1>2, <2>1 DEF EditFeed, ForgetSource, RowType, Addresses
  <2>3. HostType' /\ CheckType' /\ WorksOnSource'
    BY <1>2 DEF EditFeed, HostType, CheckType, WorksOnSource, poolVars, threadVars
  <2> QED
    BY <2>2, <2>3
<1>3. CASE CheckEnds
  <2>1. NoFlight \in Flights
    BY DEF NoFlight, NoDocument, Flights, Documents, Addresses
  <2> QED
    BY <1>3, <2>1 DEF CheckEnds, RowType, HostType, CheckType, WorksOnSource, rowVars, Places, Addresses
<1>4. CASE RequestStop
  BY <1>4 DEF RequestStop, RowType, HostType, CheckType, WorksOnSource, rowVars, poolVars,
              threadVars, historyVars
<1>5. ASSUME NEW s \in Sources, Publish(s)
      PROVE  TypeInv'
  BY <1>5 DEF Publish, RowType, HostType, CheckType, WorksOnSource, rowVars, poolVars,
              threadVars, historyVars
<1>6. CASE Passes
  BY <1>6 DEF Passes, Less, RowType, HostType, CheckType, WorksOnSource, poolVars, threadVars
<1> QED
  BY <1>1, <1>2, <1>3, <1>4, <1>5, <1>6 DEF EndCheck, KillProcess

\* Every step keeps the types.
LEMMA NextType ==
    ASSUME TypeInv, [FeedNext]_feedVars
    PROVE  TypeInv'
<1>1. CASE UNCHANGED feedVars
  BY <1>1 DEF feedVars, rowVars, poolVars, threadVars, historyVars, TypeInv, RowType, HostType,
              CheckType, WorksOnSource
<1> QED
  BY <1>1, PoolType, ReplyType, OutsideType DEF FeedNext

\* Every reachable row, host and thread of a check has its type; a thread
\* works on an address of the list, and asks a source (feeds.py 262-298).
THEOREM RetrievalTypeCorrect == FeedSpec => []TypeInv
<1>1. TypeInv /\ [FeedNext]_feedVars => TypeInv'
  BY NextType
<1> QED
  BY InitType, <1>1, PTL DEF FeedSpec

-----------------------------------------------------------------------------
(***************************************************************************)
(* Rows and their history.  A request that no edit overtook carries the    *)
(* address and the failures that the row still has.                        *)
(***************************************************************************)
\* A reply writes the row of its own feed only, and what it writes is the
\* history, unless an edit overtook the request.
LEMMA ReplyHistory ==
    ASSUME TypeInv, HistoryInv, NEW f \in Feeds, Replies(f)
    PROVE  HistoryInv'
<1> USE DEF HistoryInv
<1>1. /\ Lands(f) /\ pos[f] = "asked" /\ flight[f].source \in Sources
      /\ flight[f] \in Flights
  BY DEF Replies, NotModified, Document, Failure, Lands, TypeInv, CheckType, WorksOnSource
<1>2. /\ url' = url /\ overtaken' = overtaken \ {f} /\ pos'[f] = "ended"
      /\ \A g \in Feeds \ {f} : pos'[g] = pos[g] /\ flight'[g] = flight[g]
  BY <1>1 DEF Lands, Ends, Goes, TypeInv, CheckType
<1>3. \A g \in Feeds \ {f} :
        /\ validator'[g] = validator[g] /\ failures'[g] = failures[g]
        /\ taken'[g] = taken[g] /\ failed'[g] = failed[g]
        /\ g \in tainted' <=> g \in tainted
  BY DEF Replies, NotModified, Document, Failure, Recovers, TypeInv, RowType
<1>4. FlightIsCurrent'
  BY <1>2, <1>3 DEF FlightIsCurrent
<1>5. f \notin overtaken => Ours(f) /\ Writes(f) /\ flight[f].failures = failures[f]
  BY <1>1 DEF FlightIsCurrent, Ours, Writes
<1>6. ~Writes(f) => ~Ours(f)
  BY <1>1 DEF Ours, Writes
<1> DEFINE Told == f \notin tainted' =>
                     validator'[f] \in {taken'[f], NoDocument} /\ failures'[f] = failed'[f]
<1>7. ASSUME NotModified(f)
      PROVE  Told
  <2>1. /\ failures'[f] = IF Writes(f) THEN 0 ELSE failures[f]
        /\ failed'[f] = IF Ours(f) THEN 0 ELSE failed[f]
        /\ tainted' = IF f \in overtaken /\ Writes(f) THEN tainted \cup {f} ELSE tainted
        /\ UNCHANGED <<validator, taken>>
    BY <1>7 DEF NotModified, Recovers, TypeInv, RowType
  <2> QED
    BY <1>5, <1>6, <2>1 DEF RowTellsHistory
<1>8. ASSUME NEW validated \in BOOLEAN, Document(f, validated)
      PROVE  Told
  <2> DEFINE document == [source |-> flight[f].source, version |-> version[flight[f].source]]
  <2>1. /\ failures'[f] = IF Writes(f) THEN 0 ELSE failures[f]
        /\ failed'[f] = IF Ours(f) THEN 0 ELSE failed[f]
    BY <1>8 DEF Document, Recovers, TypeInv, RowType
  <2>2. /\ validator'[f] = IF ~Writes(f) THEN validator[f]
                           ELSE IF validated THEN document ELSE NoDocument
        /\ taken'[f] = IF Ours(f) THEN document ELSE taken[f]
        /\ tainted' = IF f \in overtaken /\ Writes(f) THEN tainted \cup {f} ELSE tainted \ {f}
    BY <1>8 DEF Document, TypeInv, RowType
  <2> HIDE DEF document
  <2>3. CASE f \in overtaken
    BY <1>6, <2>1, <2>2, <2>3 DEF RowTellsHistory, TaintIsOnRows, Writes
  <2>4. CASE f \notin overtaken
    BY <1>5, <2>1, <2>2, <2>4
  <2> QED
    BY <2>3, <2>4
<1>9. ASSUME NEW rest \in Rests \cup {0}, Failure(f, rest)
      PROVE  Told
  <2>1. /\ failures'[f] = IF Writes(f) THEN flight[f].failures + 1 ELSE failures[f]
        /\ failed'[f] = IF Ours(f) THEN failed[f] + 1 ELSE failed[f]
        /\ tainted' = IF f \in overtaken /\ Writes(f) THEN tainted \cup {f} ELSE tainted
        /\ UNCHANGED <<validator, taken>>
    BY <1>9 DEF Failure, TypeInv, RowType
  <2> QED
    BY <1>5, <1>6, <2>1 DEF RowTellsHistory
<1>10. Told
  BY <1>7, <1>8, <1>9 DEF Replies
<1>11. RowTellsHistory'
  BY <1>3, <1>10 DEF RowTellsHistory
<1>12. f \in tainted' => f \in tainted \/ Writes(f)
  BY DEF Replies, NotModified, Document, Failure
<1>13. TaintIsOnRows'
  BY <1>2, <1>3, <1>12 DEF TaintIsOnRows, Writes, TypeInv, RowType, Replies, NotModified, Document, Failure
<1> QED
  BY <1>4, <1>11, <1>13

\* A new address starts a new history.
LEMMA EditHistory ==
    ASSUME TypeInv, HistoryInv, NEW f \in Feeds, NEW s \in Addresses, EditFeed(f, s)
    PROVE  HistoryInv'
<1>1. RowTellsHistory'
  BY DEF EditFeed, ForgetSource, RowTellsHistory, HistoryInv, TypeInv, RowType
<1>2. FlightIsCurrent'
  BY DEF EditFeed, ForgetSource, FlightIsCurrent, HistoryInv, TypeInv, RowType, CheckType, threadVars
<1>3. TaintIsOnRows'
  BY DEF EditFeed, TaintIsOnRows, HistoryInv, TypeInv, RowType
<1> QED
  BY <1>1, <1>2, <1>3 DEF HistoryInv

\* No other step touches a row or its history, and a request begins with
\* the row as it is.
LEMMA NextHistory ==
    ASSUME TypeInv, HistoryInv, [FeedNext]_feedVars
    PROVE  HistoryInv'
<1> USE DEF HistoryInv
<1>1. CASE /\ UNCHANGED <<url, validator, failures, taken, failed, tainted>>
           /\ overtaken \subseteq overtaken' \/ \A f \in Feeds : pos'[f] # "asked"
           /\ \A f \in Feeds : pos'[f] = "asked" =>
                \/ pos[f] = "asked" /\ flight'[f] = flight[f]
                \/ flight'[f].source = url[f] /\ flight'[f].failures = failures[f]
  BY <1>1 DEF FlightIsCurrent, TaintIsOnRows, RowTellsHistory
<1>2. ASSUME NEW S \in SUBSET Feeds, NEW force \in BOOLEAN, StartCheck(S, force)
      PROVE  HistoryInv'
  BY <1>1, <1>2 DEF StartCheck, rowVars
<1>3. ASSUME NEW f \in Feeds,
             TakeThread(f) \/ CreateSemaphore(f) \/ SkipFeed(f) \/ SkipResting(f)
      PROVE  HistoryInv'
  BY <1>1, <1>3 DEF TakeThread, CreateSemaphore, SkipFeed, SkipResting, Ends, Goes, rowVars,
                    historyVars, TypeInv, CheckType
<1>4. ASSUME NEW f \in Feeds, AskSource(f)
      PROVE  HistoryInv'
  BY <1>1, <1>4 DEF AskSource, FlightOf, Goes, rowVars, historyVars, TypeInv, CheckType
<1>5. CASE CheckEnds
  BY <1>1, <1>5 DEF CheckEnds, rowVars
<1>6. CASE RequestStop \/ (\E s \in Sources : Publish(s)) \/ Passes \/ UNCHANGED feedVars
  BY <1>1, <1>6 DEF RequestStop, Publish, Passes, feedVars, rowVars, threadVars, historyVars
<1> QED
  BY <1>2, <1>3, <1>4, <1>5, <1>6, ReplyHistory, EditHistory
  DEF FeedNext, EndCheck, KillProcess, Addresses

\* The validators of a row came with the document whose entries were stored
\* last, and its failures are those of its present address, unless that was
\* edited under its own request (feeds.py 176-196, web.py 2724-2740).
THEOREM RowsTellTheTruth == FeedSpec => []RowTellsHistory
<1>1. FeedInit => HistoryInv
  BY DEF FeedInit, HistoryInv, FlightIsCurrent, TaintIsOnRows, RowTellsHistory
<1>2. TypeInv /\ HistoryInv /\ [FeedNext]_feedVars => HistoryInv'
  BY NextHistory
<1>3. HistoryInv => RowTellsHistory
  BY DEF HistoryInv
<1> QED
  BY <1>1, <1>2, <1>3, RetrievalTypeCorrect, PTL DEF FeedSpec

-----------------------------------------------------------------------------
(***************************************************************************)
(* Cooldowns.                                                              *)
(***************************************************************************)
\* The request that ends at a host that is not crossed was the only one.
LEMMA ReplyRest ==
    ASSUME TypeInv, RestIsKept, NEW f \in Feeds, Replies(f)
    PROVE  RestIsKept'
<1>1. Lands(f) /\ pos[f] = "asked" /\ flight[f].source \in Sources
      /\ flight[f] \in Flights
  BY DEF Replies, NotModified, Document, Failure, Lands, TypeInv, CheckType, WorksOnSource
<1>2. \A h \in Hosts : AtHost(h)' = AtHost(h) \ {f}
  BY <1>1 DEF Lands, Ends, Goes, AtHost, Asked, TypeInv, CheckType
<1>3. CASE NotModified(f) \/ \E validated \in BOOLEAN : Document(f, validated)
  BY <1>2, <1>3 DEF NotModified, Document, RestIsKept
<1>4. ASSUME NEW rest \in Rests \cup {0}, Failure(f, rest)
      PROVE  RestIsKept'
  <2>1. PICK at \in Hosts : at = HostOf[flight[f].source]
    BY <1>1
  <2> DEFINE count == flight[f].failures + 1
             delay == IF rest > RetryDelay(count) THEN rest ELSE RetryDelay(count)
  <2>2. rest \in Nat /\ delay \in Nat /\ rest <= delay
    <3>1. count \in Nat
      BY <1>1 DEF Flights
    <3>2. RetryDelay(count) \in Nat
      BY <3>1, DelayType
    <3>3. rest \in Nat
      OBVIOUS
    <3> QED
      BY <3>2, <3>3
  <2>3. /\ backoff' = [backoff EXCEPT ![at] = IF rest > 0 THEN delay ELSE @]
        /\ promised' = [promised EXCEPT ![at] = IF rest > @ THEN rest ELSE @]
        /\ crossed' = IF rest > 0 /\ AtHost(at) # {f} THEN crossed \cup {at} ELSE crossed
    BY <1>4, <2>1 DEF Failure
  <2>4. f \in AtHost(at)
    BY <1>1, <2>1 DEF AtHost, Asked
  <2> HIDE DEF count, delay
  <2>5. backoff \in [Hosts -> Nat] /\ promised \in [Hosts -> Nat]
    BY DEF TypeInv, HostType
  <2>6. ASSUME NEW h \in Hosts \ {at}, h \notin crossed'
        PROVE  promised'[h] <= backoff'[h] /\ (AtHost(h)' # {} => promised'[h] = 0)
    BY <1>2, <2>3, <2>4, <2>5, <2>6 DEF RestIsKept
  <2>7. ASSUME at \notin crossed', rest = 0
        PROVE  promised'[at] <= backoff'[at] /\ (AtHost(at)' # {} => promised'[at] = 0)
    BY <1>2, <2>3, <2>4, <2>5, <2>7 DEF RestIsKept
  <2>8. ASSUME at \notin crossed', rest > 0
        PROVE  promised'[at] <= backoff'[at] /\ AtHost(at)' = {}
    <3>1. AtHost(at) = {f} /\ at \notin crossed
      BY <2>3, <2>8
    <3>2. promised[at] = 0
      BY <2>4, <3>1 DEF RestIsKept
    <3> QED
      <4>1. AtHost(at)' = {}
        BY <1>2, <2>4, <3>1
      <4>2. backoff'[at] = delay /\ promised'[at] = rest
        BY <2>2, <2>3, <2>4, <2>5, <2>8, <3>2
      <4> QED
        BY <2>2, <4>1, <4>2
  <2>9. ASSUME at \notin crossed'
        PROVE  promised'[at] <= backoff'[at] /\ (AtHost(at)' # {} => promised'[at] = 0)
    <3>1. rest = 0 \/ rest > 0
      BY <2>2
    <3> QED
      BY <2>7, <2>8, <2>9, <3>1
  <2> QED
    BY <2>6, <2>9 DEF RestIsKept
<1> QED
  BY <1>3, <1>4 DEF Replies

\* A request begins only at a host that rests no more; and time ends what
\* a host wanted no later than what it got.
LEMMA NextRest ==
    ASSUME TypeInv, RestIsKept, [FeedNext]_feedVars
    PROVE  RestIsKept'
<1>1. CASE UNCHANGED <<backoff, promised, crossed>> /\ \A h \in Hosts : AtHost(h)' \subseteq AtHost(h)
  BY <1>1 DEF RestIsKept
<1>2. ASSUME NEW S \in SUBSET Feeds, NEW force \in BOOLEAN, StartCheck(S, force)
      PROVE  RestIsKept'
  BY <1>1, <1>2 DEF StartCheck, AtHost, Asked
<1>3. ASSUME NEW f \in Feeds,
             TakeThread(f) \/ CreateSemaphore(f) \/ SkipFeed(f) \/ SkipResting(f)
      PROVE  RestIsKept'
  BY <1>1, <1>3 DEF TakeThread, CreateSemaphore, SkipFeed, SkipResting, Ends, Goes, historyVars,
                    AtHost, Asked, TypeInv, CheckType
<1>4. ASSUME NEW f \in Feeds, AskSource(f)
      PROVE  RestIsKept'
  <2>1. /\ url[f] \in Sources /\ backoff[HostOf[url[f]]] = 0
        /\ UNCHANGED <<backoff, promised, crossed>>
    BY <1>4 DEF AskSource, RestsStill, rowVars, historyVars, TypeInv, RowType, HostType, Addresses
  <2>2. \A h \in Hosts : h # HostOf[url[f]] => AtHost(h)' \subseteq AtHost(h)
    BY <1>4 DEF AskSource, Goes, FlightOf, AtHost, Asked, TypeInv, CheckType
  <2> QED
    BY <2>1, <2>2 DEF RestIsKept, TypeInv, HostType
<1>5. ASSUME NEW f \in Feeds, NEW s \in Addresses, EditFeed(f, s)
      PROVE  RestIsKept'
  BY <1>1, <1>5 DEF EditFeed, threadVars, AtHost, Asked
<1>6. CASE CheckEnds
  BY <1>1, <1>6 DEF CheckEnds, AtHost, Asked
<1>7. CASE RequestStop \/ (\E s \in Sources : Publish(s)) \/ UNCHANGED feedVars
  BY <1>1, <1>7 DEF RequestStop, Publish, feedVars, threadVars, historyVars, AtHost, Asked
<1>8. CASE Passes
  BY <1>8 DEF Passes, Less, threadVars, AtHost, Asked, RestIsKept, TypeInv, HostType
<1> QED
  BY <1>2, <1>3, <1>4, <1>5, <1>6, <1>7, <1>8, ReplyRest
  DEF FeedNext, EndCheck, KillProcess, Addresses

-----------------------------------------------------------------------------
(***************************************************************************)
(* The cap per host.                                                       *)
(***************************************************************************)
CapInv == OneSemaphore /\ CapIsKept

\* A set of feeds is finite, and a part of it is not larger.
LEMMA PartOf ==
    ASSUME NEW B \in SUBSET Feeds, NEW A \in SUBSET B
    PROVE  Cardinality(A) <= Cardinality(B) /\ Cardinality(A) \in Nat /\ Cardinality(B) \in Nat
           /\ IsFiniteSet(B)
<1>1. IsFiniteSet(B)
  BY FS_Subset
<1> QED
  BY <1>1, FS_Subset, FS_CardinalityType

\* A step that only takes threads off the hosts keeps the cap.
LEMMA FewerHeld ==
    ASSUME TypeInv, TypeInv', CapInv, split \subseteq split',
           \A h \in Hosts \ split' : HeldAt(h)' \subseteq HeldAt(h)
    PROVE  CapIsKept'
<1>1. ASSUME NEW h \in Hosts \ split' PROVE Cardinality(HeldAt(h)') <= PerHost
  <2>1. HeldAt(h) \in SUBSET Feeds /\ HeldAt(h)' \in SUBSET HeldAt(h)
    BY DEF HeldAt, Asked
  <2>2. Cardinality(HeldAt(h)') <= Cardinality(HeldAt(h)) /\ Cardinality(HeldAt(h)) <= PerHost
    BY <2>1, PartOf DEF CapInv, CapIsKept
  <2>3. Cardinality(HeldAt(h)') \in Nat /\ Cardinality(HeldAt(h)) \in Nat
    BY <2>1, PartOf
  <2> QED
    BY <2>2, <2>3
<1> QED
  BY <1>1 DEF CapIsKept

\* A check that starts, and one that ends, has no thread at a host.
LEMMA NobodyHeld ==
    ASSUME \A f \in Feeds : pos'[f] \notin {"waiting", "asked"}
    PROVE  CapInv'
<1>1. \A h \in Hosts : Queued(h)' = {} /\ HeldAt(h)' = {}
  BY DEF Queued, HeldAt, Asked
<1>2. Cardinality({}) = 0
  BY FS_EmptySet
<1> QED
  BY <1>1, <1>2 DEF CapInv, OneSemaphore, CapIsKept

\* A thread that finds a semaphore finds the one in the table; one that made
\* it either was first, and nobody queues yet, or has split the host.
LEMMA QueueSteps ==
    ASSUME TypeInv, TypeInv', CapInv, NEW f \in Feeds, TakeThread(f) \/ CreateSemaphore(f)
    PROVE  CapInv'
<1>1. CASE TakeThread(f)
  <2>1. \A h \in Hosts : HeldAt(h)' \subseteq HeldAt(h)
    BY <1>1 DEF TakeThread, Goes, poolVars, HeldAt, Asked, TypeInv, CheckType
  <2>2. OneSemaphore'
    BY <1>1 DEF TakeThread, Goes, poolVars, historyVars, OneSemaphore, Queued, CapInv, TypeInv, CheckType
  <2>3. split' = split
    BY <1>1 DEF TakeThread, historyVars
  <2> QED
    BY <2>1, <2>2, <2>3, FewerHeld DEF CapInv
<1>2. CASE CreateSemaphore(f)
  <2>0. PICK at \in Hosts : at = HostOf[listed[f]]
    BY <1>2 DEF CreateSemaphore, TypeInv, WorksOnSource
  <2>1. /\ table' = [table EXCEPT ![at] = {f}] /\ semaphore' = [semaphore EXCEPT ![f] = {f}]
        /\ split' = IF table[at] = {} THEN split ELSE split \cup {at}
        /\ pos' = [pos EXCEPT ![f] = "waiting"] /\ listed' = listed
    BY <1>2, <2>0 DEF CreateSemaphore, Goes
  <2>2. \A h \in Hosts : HeldAt(h)' \subseteq HeldAt(h)
    BY <2>1 DEF HeldAt, Asked, TypeInv, CheckType
  <2>3. ASSUME NEW h \in Hosts \ split', h # at, NEW g \in Queued(h)'
        PROVE  semaphore'[g] = table'[h] /\ table'[h] # {}
    <3>1. g \in Queued(h) /\ g # f /\ h \notin split
      BY <2>0, <2>1, <2>3 DEF Queued, TypeInv, CheckType
    <3> QED
      BY <2>1, <2>3, <3>1 DEF OneSemaphore, CapInv, Queued, TypeInv, CheckType
  <2>4. ASSUME at \notin split', NEW g \in Queued(at)'
        PROVE  semaphore'[g] = table'[at] /\ table'[at] # {}
    <3>1. table[at] = {} /\ at \notin split
      BY <2>1, <2>4
    <3>2. Queued(at) = {}
      BY <3>1 DEF OneSemaphore, CapInv
    <3>3. g = f
      BY <2>1, <3>2 DEF Queued, TypeInv, CheckType
    <3> QED
      BY <2>1, <3>3 DEF TypeInv, CheckType
  <2>5. OneSemaphore'
    BY <2>3, <2>4 DEF OneSemaphore
  <2>6. split \subseteq split'
    BY <2>1
  <2> QED
    BY <2>2, <2>5, <2>6, FewerHeld DEF CapInv
<1> QED
  BY <1>1, <1>2

\* A request takes a permit of the one semaphore of its host of the list.
LEMMA AskCap ==
    ASSUME TypeInv, CapInv, NEW f \in Feeds, AskSource(f)
    PROVE  CapInv'
<1>1. /\ pos[f] = "waiting" /\ pos' = [pos EXCEPT ![f] = "asked"]
      /\ UNCHANGED <<listed, table, semaphore, split>>
      /\ Cardinality({g \in Asked : semaphore[g] = semaphore[f]}) < PerHost
  BY DEF AskSource, Permit, Goes, poolVars, historyVars
<1>2. \A h \in Hosts : Queued(h)' = Queued(h)
  BY <1>1 DEF Queued, TypeInv, CheckType
<1>3. OneSemaphore'
  BY <1>1, <1>2 DEF OneSemaphore, CapInv
<1>4. ASSUME NEW h \in Hosts \ split', f \in HeldAt(h)'
      PROVE  Cardinality(HeldAt(h)') <= PerHost
  <2> DEFINE Same == {g \in Asked : semaphore[g] = semaphore[f]}
  <2>1. f \in Queued(h) /\ h \notin split
    BY <1>1, <1>4 DEF HeldAt, Queued, Asked
  <2>2. HeldAt(h)' \subseteq Same \cup {f}
    BY <1>1, <2>1 DEF HeldAt, Asked, Queued, OneSemaphore, CapInv, TypeInv, CheckType
  <2>3. Same \in SUBSET Feeds /\ Same \cup {f} \in SUBSET Feeds /\ f \notin Same
    BY <1>1 DEF Asked
  <2>4. IsFiniteSet(Same) /\ Cardinality(Same) \in Nat
    BY <2>3, PartOf
  <2>5. Cardinality(Same \cup {f}) = Cardinality(Same) + 1
    BY <2>3, <2>4, FS_AddElement
  <2>6. HeldAt(h)' \in SUBSET (Same \cup {f})
    BY <2>2
  <2>7. Cardinality(HeldAt(h)') <= Cardinality(Same \cup {f}) /\ Cardinality(HeldAt(h)') \in Nat
    BY <2>3, <2>6, PartOf
  <2>8. Cardinality(Same) < PerHost
    BY <1>1
  <2> HIDE DEF Same
  <2> QED
    BY <2>4, <2>5, <2>7, <2>8
<1>5. ASSUME NEW h \in Hosts \ split', f \notin HeldAt(h)'
      PROVE  Cardinality(HeldAt(h)') <= PerHost
  <2>1. HeldAt(h)' = HeldAt(h) /\ h \notin split
    BY <1>1, <1>5 DEF HeldAt, Asked, TypeInv, CheckType
  <2> QED
    BY <2>1 DEF CapIsKept, CapInv
<1> QED
  BY <1>3, <1>4, <1>5 DEF CapInv, CapIsKept

\* Every step keeps the semaphores of a host that was not split one.
LEMMA NextCap ==
    ASSUME TypeInv, TypeInv', CapInv, [FeedNext]_feedVars
    PROVE  CapInv'
<1>1. CASE UNCHANGED <<pos, listed, table, semaphore, split>>
  BY <1>1 DEF CapInv, OneSemaphore, CapIsKept, Queued, HeldAt, Asked
<1>2. ASSUME NEW f \in Feeds, Ends(f), UNCHANGED <<table, split>>
      PROVE  CapInv'
  <2>1. \A h \in Hosts : HeldAt(h)' \subseteq HeldAt(h)
    BY <1>2 DEF Ends, Goes, HeldAt, Asked, TypeInv, CheckType
  <2>2. OneSemaphore'
    BY <1>2 DEF Ends, Goes, OneSemaphore, Queued, CapInv, TypeInv, CheckType
  <2> QED
    BY <1>2, <2>1, <2>2, FewerHeld DEF CapInv
<1>3. ASSUME NEW f \in Feeds, SkipFeed(f) \/ SkipResting(f) \/ Replies(f)
      PROVE  CapInv'
  BY <1>2, <1>3 DEF SkipFeed, SkipResting, Replies, NotModified, Document, Failure, Lands, historyVars
<1>4. ASSUME NEW S \in SUBSET Feeds, NEW force \in BOOLEAN, StartCheck(S, force)
      PROVE  CapInv'
  BY <1>4, NobodyHeld DEF StartCheck
<1>5. CASE CheckEnds
  BY <1>5, NobodyHeld DEF CheckEnds
<1>6. CASE \/ \E f \in Feeds, s \in Addresses : EditFeed(f, s)
           \/ RequestStop \/ (\E s \in Sources : Publish(s)) \/ Passes \/ UNCHANGED feedVars
  BY <1>1, <1>6 DEF EditFeed, RequestStop, Publish, Passes, feedVars, poolVars, threadVars, historyVars
<1> QED
  BY <1>3, <1>4, <1>5, <1>6, QueueSteps, AskCap DEF FeedNext, EndCheck, KillProcess, Addresses

-----------------------------------------------------------------------------
(***************************************************************************)
(* Both at the moment of a request.                                        *)
(***************************************************************************)
\* Only AskSource begins a request.
LEMMA OnlyAskAsks ==
    ASSUME TypeInv, [FeedNext]_feedVars, NEW f \in Feeds, pos[f] # "asked", pos'[f] = "asked"
    PROVE  AskSource(f)
<1> USE DEF TypeInv, CheckType
<1>1. CASE UNCHANGED pos
  BY <1>1
<1>2. ASSUME NEW g \in Feeds, Ends(g)
      PROVE  FALSE
  BY <1>2 DEF Ends, Goes
<1>3. ASSUME NEW g \in Feeds,
             TakeThread(g) \/ CreateSemaphore(g)
      PROVE  FALSE
  BY <1>3 DEF TakeThread, CreateSemaphore, Goes
<1>4. ASSUME NEW g \in Feeds, SkipFeed(g) \/ SkipResting(g) \/ Replies(g)
      PROVE  FALSE
  BY <1>2, <1>4 DEF SkipFeed, SkipResting, Replies, NotModified, Document, Failure, Lands
<1>5. ASSUME NEW g \in Feeds, AskSource(g)
      PROVE  AskSource(f)
  BY <1>5 DEF AskSource, Goes
<1>6. CASE \/ \E S \in SUBSET Feeds, force \in BOOLEAN : StartCheck(S, force)
           \/ CheckEnds
  BY <1>6 DEF StartCheck, CheckEnds
<1>7. CASE \/ \E g \in Feeds, s \in Addresses : EditFeed(g, s)
           \/ RequestStop \/ (\E s \in Sources : Publish(s)) \/ Passes \/ UNCHANGED feedVars
  BY <1>1, <1>7 DEF EditFeed, RequestStop, Publish, Passes, feedVars, threadVars
<1> QED
  BY <1>3, <1>4, <1>5, <1>6, <1>7 DEF FeedNext, EndCheck, KillProcess, Addresses

\* A provider that asked for rest gets it, from every feed and from manual
\* retries too, and a host has no more requests at once than it is allowed:
\* only crossed requests, two threads that miss a host at once, and a feed
\* that moves while its thread waits are beyond that (feeds.py 145-157,
\* 222-230, 262-274).
THEOREM HostsAreLeftAlone == FeedSpec => HostsAreSpared
<1> DEFINE Inv == TypeInv /\ RestIsKept /\ CapInv
<1>1. FeedInit => Inv
  <2> SUFFICES ASSUME FeedInit PROVE RestIsKept /\ OneSemaphore /\ CapIsKept
    BY InitType DEF CapInv
  <2>1. \A h \in Hosts : Queued(h) = {} /\ HeldAt(h) = {} /\ AtHost(h) = {}
    BY DEF FeedInit, Queued, HeldAt, AtHost, Asked
  <2>2. Cardinality({}) = 0
    BY FS_EmptySet
  <2>3. RestIsKept
    BY <2>1 DEF FeedInit, RestIsKept
  <2>4. OneSemaphore /\ CapIsKept
    BY <2>1, <2>2 DEF OneSemaphore, CapIsKept
  <2> QED
    BY <2>3, <2>4
<1>2. Inv /\ [FeedNext]_feedVars => Inv'
  BY NextType, NextRest, NextCap
<1>3. ASSUME Inv, Inv', [FeedNext]_feedVars, NEW f \in Feeds, pos[f] # "asked", pos'[f] = "asked"
      PROVE  LET h == HostOf[flight'[f].source] IN
             /\ h \notin crossed => promised[h] = 0
             /\ h \notin split =>
                  Cardinality({g \in Feeds : /\ pos'[g] = "asked"
                                             /\ HostOf[flight'[g].source] = h
                                             /\ HostOf[listed[g]] = h}) <= PerHost
  <2>1. AskSource(f)
    BY <1>3, OnlyAskAsks
  <2>2. /\ flight'[f].source = url[f] /\ url[f] \in Sources /\ backoff[HostOf[url[f]]] = 0
        /\ UNCHANGED <<listed, split>>
    BY <1>3, <2>1 DEF AskSource, FlightOf, RestsStill, poolVars, historyVars, TypeInv, RowType,
                      HostType, CheckType, Addresses
  <2>3. PICK h \in Hosts : h = HostOf[flight'[f].source]
    BY <2>2
  <2>4. h \notin crossed => promised[h] = 0
    BY <1>3, <2>2, <2>3 DEF RestIsKept, TypeInv, HostType
  <2> DEFINE Busy == {g \in Feeds : /\ pos'[g] = "asked" /\ HostOf[flight'[g].source] = h
                                    /\ HostOf[listed[g]] = h}
  <2>5. Busy \in SUBSET HeldAt(h)' /\ HeldAt(h)' \in SUBSET Feeds
    BY <2>2 DEF HeldAt, Asked
  <2>6. ASSUME h \notin split PROVE Cardinality(Busy) <= PerHost
    <3>1. Cardinality(HeldAt(h)') <= PerHost
      BY <1>3, <2>2, <2>6 DEF CapInv, CapIsKept
    <3>2. Cardinality(Busy) <= Cardinality(HeldAt(h)') /\ Cardinality(Busy) \in Nat
          /\ Cardinality(HeldAt(h)') \in Nat
      BY <2>5, PartOf
    <3> HIDE DEF Busy
    <3> QED
      BY <3>1, <3>2
  <2> QED
    BY <2>3, <2>4, <2>6
<1>4. Inv /\ Inv' /\ [FeedNext]_feedVars =>
      [\A f \in Feeds : pos[f] # "asked" /\ pos'[f] = "asked" =>
        LET h == HostOf[flight'[f].source] IN
        /\ h \notin crossed => promised[h] = 0
        /\ h \notin split =>
            Cardinality({g \in Feeds : /\ pos'[g] = "asked" /\ HostOf[flight'[g].source] = h
                                       /\ HostOf[listed[g]] = h}) <= PerHost]_feedVars
  BY <1>3
<1> QED
  BY <1>1, <1>2, <1>4, PTL DEF FeedSpec, HostsAreSpared

-----------------------------------------------------------------------------
(***************************************************************************)
(* A check comes to its end: the pool is joined once no feed has a step    *)
(* left (feeds.py 264-298).                                                *)
(***************************************************************************)
\* The steps of a thread with its feed, and how many are left at most.
ThreadSteps(f) ==
    TakeThread(f) \/ CreateSemaphore(f) \/ SkipFeed(f) \/ SkipResting(f) \/ AskSource(f) \/ Replies(f)

FeedStepsLeft(f) ==
    [none |-> 0, queued |-> 4, creating |-> 3, waiting |-> 2, asked |-> 1, ended |-> 0][pos[f]]

\* Steps of a feed use its steps up, and while the check is under way nobody
\* gives one back.
FeedStepsFall ==
    /\ \A f \in Feeds : ThreadSteps(f) => FeedStepsLeft(f)' < FeedStepsLeft(f)
    /\ checking => \A f \in Feeds : FeedStepsLeft(f)' <= FeedStepsLeft(f)

Unfinished == {f \in Feeds : pos[f] \notin {"none", "ended"}}
Threads == {f \in Feeds : pos[f] \in {"creating", "waiting", "asked"}}

\* What the thread of f needs for its next step: an answer, the turn of the
\* interpreter, a permit, or the pool's.
MayGoOn(f) ==
    \/ pos[f] \in {"asked", "creating"}
    \/ Permit(f)
    \/ /\ pos[f] = "queued" /\ Cardinality(Threads) < MaxWorkers
       /\ \A g \in Feeds : pos[g] = "queued" => f <= g

\* The threads of a check never all wait for one another.
NobodyBlocksAll == Unfinished # {} => \E f \in Unfinished : MayGoOn(f)

\* Only a check in progress has threads.
ThreadsAreOfChecks == Unfinished # {} => checking

\* The pool takes the feeds in the order of their ids: there is a next one.
LEMMA SomeIsNext ==
    ASSUME NEW S \in SUBSET Nat, S # {}
    PROVE  \E f \in S : \A g \in S : f <= g
<1>1. PICK f \in S : \A g \in S : <<g, f>> \notin OpToRel(<, Nat)
  BY NatLessThanWellFounded, WFMin
<1>2. \A g \in S : ~(g < f)
  BY <1>1 DEF OpToRel
<1> QED
  BY <1>2

\* A thread that waits for a permit while nobody asks gets one; a queued
\* feed gets a thread when there is none; and a thread that makes its
\* semaphore, or has asked, waits for no other.
LEMMA SomebodyGoesOn == ASSUME TypeInv PROVE NobodyBlocksAll
<1> SUFFICES ASSUME Unfinished # {} PROVE \E f \in Unfinished : MayGoOn(f)
  BY DEF NobodyBlocksAll
<1>1. Cardinality({}) = 0
  BY FS_EmptySet
<1>2. CASE \E f \in Feeds : pos[f] \in {"asked", "creating"}
  BY <1>2 DEF Unfinished, MayGoOn
<1>3. CASE Asked = {} /\ \E f \in Feeds : pos[f] = "waiting"
  <2>1. PICK f \in Feeds : pos[f] = "waiting"
    BY <1>3
  <2>2. {g \in Asked : semaphore[g] = semaphore[f]} = {}
    BY <1>3
  <2>3. Permit(f)
    BY <1>1, <2>1, <2>2 DEF Permit
  <2> QED
    BY <2>1, <2>3 DEF Unfinished, MayGoOn
<1>4. CASE Threads = {}
  <2> DEFINE Line == {f \in Feeds : pos[f] = "queued"}
  <2>1. Line # {} /\ Line \in SUBSET Nat /\ Line \subseteq Unfinished
    BY <1>4 DEF Unfinished, Threads, TypeInv, CheckType, Places
  <2>2. PICK f \in Line : \A g \in Line : f <= g
    BY <2>1, SomeIsNext
  <2>3. MayGoOn(f)
    BY <1>1, <1>4, <2>2 DEF MayGoOn
  <2> QED
    BY <2>1, <2>2, <2>3
<1> QED
  BY <1>2, <1>3, <1>4 DEF Threads, Asked

\* Whatever a feed's thread does takes it forward.
LEMMA ThreadsGoForward ==
    ASSUME TypeInv, NEW f \in Feeds, ThreadSteps(f)
    PROVE  /\ FeedStepsLeft(f)' < FeedStepsLeft(f) /\ checking' = checking
           /\ pos[f] \notin {"none", "ended"}
           /\ \A g \in Feeds \ {f} : pos'[g] = pos[g]
<1> USE DEF TypeInv, CheckType, FeedStepsLeft, Goes
<1>1. CASE TakeThread(f) \/ CreateSemaphore(f) \/ AskSource(f)
  BY <1>1 DEF TakeThread, CreateSemaphore, AskSource, Permit, poolVars
<1>2. CASE SkipFeed(f) \/ SkipResting(f)
  BY <1>2 DEF SkipFeed, SkipResting, Permit, Ends
<1>3. CASE Replies(f)
  <2>1. Lands(f)
    BY <1>3 DEF Replies, NotModified, Document, Failure
  <2> QED
    BY <2>1 DEF Lands, Ends
<1> QED
  BY <1>1, <1>2, <1>3 DEF ThreadSteps

\* Every step of a retrieval is that of a thread, or begins or ends a check,
\* or moves no thread.
LEMMA OnlyThreadsMove ==
    ASSUME TypeInv, [FeedNext]_feedVars
    PROVE  \/ \E f \in Feeds : ThreadSteps(f)
           \/ ~checking /\ checking'
           \/ \A f \in Feeds : pos'[f] = "none"
           \/ UNCHANGED <<pos, checking>>
<1>1. CASE \E S \in SUBSET Feeds, force \in BOOLEAN : StartCheck(S, force)
  BY <1>1 DEF StartCheck
<1>2. CASE \E f \in Feeds : \/ TakeThread(f) \/ CreateSemaphore(f) \/ SkipFeed(f)
                            \/ SkipResting(f) \/ AskSource(f) \/ Replies(f)
  BY <1>2 DEF ThreadSteps
<1>3. CASE EndCheck \/ KillProcess
  BY <1>3 DEF EndCheck, KillProcess, CheckEnds
<1>4. CASE RequestStop \/ Passes \/ UNCHANGED feedVars
  BY <1>4 DEF RequestStop, Passes, poolVars, threadVars, feedVars
<1>5. CASE \E f \in Feeds, s \in Sources \cup {NoSource} : EditFeed(f, s)
  BY <1>5 DEF EditFeed, poolVars, threadVars
<1>6. CASE \E s \in Sources : Publish(s)
  BY <1>6 DEF Publish, poolVars, threadVars
<1> QED
  BY <1>1, <1>2, <1>3, <1>4, <1>5, <1>6 DEF FeedNext

\* A retrieval neither blocks nor goes round: each feed of a check has at
\* most four steps, no edit, stop or failure gives one back, and as long as a
\* feed is not done some thread needs nothing of another one to go on: no
\* two threads wait for each other's permit, and a pool that is full has a
\* thread that moves (feeds.py 264-298).
THEOREM ChecksRunOut ==
    FeedSpec => []NobodyBlocksAll /\ []ThreadsAreOfChecks /\ [][FeedStepsFall]_feedVars
<1> DEFINE Inv == TypeInv /\ ThreadsAreOfChecks
<1>1. FeedInit => Inv
  BY InitType DEF FeedInit, ThreadsAreOfChecks, Unfinished
<1>2. ASSUME Inv, [FeedNext]_feedVars PROVE FeedStepsFall /\ ThreadsAreOfChecks'
  <2>1. CASE \E f \in Feeds : ThreadSteps(f)
    <3>1. PICK f \in Feeds : ThreadSteps(f)
      BY <2>1
    <3>2. /\ FeedStepsLeft(f)' < FeedStepsLeft(f) /\ FeedStepsLeft(f)' \in Nat
          /\ FeedStepsLeft(f) \in Nat
          /\ checking' = checking /\ f \in Unfinished
          /\ \A g \in Feeds \ {f} : pos'[g] = pos[g]
      <4>1. TypeInv'
        BY <1>2, NextType
      <4> QED
        BY <1>2, <3>1, <4>1, ThreadsGoForward
           DEF FeedStepsLeft, Unfinished, TypeInv, CheckType, Places
    <3>3. \A g \in Feeds : FeedStepsLeft(g)' <= FeedStepsLeft(g)
      BY <1>2, <3>2 DEF FeedStepsLeft, TypeInv, CheckType, Places
    <3>4. \A g \in Feeds : ThreadSteps(g) => FeedStepsLeft(g)' < FeedStepsLeft(g)
      BY <1>2, ThreadsGoForward
    <3> QED
      BY <1>2, <3>2, <3>3, <3>4 DEF FeedStepsFall, ThreadsAreOfChecks
  <2>2. CASE ~\E f \in Feeds : ThreadSteps(f)
    <3>1. \/ ~checking /\ checking'
          \/ \A f \in Feeds : pos'[f] = "none"
          \/ UNCHANGED <<pos, checking>>
      BY <1>2, <2>2, OnlyThreadsMove
    <3>2. checking => \A f \in Feeds : FeedStepsLeft(f)' <= FeedStepsLeft(f)
      <4>1. ASSUME NEW f \in Feeds PROVE FeedStepsLeft(f) \in Nat
        BY <1>2 DEF FeedStepsLeft, TypeInv, CheckType, Places
      <4>2. CASE \A f \in Feeds : pos'[f] = "none"
        BY <4>1, <4>2 DEF FeedStepsLeft
      <4>3. CASE UNCHANGED pos
        BY <4>1, <4>3 DEF FeedStepsLeft
      <4> QED
        BY <3>1, <4>2, <4>3
    <3>3. ThreadsAreOfChecks'
      BY <1>2, <3>1 DEF ThreadsAreOfChecks, Unfinished
    <3> QED
      BY <2>2, <3>2, <3>3 DEF FeedStepsFall
  <2> QED
    BY <2>1, <2>2
<1>3. Inv /\ [FeedNext]_feedVars => Inv'
  BY <1>2, NextType
<1>4. Inv => NobodyBlocksAll
  BY SomebodyGoesOn
<1>5. Inv /\ [FeedNext]_feedVars => [FeedStepsFall]_feedVars
  BY <1>2
<1> QED
  BY <1>1, <1>3, <1>4, <1>5, PTL DEF FeedSpec
=============================================================================
