----------------------------- MODULE FeedRefresh -----------------------------
(***************************************************************************)
(* The retrieval of feeds: refresh_all with its pool of threads, the       *)
(* semaphores that limit the requests to one host, refresh_feed with its   *)
(* conditional requests, retry delays and cooldowns, and the edits of      *)
(* subscriptions, which need no lease and may overtake a request.          *)
(*                                                                         *)
(* A document is a version of a source; its entries are stored in the      *)
(* transaction that stores its validators (ETag and Last-Modified, here    *)
(* the document they came with).  Times are the ticks that remain.  One    *)
(* check runs at a time, as UpdateJobs shows.  The web servers that answer *)
(* are not part of the repository.                                         *)
(***************************************************************************)
EXTENDS Naturals, FiniteSets

CONSTANTS
    Feeds,        \* the ids of feeds, in the order in which they are checked
    Sources,      \* the addresses a feed may have
    NoSource,     \* the address of an id that no feed has
    Hosts,
    HostOf,       \* the host of an address
    MaxWorkers,   \* feeds.max_workers
    PerHost,      \* feeds.max_workers_per_host
    Rests,        \* how long a provider may ask to be left alone
    MaxDelay,     \* feeds.retry_max_hours
    LastVersion,  \* bound: the last version of a source
    MaxFailures,  \* bound: failures of a feed in a row
    MaxEdits      \* bound: edits of subscriptions

ASSUME RefreshAssumption ==
    /\ Feeds \subseteq Nat /\ IsFiniteSet(Feeds)
    /\ NoSource \notin Sources /\ HostOf \in [Sources -> Hosts]
    /\ MaxWorkers \in Nat \ {0} /\ PerHost \in 1..MaxWorkers
    /\ Rests \subseteq Nat \ {0} /\ MaxDelay \in Nat \ {0}
    /\ LastVersion \in [Sources -> Nat \ {0}] /\ MaxFailures \in Nat /\ MaxEdits \in Nat

VARIABLES
    url,        \* feeds.xml_url
    validator,  \* feeds.etag and last_modified: the document they came with
    failures,   \* feeds.consecutive_failures
    retry,      \* feeds.next_retry_at
    backoff,    \* provider_backoff.retry_at
    version,    \* what a source shows now
    checking,   \* a check is under way
    forced,     \* it is a manual retry
    stopped,    \* it was asked to stop
    listed,     \* the address of a feed when the check listed it
    pos,        \* where the check of a feed is
    table,      \* host_locks: the feed whose thread made the host's semaphore
    semaphore,  \* the semaphore that a thread uses
    flight,     \* what a request in flight was made from
    promised,   \* history: how long a host still wants to be left alone
    crossed,    \* history: hosts that asked while another request was in flight
    split,      \* history: hosts with two semaphores in this check
    overtaken,  \* history: feeds edited under their request
    tainted,    \* history: feeds whose row an overtaken request wrote
    taken,      \* history: the last stored document of the present source
    failed,     \* history: failures of the present source since its last success
    edits

rowVars == <<url, validator, failures, retry>>
poolVars == <<checking, forced, listed, table>>
threadVars == <<pos, semaphore, flight>>
historyVars == <<promised, crossed, split, overtaken, tainted, taken, failed>>
feedVars == <<rowVars, backoff, version, poolVars, stopped, threadVars, historyVars, edits>>

NoDocument == [source |-> NoSource, version |-> 0]
NoFlight == [source |-> NoSource, failures |-> 0, sent |-> NoDocument]

Subscribed == {f \in Feeds : url[f] # NoSource}
Asked == {f \in Feeds : pos[f] = "asked"}
AtHost(h) == {f \in Asked : HostOf[flight[f].source] = h}

FeedInit ==
    /\ url \in [Feeds -> Sources]
    /\ \A f, g \in Feeds : url[f] = url[g] => f = g
    /\ validator = [f \in Feeds |-> NoDocument]
    /\ failures = [f \in Feeds |-> 0] /\ retry = [f \in Feeds |-> 0]
    /\ backoff = [h \in Hosts |-> 0]
    /\ version = [s \in Sources |-> 1]
    /\ checking = FALSE /\ forced = FALSE /\ stopped = FALSE
    /\ listed = [f \in Feeds |-> NoSource]
    /\ pos = [f \in Feeds |-> "none"]
    /\ table = [h \in Hosts |-> {}]
    /\ semaphore = [f \in Feeds |-> {}]
    /\ flight = [f \in Feeds |-> NoFlight]
    /\ promised = [h \in Hosts |-> 0]
    /\ crossed = {} /\ split = {} /\ overtaken = {} /\ tainted = {}
    /\ taken = [f \in Feeds |-> NoDocument]
    /\ failed = [f \in Feeds |-> 0]
    /\ edits = 0

-----------------------------------------------------------------------------
(***************************************************************************)
(* refresh_all: the list of feeds, the pool, the semaphores.               *)
(***************************************************************************)
StartCheck(S, force) ==
    /\ ~checking /\ S # {} /\ S \subseteq Subscribed
    /\ checking' = TRUE /\ forced' = force /\ stopped' = FALSE
    /\ listed' = [f \in Feeds |-> IF f \in S THEN url[f] ELSE NoSource]
    /\ pos' = [f \in Feeds |-> IF f \in S THEN "queued" ELSE "none"]
    /\ table' = [h \in Hosts |-> {}]
    /\ split' = {}
    /\ UNCHANGED <<rowVars, backoff, version, semaphore, flight, promised, crossed,
                   overtaken, tainted, taken, failed, edits>>

Goes(f, label) == pos' = [pos EXCEPT ![f] = label]

\* The thread looks its host up in host_locks.  A host that is missing gets
\* a semaphore from the default factory, which is Python code: another
\* thread may run before the new semaphore is in the table.
TakeThread(f) ==
    /\ pos[f] = "queued" /\ \A g \in Feeds : pos[g] = "queued" => f <= g
    /\ Cardinality({g \in Feeds : pos[g] \in {"creating", "waiting", "asked"}}) < MaxWorkers
    /\ LET found == table[HostOf[listed[f]]] IN
        /\ Goes(f, IF found = {} THEN "creating" ELSE "waiting")
        /\ semaphore' = [semaphore EXCEPT ![f] = found]
    /\ UNCHANGED <<rowVars, backoff, version, poolVars, stopped, flight, historyVars, edits>>

CreateSemaphore(f) ==
    /\ pos[f] = "creating"
    /\ LET h == HostOf[listed[f]] IN
        /\ table' = [table EXCEPT ![h] = {f}]
        /\ split' = IF table[h] = {} THEN split ELSE split \cup {h}
    /\ semaphore' = [semaphore EXCEPT ![f] = {f}]
    /\ Goes(f, "waiting")
    /\ UNCHANGED <<rowVars, backoff, version, checking, forced, listed, stopped, flight,
                   promised, crossed, overtaken, tainted, taken, failed, edits>>

Permit(f) ==
    /\ pos[f] = "waiting"
    /\ Cardinality({g \in Asked : semaphore[g] = semaphore[f]}) < PerHost

\* The thread is done with the feed and gives its permit back.
Ends(f) == /\ Goes(f, "ended")
           /\ semaphore' = [semaphore EXCEPT ![f] = {}]
           /\ listed' = [listed EXCEPT ![f] = NoSource]

\* The worker stops, or finds its feed deleted.
SkipFeed(f) ==
    /\ Permit(f) /\ (stopped \/ url[f] = NoSource)
    /\ Ends(f)
    /\ UNCHANGED <<rowVars, backoff, version, checking, forced, table, stopped, flight,
                   historyVars, edits>>

\* The pool is joined; what the check kept in memory goes with it.
CheckEnds ==
    /\ checking' = FALSE /\ forced' = FALSE /\ stopped' = FALSE
    /\ listed' = [f \in Feeds |-> NoSource]
    /\ pos' = [f \in Feeds |-> "none"]
    /\ table' = [h \in Hosts |-> {}]
    /\ semaphore' = [f \in Feeds |-> {}]
    /\ flight' = [f \in Feeds |-> NoFlight]
    /\ split' = {} /\ overtaken' = {}
    /\ UNCHANGED <<rowVars, backoff, version, promised, crossed, tainted, taken, failed, edits>>

EndCheck == checking /\ (\A f \in Feeds : pos[f] \in {"none", "ended"}) /\ CheckEnds

KillProcess == checking /\ CheckEnds

\* request_job_cancellation, as the threads see it.
RequestStop ==
    /\ checking /\ ~stopped
    /\ stopped' = TRUE
    /\ UNCHANGED <<rowVars, backoff, version, poolVars, threadVars, historyVars, edits>>

-----------------------------------------------------------------------------
(***************************************************************************)
(* refresh_feed.  The row is read again once the thread has its permit.    *)
(***************************************************************************)
\* Mutant: a manual retry goes ahead whatever the provider asked for.
RestsUnlessForced(f) == ~forced /\ (retry[f] > 0 \/ backoff[HostOf[url[f]]] > 0)
RestsStill(f) == (~forced /\ retry[f] > 0) \/ backoff[HostOf[url[f]]] > 0

SkipResting(f) ==
    /\ Permit(f) /\ ~stopped /\ url[f] # NoSource /\ RestsStill(f)
    /\ Ends(f)
    /\ UNCHANGED <<rowVars, backoff, version, checking, forced, table, stopped, flight,
                   historyVars, edits>>

\* A manual retry sends no validators.
\* Mutant: the request is made from the row of the list.
FlightAsListed(f) == [source |-> listed[f], failures |-> failures[f],
                      sent |-> IF forced THEN NoDocument ELSE validator[f]]
FlightOf(f) == [source |-> url[f], failures |-> failures[f],
                sent |-> IF forced THEN NoDocument ELSE validator[f]]

AskSource(f) ==
    /\ Permit(f) /\ ~stopped /\ url[f] # NoSource /\ ~RestsStill(f)
    /\ flight' = [flight EXCEPT ![f] = FlightOf(f)]
    /\ Goes(f, "asked")
    /\ UNCHANGED <<rowVars, backoff, version, poolVars, stopped, semaphore, historyVars, edits>>

\* The row of a feed that was deleted meanwhile is not there to be written.
Writes(f) == url[f] # NoSource
Ours(f) == flight[f].source = url[f]

\* A check that succeeded forgets the failures before it.
Recovers(f) ==
    /\ failures' = [failures EXCEPT ![f] = IF Writes(f) THEN 0 ELSE @]
    /\ retry' = [retry EXCEPT ![f] = IF Writes(f) THEN 0 ELSE @]
    /\ failed' = [failed EXCEPT ![f] = IF Ours(f) THEN 0 ELSE @]

Lands(f) ==
    /\ pos[f] = "asked"
    /\ Ends(f)
    /\ flight' = [flight EXCEPT ![f] = NoFlight]
    /\ overtaken' = overtaken \ {f}
    /\ UNCHANGED <<url, version, checking, forced, table, stopped, split, edits>>

\* 304 Not Modified.  What a server says to the validators of another
\* address is its own affair.
NotModified(f) ==
    /\ flight[f].sent # NoDocument
    /\ flight[f].sent.source = flight[f].source
        => flight[f].sent.version = version[flight[f].source]
    /\ Lands(f) /\ Recovers(f)
    /\ tainted' = IF f \in overtaken /\ Writes(f) THEN tainted \cup {f} ELSE tainted
    /\ UNCHANGED <<validator, backoff, promised, crossed, taken>>

\* A document, with or without validators: its entries and what the row says
\* of it are one transaction, which fails if the feed is gone.
Document(f, validated) ==
    LET document == [source |-> flight[f].source, version |-> version[flight[f].source]] IN
    /\ Lands(f) /\ Recovers(f)
    /\ validator' = [validator EXCEPT ![f] = IF ~Writes(f) THEN @
                                             ELSE IF validated THEN document ELSE NoDocument]
    /\ taken' = [taken EXCEPT ![f] = IF Ours(f) THEN document ELSE @]
    /\ tainted' = IF f \in overtaken /\ Writes(f) THEN tainted \cup {f} ELSE tainted \ {f}
    /\ UNCHANGED <<backoff, promised, crossed>>

\* The delay doubles from one tick (retry_base_minutes) up to its limit.
RetryDelay(n) ==
    IF n <= MaxDelay /\ 2 ^ (n - 1) \in 1..MaxDelay THEN 2 ^ (n - 1) ELSE MaxDelay

\* An error of any kind.  A page that tells people from machines also asks
\* for rest, which all feeds of the host then observe; the last to be asked
\* wins.  The count of failures is that of the row the request began with.
Failure(f, rest) ==
    LET h == HostOf[flight[f].source]
        count == flight[f].failures + 1
        delay == IF rest > RetryDelay(count) THEN rest ELSE RetryDelay(count)
    IN
    /\ pos[f] = "asked" /\ count <= MaxFailures /\ failed[f] < MaxFailures
    /\ Lands(f)
    /\ failures' = [failures EXCEPT ![f] = IF Writes(f) THEN count ELSE @]
    /\ retry' = [retry EXCEPT ![f] = IF Writes(f) THEN delay ELSE @]
    /\ backoff' = [backoff EXCEPT ![h] = IF rest > 0 THEN delay ELSE @]
    /\ promised' = [promised EXCEPT ![h] = IF rest > @ THEN rest ELSE @]
    /\ crossed' = IF rest > 0 /\ AtHost(h) # {f} THEN crossed \cup {h} ELSE crossed
    /\ failed' = [failed EXCEPT ![f] = IF Ours(f) THEN @ + 1 ELSE @]
    /\ tainted' = IF f \in overtaken /\ Writes(f) THEN tainted \cup {f} ELSE tainted
    /\ UNCHANGED <<validator, taken>>

-----------------------------------------------------------------------------
(***************************************************************************)
(* Subscriptions, servers, time.                                           *)
(***************************************************************************)
\* A new address, a new feed with the id of a deleted one, or no feed.  What
\* the row said of the old address goes.
ForgetSource(f) ==
    /\ validator' = [validator EXCEPT ![f] = NoDocument]
    /\ failures' = [failures EXCEPT ![f] = 0]
    /\ retry' = [retry EXCEPT ![f] = 0]

EditFeed(f, s) ==
    /\ edits < MaxEdits /\ edits' = edits + 1
    /\ s # url[f] /\ s \in Sources => \A g \in Feeds : url[g] # s
    /\ url' = [url EXCEPT ![f] = s]
    /\ ForgetSource(f)
    /\ overtaken' = IF pos[f] = "asked" THEN overtaken \cup {f} ELSE overtaken
    /\ tainted' = tainted \ {f}
    /\ taken' = [taken EXCEPT ![f] = NoDocument]
    /\ failed' = [failed EXCEPT ![f] = 0]
    /\ UNCHANGED <<backoff, version, poolVars, stopped, threadVars, promised, crossed, split>>

Publish(s) ==
    /\ version[s] < LastVersion[s]
    /\ version' = [version EXCEPT ![s] = @ + 1]
    /\ UNCHANGED <<rowVars, backoff, poolVars, stopped, threadVars, historyVars, edits>>

Less(n) == IF n > 0 THEN n - 1 ELSE 0

Passes ==
    /\ (\E f \in Feeds : retry[f] > 0) \/ \E h \in Hosts : backoff[h] > 0
    /\ retry' = [f \in Feeds |-> Less(retry[f])]
    /\ backoff' = [h \in Hosts |-> Less(backoff[h])]
    /\ promised' = [h \in Hosts |-> Less(promised[h])]
    /\ crossed' = {h \in crossed : promised'[h] > 0}
    /\ UNCHANGED <<url, validator, failures, version, poolVars, stopped, threadVars, split,
                   overtaken, tainted, taken, failed, edits>>

Replies(f) ==
    \/ NotModified(f)
    \/ \E validated \in BOOLEAN : Document(f, validated)
    \/ \E rest \in Rests \cup {0} : Failure(f, rest)

FeedNext ==
    \/ \E S \in SUBSET Feeds, force \in BOOLEAN : StartCheck(S, force)
    \/ \E f \in Feeds : \/ TakeThread(f) \/ CreateSemaphore(f) \/ SkipFeed(f) \/ SkipResting(f)
                        \/ AskSource(f) \/ Replies(f)
    \/ \E f \in Feeds, s \in Sources \cup {NoSource} : EditFeed(f, s)
    \/ EndCheck \/ KillProcess \/ RequestStop
    \/ \E s \in Sources : Publish(s)
    \/ Passes

FeedSpec == FeedInit /\ [][FeedNext]_feedVars

-----------------------------------------------------------------------------
(***************************************************************************)
(* Correctness.                                                            *)
(***************************************************************************)

\* A provider that asked for rest is left alone that long, by every feed of
\* the host and by manual retries too, unless two requests to it crossed;
\* and a host answers no more requests at once than it is allowed, unless
\* two threads missed it in the table at the same moment, or a feed moved to
\* it while its thread waited (feeds.py 145-157, 222-230, 262-274).
HostsAreSpared ==
    [][\A f \in Feeds : pos[f] # "asked" /\ pos'[f] = "asked" =>
        LET h == HostOf[flight'[f].source] IN
        /\ h \notin crossed => promised[h] = 0
        /\ h \notin split =>
            Cardinality({g \in Feeds : /\ pos'[g] = "asked" /\ HostOf[flight'[g].source] = h
                                       /\ HostOf[listed[g]] = h}) <= PerHost]_feedVars

\* The row of a feed is about its present address: its validators came with
\* the document whose entries were stored last, so that "not modified" hides
\* nothing, and its failures are those since the last success.  Only an
\* address that is edited under its own request may break that (feeds.py
\* 176-196, 222-234; web.py 2724-2740).
RowTellsHistory ==
    \A f \in Feeds \ tainted :
        /\ validator[f] \in {taken[f], NoDocument}
        /\ failures[f] = failed[f]
=============================================================================
