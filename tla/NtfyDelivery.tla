----------------------------- MODULE NtfyDelivery -----------------------------
(***************************************************************************)
(* Device alerts through an ntfy server: at most one attempt per entry and *)
(* destination, whatever happens between the claim of an alert, the post   *)
(* and the record of its outcome.                                          *)
(*                                                                         *)
(* A sender is one call of deliver_ntfy_for_job, which claims all of its   *)
(* alerts in one transaction, or of deliver_arxiv_pushes, which claims     *)
(* them one at a time in a table of its own.  Both run inside a summary    *)
(* job, so two senders are alive at once only after the lease of one has   *)
(* lapsed.  The server accepts a post or not, and the answer may be lost.  *)
(***************************************************************************)
EXTENDS NtfyPolicy

CONSTANTS
    Senders,         \* the calls that send alerts
    Destinations,    \* pairs of server and topic that they may name
    PolicyChoices,   \* the policies that the settings may hold
    Limit,           \* max_items_per_summary, max_items_per_digest
    ArxivThreshold   \* minimum_llm_score

Tables == {"ordinary", "arxiv"}

ASSUME DeliveryAssumption ==
    /\ PolicyChoices \subseteq Policies
    /\ Limit \in Nat \ {0} /\ ArxivThreshold \in 0 .. 100

VARIABLES
    stored,       \* the entries in the items table
    status,       \* the status of the delivery row of an alert
    id,           \* the id of that row, or 0
    old,          \* that row was claimed more than 15 minutes ago
    lapsed,       \* a sender started while another one was alive
    attempts,     \* how often an alert was posted
    accepted,     \* the alerts the server accepted
    pc,           \* where a sender is in the code
    table,        \* the table it uses
    target,       \* the destination it read
    candidates,   \* entries it may still claim
    claimed,      \* the ids of the rows of its alerts, or 0
    answered      \* the server answered its last post with a success

rowVars == <<status, id, old>>
ghostVars == <<lapsed, attempts, accepted>>
senderVars == <<pc, table, target, candidates, claimed, answered>>
vars == <<stored, rowVars, ghostVars, senderVars>>

\* UNIQUE(channel, destination_key, item_id); ids are per table.
Alerts == Destinations \X Items
Owned(t) == IF t = "arxiv" THEN Papers ELSE Items \ Papers
AlertsOf(t) == Destinations \X Owned(t)

TypeOK ==
    /\ stored \subseteq Items
    /\ status \in [Alerts -> {"none", "sending", "delivered", "failed"}]
    /\ id \in [Alerts -> Nat]
    /\ \A a \in Alerts : id[a] = 0 <=> status[a] = "none"
    /\ old \in [Alerts -> BOOLEAN]
    /\ lapsed \in BOOLEAN
    /\ attempts \in [Alerts -> Nat]
    /\ accepted \subseteq Alerts
    /\ pc \in [Senders -> {"new", "claim", "post", "record", "done", "dead"}]
    /\ table \in [Senders -> Tables]
    /\ target \in [Senders -> Destinations \cup {None}]
    /\ \A s \in Senders : pc[s] # "new" => target[s] \in Destinations
    /\ candidates \in [Senders -> SUBSET Items]
    /\ claimed \in [Senders -> [Items -> Nat]]
    /\ answered \in [Senders -> BOOLEAN]

Init ==
    /\ stored = Items
    /\ status = [a \in Alerts |-> "none"]
    /\ id = [a \in Alerts |-> 0]
    /\ old = [a \in Alerts |-> FALSE]
    /\ lapsed = FALSE
    /\ attempts = [a \in Alerts |-> 0]
    /\ accepted = {}
    /\ pc = [s \in Senders |-> "new"]
    /\ table = [s \in Senders |-> "ordinary"]
    /\ target = [s \in Senders |-> None]
    /\ candidates = [s \in Senders |-> {}]
    /\ claimed = [s \in Senders |-> [i \in Items |-> 0]]
    /\ answered = [s \in Senders |-> FALSE]

Alive(s) == pc[s] \in {"claim", "post", "record"}
Alert(s, i) == <<target[s], i>>
Goto(s, label) == pc' = [pc EXCEPT ![s] = label]

\* The call ends, and its local variables with it, but for its claims,
\* which say whose the rows were.
Leave(s, label) ==
    /\ Goto(s, label)
    /\ candidates' = [candidates EXCEPT ![s] = {}]
    /\ answered' = [answered EXCEPT ![s] = FALSE]

-----------------------------------------------------------------------------
(***************************************************************************)
(* The senders.                                                            *)
(***************************************************************************)
\* What a sender selects from the entries C of its job.
Selection(t, C, p) ==
    IF t = "arxiv" THEN Top({i \in C : Relevance[i] >= ArxivThreshold}, Limit)
    ELSE Candidates(p, C, Limit)

\* Settings, rules and entries are read before anything is claimed.  Users
\* may save other settings at any time, so a call finds any of them; one
\* that finds alerts switched off ends at once and is not modelled.
Begin(s, t, C, p, d) ==
    /\ pc[s] = "new"
    /\ C \subseteq stored \cap Owned(t)
    /\ lapsed' = (lapsed \/ \E r \in Senders : Alive(r))
    /\ table' = [table EXCEPT ![s] = t]
    /\ target' = [target EXCEPT ![s] = d]
    /\ candidates' = [candidates EXCEPT ![s] = Selection(t, C, p)]
    /\ Goto(s, "claim")
    /\ UNCHANGED <<stored, rowVars, attempts, accepted, claimed, answered>>

\* INSERT OR IGNORE: a row for the alert may exist, whatever its status.
\* Mutant: failed deliveries are claimed once more.
NewRetrying(s, S) == {i \in S : status[Alert(s, i)] \in {"none", "failed"}}
New(s, S) == {i \in S : status[Alert(s, i)] = "none"}

\* SQLite gives out the largest id of the table plus one, row after row.
LastId(t) == {n \in {0} \cup {id[a] : a \in AlertsOf(t)} : \A a \in AlertsOf(t) : id[a] <= n}

\* Mutant: ids that start at 0.
NewIdFromZero(S, last, i) == last + Cardinality({j \in S : Before(j, i)})
NewId(S, last, i) == last + Cardinality({j \in S : j = i \/ Before(j, i)})

Insert(s, S) == \E last \in LastId(table[s]) :
    LET inserted == {target[s]} \X S IN
    /\ status' = [a \in Alerts |-> IF a \in inserted THEN "sending" ELSE status[a]]
    /\ id' = [a \in Alerts |-> IF a \in inserted THEN NewId(S, last, a[2]) ELSE id[a]]
    /\ old' = [a \in Alerts |-> a \notin inserted /\ old[a]]
    /\ claimed' = [claimed EXCEPT ![s] = [i \in Items |-> IF i \in S THEN NewId(S, last, i) ELSE 0]]

\* The claims of deliver_ntfy_for_job, in one transaction.
ClaimAll(s) ==
    /\ pc[s] = "claim" /\ table[s] = "ordinary"
    /\ candidates[s] \subseteq stored
    /\ Insert(s, New(s, candidates[s]))
    /\ candidates' = [candidates EXCEPT ![s] = {}]
    /\ Goto(s, "post")
    /\ UNCHANGED <<stored, ghostVars, table, target, answered>>

\* The next claim of deliver_arxiv_pushes; an alert with a row is skipped.
ClaimNext(s) == \E i \in First(candidates[s]) :
    /\ pc[s] = "claim" /\ table[s] = "arxiv"
    /\ i \in stored
    /\ Insert(s, New(s, {i}))
    /\ candidates' = [candidates EXCEPT ![s] = @ \ {i}]
    /\ Goto(s, IF New(s, {i}) = {} THEN "claim" ELSE "post")
    /\ UNCHANGED <<stored, ghostVars, table, target, answered>>

\* A candidate was deleted meanwhile: its row would violate a foreign key,
\* which OR IGNORE does not ignore.  The transaction is rolled back and the
\* call ends; the job that made it goes on.
ClaimRaises(s) ==
    /\ pc[s] = "claim"
    /\ IF table[s] = "ordinary" THEN ~(candidates[s] \subseteq stored)
       ELSE ~(First(candidates[s]) \subseteq stored)
    /\ Leave(s, "done")
    /\ UNCHANGED <<stored, rowVars, ghostVars, table, target, claimed>>

Pending(s) == {i \in Items : claimed[s][i] # 0}

\* The server takes the alert or not; a success is answered only if it did,
\* and may still be lost on its way.
Post(s, taken, success) == \E i \in First(Pending(s)) :
    /\ pc[s] = "post"
    /\ success => taken
    /\ attempts' = [attempts EXCEPT ![Alert(s, i)] = @ + 1]
    /\ accepted' = IF taken THEN accepted \cup {Alert(s, i)} ELSE accepted
    /\ answered' = [answered EXCEPT ![s] = success]
    /\ Goto(s, "record")
    /\ UNCHANGED <<stored, rowVars, lapsed, table, target, candidates, claimed>>

\* UPDATE ... WHERE id: the row may be gone, with its entry.
\* Mutant: a failure is not written.
WriteSuccess(s, i, outcome) ==
    status' = [a \in Alerts |->
        IF a \in AlertsOf(table[s]) /\ id[a] = claimed[s][i] /\ outcome = "delivered"
        THEN outcome ELSE status[a]]
Write(s, i, outcome) ==
    status' = [a \in Alerts |->
        IF a \in AlertsOf(table[s]) /\ id[a] = claimed[s][i] THEN outcome ELSE status[a]]

\* A success that cannot be written is written as a failure.  The next
\* alert is one of the claimed ones, or of the candidates.
\* Mutant: any answer counts as a success.
RecordAnything(s, outcome) == \E i \in First(Pending(s)) :
    /\ pc[s] = "record"
    /\ Write(s, i, outcome)
    /\ claimed' = [claimed EXCEPT ![s][i] = 0]
    /\ answered' = [answered EXCEPT ![s] = FALSE]
    /\ Goto(s, IF table[s] = "arxiv" THEN "claim" ELSE "post")
    /\ UNCHANGED <<stored, id, old, ghostVars, table, target, candidates>>
Record(s, outcome) == \E i \in First(Pending(s)) :
    /\ pc[s] = "record"
    /\ outcome = "delivered" => answered[s]
    /\ Write(s, i, outcome)
    /\ claimed' = [claimed EXCEPT ![s][i] = 0]
    /\ answered' = [answered EXCEPT ![s] = FALSE]
    /\ Goto(s, IF table[s] = "arxiv" THEN "claim" ELSE "post")
    /\ UNCHANGED <<stored, id, old, ghostVars, table, target, candidates>>

\* The outcome could not be written (the database stays locked): the call
\* ends, and its rows wait for a recovery.
RecordRaises(s) ==
    /\ pc[s] = "record"
    /\ Leave(s, "done")
    /\ UNCHANGED <<stored, rowVars, ghostVars, table, target, claimed>>

Finish(s) ==
    /\ \/ pc[s] = "post" /\ Pending(s) = {}
       \/ pc[s] = "claim" /\ table[s] = "arxiv" /\ candidates[s] = {}
    /\ Leave(s, "done")
    /\ UNCHANGED <<stored, rowVars, ghostVars, table, target, claimed>>

Crash(s) ==
    /\ Alive(s)
    /\ Leave(s, "dead")
    /\ UNCHANGED <<stored, rowVars, ghostVars, table, target, claimed>>

SenderStep(s) ==
    \/ \E t \in Tables, C \in SUBSET Items, p \in PolicyChoices, d \in Destinations :
            Begin(s, t, C, p, d)
    \/ ClaimAll(s) \/ ClaimNext(s) \/ ClaimRaises(s)
    \/ \E taken, success \in BOOLEAN : Post(s, taken, success)
    \/ \E outcome \in {"delivered", "failed"} : Record(s, outcome)
    \/ RecordRaises(s) \/ Finish(s) \/ Crash(s)

-----------------------------------------------------------------------------
(***************************************************************************)
(* Everything else that writes the rows, and time.                         *)
(***************************************************************************)
\* Fifteen minutes pass after a claim; a sender may still be at it, for its
\* list holds up to 20 alerts of up to a minute each.
RowAges(a) ==
    /\ status[a] = "sending" /\ ~old[a]
    /\ old' = [old EXCEPT ![a] = TRUE]
    /\ UNCHANGED <<stored, status, id, ghostVars, senderVars>>

\* reconcile_interrupted_state, which asks for no lease here and compares
\* texts: the plugin writes the hour of a claim after a blank, the limit has
\* a "T" there, so a claim of the limit's own day counts as older than it.
\* Mutants: it knows the first table only, or does not look at the status.
InterruptedOrdinary(sameDay) == {a \in AlertsOf("ordinary") : status[a] = "sending" /\ old[a]}
InterruptedAny(sameDay) == {a \in Alerts : status[a] # "none" /\ (old[a] \/ a \in sameDay)}
Interrupted(sameDay) == {a \in Alerts : status[a] = "sending" /\ (old[a] \/ a \in sameDay)}

Reconcile == \E sameDay \in SUBSET AlertsOf("arxiv") :
    /\ Interrupted(sameDay) # {}
    /\ status' = [a \in Alerts |-> IF a \in Interrupted(sameDay) THEN "failed" ELSE status[a]]
    /\ UNCHANGED <<stored, id, old, ghostVars, senderVars>>

\* Entries go, and their rows with them (ON DELETE CASCADE).
Delete(S) ==
    /\ S # {} /\ S \subseteq stored
    /\ stored' = stored \ S
    /\ status' = [a \in Alerts |-> IF a[2] \in S THEN "none" ELSE status[a]]
    /\ id' = [a \in Alerts |-> IF a[2] \in S THEN 0 ELSE id[a]]
    /\ old' = [a \in Alerts |-> a[2] \notin S /\ old[a]]
    /\ UNCHANGED <<ghostVars, senderVars>>

OutsideStep ==
    \/ \E a \in Alerts : RowAges(a)
    \/ Reconcile
    \/ \E S \in SUBSET Items : Delete(S)

\* No more calls: the one place where the system may rest.
Rest ==
    /\ \A s \in Senders : pc[s] \in {"done", "dead"}
    /\ UNCHANGED vars

Next == (\E s \in Senders : SenderStep(s)) \/ OutsideStep \/ Rest

\* Time passes, and initialize() runs at least with every timer call.
Fairness == (\A a \in Alerts : WF_vars(RowAges(a))) /\ WF_vars(Reconcile)

Spec == Init /\ [][Next]_vars
FairSpec == Spec /\ Fairness

-----------------------------------------------------------------------------
(***************************************************************************)
(* Correctness.                                                            *)
(***************************************************************************)

\* An entry is posted to a destination at most once, also after a failed
\* post, a crash, a recovery, or beside a second sender: a failure is
\* durable and never retried.
PostedOnce == \A a \in Alerts : attempts[a] <= 1

\* A row says delivered only if the server accepted the alert; its id may
\* mislead a sender only when another one has started beside it.
DeliveredWasAccepted ==
    ~lapsed => \A a \in Alerts : status[a] = "delivered" => a \in accepted

\* What was posted stays on record while the entry is stored, and an open
\* row belongs to a sender at work or to one that was interrupted.
SendingHasASender ==
    \A a \in Alerts :
        /\ attempts[a] > 0 /\ a[2] \in stored => status[a] # "none"
        /\ status[a] = "sending" => \E s \in Senders :
            /\ target[s] = a[1] /\ claimed[s][a[2]] # 0
            /\ pc[s] \in {"post", "record", "done", "dead"}

\* An alert that was recorded as delivered is not shown as failed later, by
\* a recovery or by the sender of another one.
DeliveredIsFinal ==
    [][\A a \in Alerts : status[a] = "delivered" /\ a[2] \in stored' /\ ~lapsed
            => status'[a] = "delivered"]_vars

\* NtfyDelivery implements AlertOutbox: an alert is due while a live call has
\* it in its list and has not posted it.
DueOf(s) == IF pc[s] = "post" THEN Pending(s)
            ELSE IF pc[s] = "record" THEN Pending(s) \ First(Pending(s)) ELSE {}
Due == UNION {{target[s]} \X DueOf(s) : s \in Senders}

Outbox == INSTANCE AlertOutbox WITH
    Entries <- Items, row <- status, due <- Due, posts <- attempts, beside <- lapsed

\* Each alert goes its way in this order, whatever crashes, is lost, deleted,
\* recovered or runs beside it: a row, one post, an outcome that is true.
OutboxIsKept == Outbox!OutboxSpec

\* Recovery changes rows only after a grace period, "which keeps a second
\* web worker from mistaking legitimate startup work for a crash" (db.py,
\* reconcile_interrupted_state).  The rows of the arXiv plugin have none.
GraceIsKept ==
    [][UNCHANGED senderVars =>
        \A a \in Alerts : status[a] = "sending" /\ status'[a] = "failed" => old[a]]_vars

\* No alert is shown as being sent for ever.
SendingEnds == \A a \in Alerts : status[a] = "sending" ~> status[a] # "sending"
=============================================================================
