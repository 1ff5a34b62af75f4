----------------------------- MODULE AlertOutbox -----------------------------
(***************************************************************************)
(* What the device alerts promise, without calls, row ids, clocks or       *)
(* settings.  An alert is an entry and a destination.  It is claimed once, *)
(* in a row, before it is posted; it is posted at most once, by whoever    *)
(* claimed it, and an outcome is written after the post.  A row may be     *)
(* failed without a post or an answer, but it becomes delivered only if    *)
(* the server accepted the alert, and then it stays.  Once calls have      *)
(* worked side by side, rows may tell the outcome of another alert; that   *)
(* nothing is posted twice, or without a claim, is promised even then.     *)
(***************************************************************************)
EXTENDS Naturals

CONSTANTS Entries, Destinations

Alerts == Destinations \X Entries

VARIABLES
    stored,    \* the entries
    row,       \* what is on record of an alert: "none", "sending", ...
    due,       \* alerts that were claimed and are still to be posted
    posts,     \* how often an alert was posted
    accepted,  \* the alerts the server accepted
    beside     \* two calls have worked side by side

outboxVars == <<stored, row, due, posts, accepted, beside>>

OutboxInit ==
    /\ stored = Entries
    /\ row = [a \in Alerts |-> "none"]
    /\ due = {} /\ accepted = {}
    /\ posts = [a \in Alerts |-> 0]
    /\ beside = FALSE

Rewrite(A, value) == [a \in Alerts |-> IF a \in A THEN value ELSE row[a]]

Claim(A) ==
    /\ \A a \in A : a[2] \in stored /\ row[a] = "none" /\ posts[a] = 0
    /\ row' = Rewrite(A, "sending")
    /\ due' = due \cup A
    /\ UNCHANGED <<stored, posts, accepted>>

Post(a) ==
    /\ a \in due /\ posts[a] = 0
    /\ due' = due \ {a}
    /\ posts' = [posts EXCEPT ![a] = 1]
    /\ accepted' \in {accepted, accepted \cup {a}}
    /\ UNCHANGED <<stored, row>>

\* A call ends with some alerts unposted.
Abandon(A) ==
    /\ due' = due \ A
    /\ UNCHANGED <<stored, row, posts, accepted>>

Settle(a, outcome) ==
    /\ posts[a] # 0 /\ row[a] \in {"sending", "failed"}
    /\ outcome = "delivered" => a \in accepted
    /\ row' = Rewrite({a}, outcome)
    /\ UNCHANGED <<stored, due, posts, accepted>>

GiveUp(A) ==
    /\ \A a \in A : row[a] = "sending"
    /\ row' = Rewrite(A, "failed")
    /\ UNCHANGED <<stored, due, posts, accepted>>

Remove(S) ==
    /\ stored' = stored \ S
    /\ row' = Rewrite({a \in Alerts : a[2] \in S}, "none")
    /\ UNCHANGED <<due, posts, accepted>>

InOrder ==
    \/ \E S \in SUBSET Entries : Remove(S)
    \/ \E a \in Alerts : Post(a) \/ \E outcome \in {"delivered", "failed"} : Settle(a, outcome)
    \/ \E A \in SUBSET Alerts : Claim(A) \/ Abandon(A) \/ GiveUp(A)

\* An outcome reaches the row of another alert.
Mistaken ==
    /\ beside
    /\ row' \in [Alerts -> {"none", "sending", "delivered", "failed"}]
    /\ \A a \in Alerts : row'[a] = "none" <=> row[a] = "none"
    /\ UNCHANGED <<stored, due, posts, accepted>>

OutboxNext == (beside => beside') /\ (InOrder \/ Mistaken)

OutboxSpec == OutboxInit /\ [][OutboxNext]_outboxVars
=============================================================================
