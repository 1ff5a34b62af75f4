----------------------------- MODULE EntryReview -----------------------------
(***************************************************************************)
(* What the review queue promises about an entry, without rows, jobs,      *)
(* leases or clocks.  A new request takes waiting entries, together; it    *)
(* ends once, and for all of them: with an answer, or giving them back, or *)
(* by dying or failing without a word, after which they may be given back. *)
(* An entry has one request at a time, is answered once, and keeps that    *)
(* answer until it is deleted; a request that has ended takes nothing and  *)
(* answers nothing.  Once a request has outlived its claim (overdue), two  *)
(* may have one entry; what is left then is that an entry with an answer   *)
(* keeps one.                                                              *)
(***************************************************************************)
CONSTANTS Entries, Requests, None

VARIABLES
    stored,  \* the entries
    held,    \* held[e]: the request that has taken e, or None
    answer,  \* answer[e]: the request that answered e, or None
    ended,   \* the requests that are over
    overdue  \* some request has outlived its claim

reviewVars == <<stored, held, answer, ended, overdue>>

ReviewInit ==
    /\ stored = {}
    /\ held = [e \in Entries |-> None]
    /\ answer = [e \in Entries |-> None]
    /\ ended = {}
    /\ overdue = FALSE

HeldBy(r) == {e \in Entries : held[e] = r}

Set(f, S, r) == [e \in Entries |-> IF e \in S THEN r ELSE f[e]]

Arrive(e) ==
    /\ e \notin stored
    /\ stored' = stored \cup {e}
    /\ UNCHANGED <<held, answer, ended>>

\* The id of a deleted entry is as good as new.
Depart(S) ==
    /\ stored' = stored \ S
    /\ held' = Set(held, S, None)
    /\ answer' = Set(answer, S, None)
    /\ UNCHANGED ended

Take(r, S) ==
    /\ r \notin ended /\ \A e \in Entries : r \notin {held[e], answer[e]}
    /\ S # {} /\ S \subseteq stored
    /\ \A e \in S : held[e] = None /\ answer[e] = None
    /\ held' = Set(held, S, r)
    /\ UNCHANGED <<stored, answer, ended>>

Settle(r) ==
    /\ r \notin ended
    /\ held' = Set(held, HeldBy(r), None)
    /\ answer' = Set(answer, HeldBy(r), r)
    /\ ended' = ended \cup {r}
    /\ UNCHANGED stored

Return(r) ==
    /\ r \notin ended
    /\ held' = Set(held, HeldBy(r), None)
    /\ ended' = ended \cup {r}
    /\ UNCHANGED <<stored, answer>>

\* A request is over without a word about its entries.
End(r) ==
    /\ ended' = ended \cup {r}
    /\ UNCHANGED <<stored, held, answer>>

GiveBack(S) ==
    /\ \A e \in S : held[e] \in ended
    /\ held' = Set(held, S, None)
    /\ UNCHANGED <<stored, answer, ended>>

InOrder ==
    \/ \E e \in Entries : Arrive(e)
    \/ \E S \in SUBSET Entries : Depart(S) \/ GiveBack(S)
    \/ \E r \in Requests :
        \/ Settle(r) \/ Return(r) \/ End(r)
        \/ \E S \in SUBSET Entries : Take(r, S)
    \/ UNCHANGED <<stored, held, answer, ended>>

OutOfOrder ==
    /\ overdue'
    /\ ended \subseteq ended'
    /\ \A e \in stored' : answer[e] # None => answer'[e] # None

ReviewNext == (overdue => overdue') /\ (InOrder \/ OutOfOrder)

ReviewSpec == ReviewInit /\ [][ReviewNext]_reviewVars
=============================================================================
