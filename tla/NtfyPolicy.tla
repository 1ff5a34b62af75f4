------------------------------ MODULE NtfyPolicy ------------------------------
(***************************************************************************)
(* Which entries deserve a device alert: the thresholds of ntfy_policy.py  *)
(* by feed, by group and in general, and the cap on the alerts of one job. *)
(*                                                                         *)
(* A policy is what load_ntfy_scope_policy reads from the database; labels *)
(* and titles are left out.  Entries are numbers, as their ids.            *)
(***************************************************************************)
EXTENDS Integers, FiniteSets

CONSTANTS
    Items,        \* the ids of the entries
    Papers,       \* those of the arXiv plugin, whose feeds are plugin://
    Feeds,        \* the ordinary feeds
    Groups,       \* their groups
    None,         \* no parent, no rule, no match
    FeedOf,       \* the feed of an ordinary entry
    GroupOf,      \* the group of a feed
    Parent,       \* the group above a group, or None
    Relevance     \* the relevance (or the llm_score) an entry was given

ASSUME PolicyAssumption ==
    /\ Items \subseteq Nat /\ IsFiniteSet(Items) /\ Papers \subseteq Items
    /\ FeedOf \in [Items \ Papers -> Feeds]
    /\ GroupOf \in [Feeds -> Groups]
    /\ Parent \in [Groups -> Groups \cup {None}]
    /\ None \notin Groups \cup Int
    /\ Relevance \in [Items -> 0 .. 100]

Rules(S) == [S -> (0 .. 100) \cup {None}]

Policies == [mode : {"all", "selected"}, global : 0 .. 100,
             groups : Rules(Groups), feeds : Rules(Feeds)]

\* The n-th group of the walk from a feed to the root, or None beyond it.
GroupAt(f) ==
    LET at[n \in Nat] ==
            IF n = 0 THEN GroupOf[f]
            ELSE IF at[n - 1] = None THEN None ELSE Parent[at[n - 1]]
    IN  at

\* The walk stops at a group it has seen: it makes at most |Groups| steps.
RulesAbove(p, f) ==
    {n \in 0 .. Cardinality(Groups) - 1 :
        GroupAt(f)[n] # None /\ p.groups[GroupAt(f)[n]] # None}

\* The threshold of the rule that is nearest to a feed.
Match(p, f) ==
    IF p.feeds[f] # None THEN p.feeds[f]
    ELSE IF RulesAbove(p, f) # {}
         THEN p.groups[GroupAt(f)[CHOOSE n \in RulesAbove(p, f) :
                                      \A m \in RulesAbove(p, f) : n <= m]]
         ELSE IF p.mode = "all" THEN p.global ELSE None

\* Candidates come with the highest relevance first, then by id.
Before(i, j) == Relevance[i] > Relevance[j] \/ (Relevance[i] = Relevance[j] /\ i < j)

\* The one that comes first, if there is any.
First(S) == {i \in S : \A j \in S \ {i} : Before(i, j)}

Top(S, limit) == {i \in S : Cardinality({j \in S : Before(j, i)}) < limit}

\* filter_ntfy_candidates: the entries of C that pass, up to the cap.
Candidates(p, C, limit) ==
    Top({i \in C : Match(p, FeedOf[i]) # None /\ Relevance[i] >= Match(p, FeedOf[i])}, limit)
=============================================================================
