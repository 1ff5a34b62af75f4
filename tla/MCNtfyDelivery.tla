---------------------------- MODULE MCNtfyDelivery ----------------------------
(***************************************************************************)
(* The instance of NtfyDelivery for TLC: two entries of one ordinary feed  *)
(* below a group, and one paper; senders and destinations are in the cfg.  *)
(***************************************************************************)
EXTENDS NtfyDelivery

MCItems == {1, 2, 3}
MCPapers == {3}
MCFeedOf == [i \in {1, 2} |-> "feed"]
MCGroupOf == [f \in {"feed"} |-> "child"]
MCParent == [g \in {"child", "root"} |-> IF g = "child" THEN "root" ELSE None]
MCRelevance == [i \in MCItems |-> IF i = 1 THEN 70 ELSE 90]

NoFeedRule == [f \in Feeds |-> None]
MCPolicies ==
    {[mode |-> "all", global |-> 60, groups |-> [g \in Groups |-> None], feeds |-> NoFeedRule],
     [mode |-> "selected", global |-> 60, feeds |-> NoFeedRule,
      groups |-> [g \in Groups |-> IF g = "root" THEN 80 ELSE None]]}
=============================================================================
