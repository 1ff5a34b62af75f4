-------------------------- MODULE NtfyDeliveryProofs --------------------------
(***************************************************************************)
(* Proofs about NtfyDelivery, for any number of entries, destinations and  *)
(* senders, and any settings: no alert is posted twice, an open delivery   *)
(* row has a sender, and a row tells the truth about an alert unless two   *)
(* senders have worked side by side.  Two sections are about the cap:      *)
(* which entries a cut keeps, that a call posts no more than its cap, and  *)
(* that it ends.  The last one shows that AlertOutbox is implemented.      *)
(***************************************************************************)
EXTENDS NtfyDelivery, FiniteSetTheorems, TLAPS

USE PolicyAssumption, DeliveryAssumption

-----------------------------------------------------------------------------
(***************************************************************************)
(* The order of candidates, and the ids of new rows.                       *)
(***************************************************************************)
\* Before is a strict total order of the entries.
LEMMA BeforeOrders ==
    ASSUME NEW i \in Items, NEW j \in Items, NEW k \in Items
    PROVE  /\ ~(Before(i, j) /\ Before(j, i))
           /\ i # j => Before(i, j) \/ Before(j, i)
           /\ Before(i, j) /\ Before(j, k) => Before(i, k)
<1>1. i \in Nat /\ j \in Nat /\ k \in Nat
  OBVIOUS
<1>2. Relevance[i] \in Int /\ Relevance[j] \in Int /\ Relevance[k] \in Int
  OBVIOUS
<1> QED
  BY <1>1, <1>2 DEF Before

\* So a set of entries has at most one first element.
LEMMA FirstIsOne ==
    ASSUME NEW S \in SUBSET Items, NEW i \in First(S), NEW j \in First(S)
    PROVE  i = j
  BY BeforeOrders DEF First

\* The new ids are larger than all ids of the table, and differ.
LEMMA NewIdsAreNew ==
    ASSUME NEW S \in SUBSET Items, NEW last \in Nat, NEW i \in S
    PROVE  /\ NewId(S, last, i) \in Nat /\ NewId(S, last, i) > last
           /\ \A j \in S : NewId(S, last, i) = NewId(S, last, j) => i = j
<1> DEFINE UpTo(k) == {j \in S : j = k \/ Before(j, k)}
<1>1. ASSUME NEW k \in S
      PROVE  IsFiniteSet(UpTo(k)) /\ Cardinality(UpTo(k)) \in Nat \ {0}
  <2>1. IsFiniteSet(UpTo(k))
    BY FS_Subset
  <2>2. UpTo(k) # {}
    OBVIOUS
  <2> QED
    BY <2>1, <2>2, FS_CardinalityType, FS_EmptySet
<1>2. ASSUME NEW j \in S, NEW k \in S, Before(j, k)
      PROVE  Cardinality(UpTo(j)) # Cardinality(UpTo(k))
  <2>1. UpTo(j) \subseteq UpTo(k)
    BY <1>2, BeforeOrders
  <2>2. k \in UpTo(k) /\ k \notin UpTo(j)
    BY <1>2, BeforeOrders
  <2> QED
    BY <2>1, <2>2, <1>1, FS_Subset
<1>3. ASSUME NEW j \in S, NewId(S, last, i) = NewId(S, last, j)
      PROVE  i = j
  <2>1. Cardinality(UpTo(i)) = Cardinality(UpTo(j))
    BY <1>1, <1>3 DEF NewId
  <2> QED
    BY <2>1, <1>2, BeforeOrders
<1>4. NewId(S, last, i) \in Nat /\ NewId(S, last, i) > last
  BY <1>1 DEF NewId
<1> QED
  BY <1>3, <1>4

-----------------------------------------------------------------------------
(***************************************************************************)
(* Every step keeps the type.                                              *)
(***************************************************************************)
\* What a claim inserts: rows of the alerts of S, with new ids.
LEMMA InsertMakesRows ==
    ASSUME TypeOK, NEW s \in Senders, NEW S \in SUBSET Items, Insert(s, S)
    PROVE  /\ \A i \in Items : claimed'[s][i] # 0 <=> i \in S
           /\ claimed' \in [Senders -> [Items -> Nat]]
           /\ \A r \in Senders \ {s} : claimed'[r] = claimed[r]
           /\ \A i \in S, a \in AlertsOf(table[s]) : id[a] # claimed'[s][i]
           /\ \A i, j \in S : claimed'[s][i] = claimed'[s][j] => i = j
           /\ status' \in [Alerts -> {"none", "sending", "delivered", "failed"}]
           /\ id' \in [Alerts -> Nat] /\ old' \in [Alerts -> BOOLEAN]
           /\ \A a \in Alerts :
                IF a[1] = target[s] /\ a[2] \in S
                THEN status'[a] = "sending" /\ id'[a] = claimed'[s][a[2]]
                ELSE status'[a] = status[a] /\ id'[a] = id[a]
           /\ \A a \in Alerts : id'[a] = 0 <=> status'[a] = "none"
<1>1. PICK last \in LastId(table[s]) :
        LET inserted == {target[s]} \X S IN
        /\ status' = [a \in Alerts |-> IF a \in inserted THEN "sending" ELSE status[a]]
        /\ id' = [a \in Alerts |-> IF a \in inserted THEN NewId(S, last, a[2]) ELSE id[a]]
        /\ old' = [a \in Alerts |-> a \notin inserted /\ old[a]]
        /\ claimed' = [claimed EXCEPT ![s] = [i \in Items |-> IF i \in S THEN NewId(S, last, i) ELSE 0]]
  BY DEF Insert
<1>2. last \in Nat /\ \A a \in AlertsOf(table[s]) : id[a] <= last
  <2>1. \A a \in AlertsOf(table[s]) : id[a] \in Nat
    BY DEF TypeOK, AlertsOf, Owned, Alerts
  <2> QED
    BY <2>1 DEF LastId
<1>3. \A i \in S : NewId(S, last, i) \in Nat /\ NewId(S, last, i) > last
  BY <1>2, NewIdsAreNew
<1>4. \A i, j \in S : NewId(S, last, i) = NewId(S, last, j) => i = j
  BY <1>2, NewIdsAreNew
<1>5. \A a \in Alerts : a \in {target[s]} \X S <=> a[1] = target[s] /\ a[2] \in S
  BY DEF Alerts
<1>6. claimed'[s] = [i \in Items |-> IF i \in S THEN NewId(S, last, i) ELSE 0]
  BY <1>1 DEF TypeOK
<1>7. /\ \A i \in Items : claimed'[s][i] # 0 <=> i \in S
      /\ claimed' \in [Senders -> [Items -> Nat]]
      /\ \A r \in Senders \ {s} : claimed'[r] = claimed[r]
  <2>1. [i \in Items |-> IF i \in S THEN NewId(S, last, i) ELSE 0] \in [Items -> Nat]
    BY <1>3
  <2> QED
    BY <2>1, <1>1, <1>2, <1>3, <1>6 DEF TypeOK
<1>8. \A i \in S, a \in AlertsOf(table[s]) : id[a] # claimed'[s][i]
  <2>1. \A a \in AlertsOf(table[s]) : id[a] \in Nat
    BY DEF TypeOK, AlertsOf, Owned, Alerts
  <2> QED
    BY <2>1, <1>2, <1>3, <1>6
<1>9. \A i, j \in S : claimed'[s][i] = claimed'[s][j] => i = j
  BY <1>4, <1>6
<1>10. \A a \in Alerts :
         IF a[1] = target[s] /\ a[2] \in S
         THEN status'[a] = "sending" /\ id'[a] = claimed'[s][a[2]]
         ELSE status'[a] = status[a] /\ id'[a] = id[a]
  BY <1>1, <1>5, <1>6 DEF TypeOK
<1>11. id' \in [Alerts -> Nat]
  BY <1>1, <1>3, <1>5 DEF TypeOK
<1>12. /\ status' \in [Alerts -> {"none", "sending", "delivered", "failed"}]
       /\ old' \in [Alerts -> BOOLEAN]
  BY <1>1 DEF TypeOK
<1>13. \A a \in Alerts : id'[a] = 0 <=> status'[a] = "none"
  <2> TAKE a \in Alerts
  <2>1. a[2] \in Items
    BY DEF Alerts
  <2>2. CASE a[1] = target[s] /\ a[2] \in S
    BY <2>1, <2>2, <1>7, <1>10
  <2>3. CASE ~(a[1] = target[s] /\ a[2] \in S)
    BY <2>3, <1>10 DEF TypeOK
  <2> QED
    BY <2>2, <2>3
<1> QED
  BY <1>7, <1>8, <1>9, <1>10, <1>11, <1>12, <1>13

\* The steps of a sender keep the type.
LEMMA SenderType ==
    ASSUME TypeOK, NEW s \in Senders, SenderStep(s)
    PROVE  TypeOK'
<1> USE DEF TypeOK, Goto, Leave, ghostVars, rowVars, Alive, Alert, Alerts
<1>1. ASSUME NEW t \in Tables, NEW C \in SUBSET Items, NEW p \in PolicyChoices,
             NEW d \in Destinations, Begin(s, t, C, p, d)
      PROVE  TypeOK'
  <2>1. Selection(t, C, p) \subseteq Items
    BY DEF Selection, Top, Candidates
  <2> QED
    BY <1>1, <2>1 DEF Begin
<1>2. CASE ClaimAll(s)
  <2>1. New(s, candidates[s]) \in SUBSET Items
    BY DEF New
  <2>2. Insert(s, New(s, candidates[s]))
    BY <1>2 DEF ClaimAll
  <2> QED
    BY <1>2, <2>1, <2>2, InsertMakesRows DEF ClaimAll
<1>3. CASE ClaimNext(s)
  <2>1. PICK i \in First(candidates[s]) :
          /\ pc[s] = "claim"
          /\ Insert(s, New(s, {i}))
          /\ candidates' = [candidates EXCEPT ![s] = @ \ {i}]
          /\ Goto(s, IF New(s, {i}) = {} THEN "claim" ELSE "post")
          /\ UNCHANGED <<stored, ghostVars, table, target, answered>>
    BY <1>3 DEF ClaimNext
  <2>2. New(s, {i}) \in SUBSET Items
    BY DEF New, First
  <2>3. /\ pc' \in [Senders -> {"new", "claim", "post", "record", "done", "dead"}]
        /\ candidates' \in [Senders -> SUBSET Items]
        /\ \A r \in Senders : pc'[r] # "new" => target'[r] \in Destinations
    BY <2>1
  <2> QED
    BY <2>1, <2>2, <2>3, InsertMakesRows
<1>4. CASE ClaimRaises(s)
  BY <1>4 DEF ClaimRaises
<1>5. ASSUME NEW taken \in BOOLEAN, NEW success \in BOOLEAN, Post(s, taken, success)
      PROVE  TypeOK'
  <2>1. First(Pending(s)) \subseteq Items
    BY DEF First, Pending
  <2> QED
    BY <1>5, <2>1 DEF Post
<1>6. ASSUME NEW outcome \in {"delivered", "failed"}, Record(s, outcome)
      PROVE  TypeOK'
  <2>1. PICK i \in First(Pending(s)) :
          /\ pc[s] = "record"
          /\ Write(s, i, outcome)
          /\ claimed' = [claimed EXCEPT ![s][i] = 0]
          /\ answered' = [answered EXCEPT ![s] = FALSE]
          /\ Goto(s, IF table[s] = "arxiv" THEN "claim" ELSE "post")
          /\ UNCHANGED <<stored, id, old, ghostVars, table, target, candidates>>
    BY <1>6 DEF Record
  <2>2. i \in Items /\ claimed[s][i] # 0
    BY DEF First, Pending
  <2>3. claimed' \in [Senders -> [Items -> Nat]]
    BY <2>1, <2>2
  <2>4. /\ status' \in [Alerts -> {"none", "sending", "delivered", "failed"}]
        /\ \A a \in Alerts : id[a] = 0 <=> status'[a] = "none"
    BY <2>1, <2>2 DEF Write
  <2> QED
    BY <2>1, <2>3, <2>4
<1>7. CASE RecordRaises(s)
  BY <1>7 DEF RecordRaises
<1>8. CASE Finish(s)
  BY <1>8 DEF Finish
<1>9. CASE Crash(s)
  BY <1>9 DEF Crash
<1> QED
  BY <1>1, <1>2, <1>3, <1>4, <1>5, <1>6, <1>7, <1>8, <1>9 DEF SenderStep

\* So do time, recoveries and deletions.
LEMMA OutsideType ==
    ASSUME TypeOK, OutsideStep
    PROVE  TypeOK'
<1> USE DEF TypeOK, ghostVars, senderVars
<1>1. ASSUME NEW a \in Alerts, RowAges(a)
      PROVE  TypeOK'
  BY <1>1 DEF RowAges
<1>2. CASE Reconcile
  BY <1>2 DEF Reconcile, Interrupted
<1>3. ASSUME NEW S \in SUBSET Items, Delete(S)
      PROVE  TypeOK'
  BY <1>3 DEF Delete
<1> QED
  BY <1>1, <1>2, <1>3 DEF OutsideStep

\* Every reachable state has its type: in particular a delivery row has an
\* id exactly when it exists, and a sender a destination once it has begun.
THEOREM DeliveryTypeCorrect == Spec => []TypeOK
<1>1. Init => TypeOK
  <2> SUFFICES ASSUME Init
               PROVE  TypeOK
    OBVIOUS
  <2>1. claimed \in [Senders -> [Items -> Nat]]
    BY DEF Init
  <2>2. table \in [Senders -> Tables]
    BY DEF Init, Tables
  <2>3. /\ status \in [Alerts -> {"none", "sending", "delivered", "failed"}]
        /\ id \in [Alerts -> Nat] /\ old \in [Alerts -> BOOLEAN]
        /\ \A a \in Alerts : id[a] = 0 <=> status[a] = "none"
        /\ attempts \in [Alerts -> Nat] /\ accepted \subseteq Alerts
    BY DEF Init
  <2> QED
    BY <2>1, <2>2, <2>3 DEF Init, TypeOK
<1>2. TypeOK /\ [Next]_vars => TypeOK'
  <2>1. ASSUME TypeOK, UNCHANGED vars
        PROVE  TypeOK'
    BY <2>1 DEF TypeOK, vars, rowVars, ghostVars, senderVars
  <2> QED
    BY <2>1, SenderType, OutsideType DEF Next, Rest
<1> QED
  BY <1>1, <1>2, PTL DEF Spec

-----------------------------------------------------------------------------
(***************************************************************************)
(* The inductive invariant behind PostedOnce and SendingHasASender.        *)
(***************************************************************************)
\* A row exists for what was posted and for what is claimed, with the id
\* that the claim remembers, until the entry is deleted.
OnRecord ==
    /\ \A a \in Alerts : attempts[a] # 0 /\ a[2] \in stored => status[a] # "none"
    /\ \A s \in Senders, i \in Items : claimed[s][i] # 0 =>
        /\ i \in stored => status[Alert(s, i)] # "none"
        /\ status[Alert(s, i)] # "none" => id[Alert(s, i)] = claimed[s][i]

\* What a sender has still to post was not posted by anybody.
NotYetPosted ==
    \A s \in Senders : \A i \in Pending(s) :
        /\ pc[s] = "post" => attempts[Alert(s, i)] = 0
        /\ pc[s] = "record" /\ i \notin First(Pending(s)) => attempts[Alert(s, i)] = 0

\* No two senders ever claimed one alert; a sender claims in its own table,
\* the arXiv sender one alert at a time.
ClaimsDiffer ==
    /\ \A r, s \in Senders : r # s /\ target[r] = target[s] => Pending(r) \cap Pending(s) = {}
    /\ \A s \in Senders :
        /\ pc[s] = "new" => Pending(s) = {}
        /\ candidates[s] \cup Pending(s) \subseteq Owned(table[s])
        /\ table[s] = "arxiv" /\ pc[s] \in {"post", "record"} =>
            \A i, j \in Pending(s) : i = j

DeliveryInv == PostedOnce /\ OnRecord /\ NotYetPosted /\ ClaimsDiffer /\ SendingHasASender

\* Reading settings and entries keeps it.
LEMMA BeginKeeps ==
    ASSUME TypeOK, DeliveryInv, NEW s \in Senders, NEW t \in Tables, NEW C \in SUBSET Items,
           NEW p \in PolicyChoices, NEW d \in Destinations, Begin(s, t, C, p, d)
    PROVE  DeliveryInv'
<1> USE DEF Begin, rowVars
<1>1. PostedOnce'
  BY DEF DeliveryInv, PostedOnce
<1>2. \A r \in Senders : Pending(r)' = Pending(r)
  BY DEF Pending
<1>3. \A r \in Senders \ {s} :
        pc'[r] = pc[r] /\ table'[r] = table[r] /\ target'[r] = target[r] /\ candidates'[r] = candidates[r]
  BY DEF TypeOK, Goto
<1>4. pc[s] = "new" /\ Pending(s) = {} /\ \A i \in Items : claimed[s][i] = 0
  BY DEF DeliveryInv, ClaimsDiffer, Pending
<1>5. candidates'[s] \subseteq Owned(table'[s])
  BY DEF TypeOK, Selection, Top, Candidates
<1>6. OnRecord'
  BY <1>3, <1>4 DEF DeliveryInv, OnRecord, Alert
<1>7. NotYetPosted'
  BY <1>2, <1>3, <1>4 DEF DeliveryInv, NotYetPosted, Alert
<1>8. ClaimsDiffer'
  <2>1. pc'[s] = "claim"
    BY DEF TypeOK, Goto
  <2> QED
    BY <2>1, <1>2, <1>3, <1>4, <1>5 DEF DeliveryInv, ClaimsDiffer
<1>9. SendingHasASender'
  <2>1. \A a \in Alerts : a[2] \in Items
    BY DEF Alerts
  <2> QED
    BY <2>1, <1>3, <1>4 DEF DeliveryInv, SendingHasASender
<1> QED
  BY <1>1, <1>6, <1>7, <1>8, <1>9 DEF DeliveryInv

\* New rows keep it: their alerts were never posted nor claimed before.
LEMMA InsertKeeps ==
    ASSUME TypeOK, DeliveryInv, NEW s \in Senders, NEW S \in SUBSET Items,
           Insert(s, S), pc[s] = "claim",
           S \subseteq stored \cap candidates[s], \A i \in S : status[Alert(s, i)] = "none",
           \/ table[s] = "ordinary" /\ pc' = [pc EXCEPT ![s] = "post"]
           \/ table[s] = "arxiv" /\ (\A i, j \in S : i = j)
              /\ pc' = [pc EXCEPT ![s] = IF S = {} THEN "claim" ELSE "post"],
           candidates' \in [Senders -> SUBSET Items], candidates'[s] \subseteq candidates[s],
           \A r \in Senders \ {s} : candidates'[r] = candidates[r],
           UNCHANGED <<stored, ghostVars, table, target, answered>>
    PROVE  DeliveryInv'
<1> USE DEF ghostVars
<1>1. /\ \A i \in Items : claimed'[s][i] # 0 <=> i \in S
      /\ \A r \in Senders \ {s} : claimed'[r] = claimed[r]
      /\ \A a \in Alerts :
           IF a[1] = target[s] /\ a[2] \in S
           THEN status'[a] = "sending" /\ id'[a] = claimed'[s][a[2]]
           ELSE status'[a] = status[a] /\ id'[a] = id[a]
  BY InsertMakesRows
<1>2. Pending(s)' = S /\ \A r \in Senders \ {s} : Pending(r)' = Pending(r)
  <2>1. Pending(s)' = S
    <3>1. \A i \in Items : claimed'[s][i] # 0 <=> i \in S
      BY <1>1
    <3>2. \A i : i \in Pending(s)' <=> i \in Items /\ claimed'[s][i] # 0
      BY DEF Pending
    <3> QED
      BY <3>1, <3>2
  <2>2. ASSUME NEW r \in Senders \ {s}
        PROVE  Pending(r)' = Pending(r)
    <3>1. claimed'[r] = claimed[r]
      BY <1>1
    <3> QED
      BY <3>1 DEF Pending
  <2> QED
    BY <2>1, <2>2
<1>3. \A r \in Senders \ {s} : pc'[r] = pc[r]
  BY DEF TypeOK
<1>4. target[s] \in Destinations /\ \A i \in Items : Alert(s, i) \in Alerts
  BY DEF TypeOK, Alert, Alerts
<1>5. \A i \in S : attempts[Alert(s, i)] = 0
  BY <1>4 DEF DeliveryInv, OnRecord, TypeOK, Alert
<1>6. \A r \in Senders \ {s} : target[r] = target[s] => Pending(r) \cap S = {}
  <2>1. ASSUME NEW r \in Senders, target[r] = target[s], NEW i \in Pending(r), i \in S
        PROVE  FALSE
    <3>1. i \in Items /\ claimed[r][i] # 0
      BY <2>1 DEF Pending
    <3>2. i \in stored
      BY <2>1
    <3>3. status[<<target[r], i>>] # "none"
      BY <3>1, <3>2 DEF DeliveryInv, OnRecord, Alert
    <3> QED
      BY <2>1, <3>3 DEF Alert
  <2> QED
    BY <2>1
<1>7. PostedOnce'
  BY DEF DeliveryInv, PostedOnce
<1>8. OnRecord'
  <2>1. \A a \in Alerts : attempts'[a] # 0 /\ a[2] \in stored' => status'[a] # "none"
    BY <1>1 DEF DeliveryInv, OnRecord
  <2>2. ASSUME NEW r \in Senders, NEW i \in Items, claimed'[r][i] # 0
        PROVE  /\ i \in stored => status'[<<target[r], i>>] # "none"
               /\ status'[<<target[r], i>>] # "none" => id'[<<target[r], i>>] = claimed'[r][i]
    <3>1. CASE r = s
      BY <2>2, <3>1, <1>1, <1>4 DEF Alert
    <3>2. CASE r # s
      <4>1. claimed[r][i] # 0 /\ pc[r] # "new"
        BY <2>2, <3>2, <1>1 DEF DeliveryInv, ClaimsDiffer, Pending
      <4>2. <<target[r], i>> \in Alerts
        BY <4>1 DEF TypeOK, Alerts
      <4>3. ~(target[r] = target[s] /\ i \in S)
        BY <4>1, <3>2, <1>6 DEF Pending
      <4> QED
        BY <4>1, <4>2, <4>3, <3>2, <1>1 DEF DeliveryInv, OnRecord, Alert
    <3> QED
      BY <3>1, <3>2
  <2> QED
    BY <2>1, <2>2 DEF OnRecord, Alert
<1>9. NotYetPosted'
  <2>1. ASSUME NEW r \in Senders, NEW i \in Pending(r)'
        PROVE  /\ pc'[r] = "post" => attempts[<<target[r], i>>] = 0
               /\ pc'[r] = "record" /\ i \notin First(Pending(r)') =>
                    attempts[<<target[r], i>>] = 0
    <3>1. CASE r = s
      BY <2>1, <3>1, <1>2, <1>5 DEF Alert
    <3>2. CASE r # s
      BY <2>1, <3>2, <1>2, <1>3 DEF DeliveryInv, NotYetPosted, Alert
    <3> QED
      BY <3>1, <3>2
  <2> QED
    BY <2>1 DEF NotYetPosted, Alert, First
<1>10. ClaimsDiffer'
  <2>1. \A r, q \in Senders : r # q /\ target[r] = target[q] => Pending(r)' \cap Pending(q)' = {}
    BY <1>2, <1>6 DEF DeliveryInv, ClaimsDiffer
  <2>2. \A r \in Senders : candidates'[r] \cup Pending(r)' \subseteq Owned(table[r])
    BY <1>2 DEF DeliveryInv, ClaimsDiffer
  <2>3. ASSUME NEW r \in Senders
        PROVE  /\ pc'[r] = "new" => Pending(r)' = {}
               /\ table[r] = "arxiv" /\ pc'[r] \in {"post", "record"} =>
                    \A i, j \in Pending(r)' : i = j
    <3>1. CASE r = s
      BY <3>1, <1>2 DEF TypeOK
    <3>2. CASE r # s
      BY <3>2, <1>2, <1>3 DEF DeliveryInv, ClaimsDiffer
    <3> QED
      BY <3>1, <3>2
  <2> QED
    BY <2>1, <2>2, <2>3 DEF ClaimsDiffer
<1>11. SendingHasASender'
  <2>1. ASSUME NEW a \in Alerts
        PROVE  attempts'[a] > 0 /\ a[2] \in stored' => status'[a] # "none"
    BY <1>1 DEF DeliveryInv, SendingHasASender
  <2>2. ASSUME NEW a \in Alerts, status'[a] = "sending"
        PROVE  \E r \in Senders : /\ target'[r] = a[1] /\ claimed'[r][a[2]] # 0
                                  /\ pc'[r] \in {"post", "record", "done", "dead"}
    <3>1. a[2] \in Items
      BY DEF Alerts
    <3>2. CASE a[1] = target[s] /\ a[2] \in S
      <4>1. pc'[s] = "post"
        BY <3>2 DEF TypeOK
      <4> QED
        BY <4>1, <3>1, <3>2, <1>1
    <3>3. CASE ~(a[1] = target[s] /\ a[2] \in S)
      <4>1. PICK r \in Senders : /\ target[r] = a[1] /\ claimed[r][a[2]] # 0
                                 /\ pc[r] \in {"post", "record", "done", "dead"}
        BY <2>2, <3>3, <1>1 DEF DeliveryInv, SendingHasASender
      <4> QED
        BY <4>1, <1>1, <1>3
    <3> QED
      BY <3>2, <3>3
  <2> QED
    BY <2>1, <2>2 DEF SendingHasASender
<1> QED
  BY <1>7, <1>8, <1>9, <1>10, <1>11 DEF DeliveryInv

\* So both ways to claim keep it.
LEMMA ClaimKeeps ==
    ASSUME TypeOK, DeliveryInv, NEW s \in Senders, ClaimAll(s) \/ ClaimNext(s)
    PROVE  DeliveryInv'
<1>1. CASE ClaimAll(s)
  <2>1. /\ Insert(s, New(s, candidates[s])) /\ pc[s] = "claim" /\ table[s] = "ordinary"
        /\ New(s, candidates[s]) \subseteq stored \cap candidates[s]
        /\ \A i \in New(s, candidates[s]) : status[Alert(s, i)] = "none"
        /\ pc' = [pc EXCEPT ![s] = "post"]
        /\ UNCHANGED <<stored, ghostVars, table, target, answered>>
    BY <1>1 DEF ClaimAll, New, Goto
  <2>2. New(s, candidates[s]) \in SUBSET Items
    BY DEF New, TypeOK
  <2>3. /\ candidates' \in [Senders -> SUBSET Items] /\ candidates'[s] \subseteq candidates[s]
        /\ \A r \in Senders \ {s} : candidates'[r] = candidates[r]
    BY <1>1 DEF ClaimAll, TypeOK
  <2> QED
    BY <2>1, <2>2, <2>3, InsertKeeps
<1>2. CASE ClaimNext(s)
  <2>1. PICK i \in First(candidates[s]) :
          /\ pc[s] = "claim" /\ table[s] = "arxiv"
          /\ i \in stored
          /\ Insert(s, New(s, {i}))
          /\ candidates' = [candidates EXCEPT ![s] = @ \ {i}]
          /\ Goto(s, IF New(s, {i}) = {} THEN "claim" ELSE "post")
          /\ UNCHANGED <<stored, ghostVars, table, target, answered>>
    BY <1>2 DEF ClaimNext
  <2>2. /\ New(s, {i}) \in SUBSET Items
        /\ New(s, {i}) \subseteq stored \cap candidates[s]
        /\ \A j \in New(s, {i}) : status[Alert(s, j)] = "none"
        /\ \A j, k \in New(s, {i}) : j = k
    BY <2>1 DEF New, First, TypeOK
  <2>3. /\ candidates' \in [Senders -> SUBSET Items] /\ candidates'[s] \subseteq candidates[s]
        /\ \A r \in Senders \ {s} : candidates'[r] = candidates[r]
    BY <2>1 DEF TypeOK
  <2>4. pc' = [pc EXCEPT ![s] = IF New(s, {i}) = {} THEN "claim" ELSE "post"]
    BY <2>1 DEF Goto
  <2> QED
    BY <2>1, <2>2, <2>3, <2>4, InsertKeeps
<1> QED
  BY <1>1, <1>2

\* Leaving keeps it: the rows stay with the sender that is gone.
LEMMA LeaveKeeps ==
    ASSUME TypeOK, DeliveryInv, NEW s \in Senders,
           pc[s] \in {"claim", "post", "record"},
           NEW label \in {"done", "dead"}, Leave(s, label),
           UNCHANGED <<stored, rowVars, ghostVars, table, target, claimed>>
    PROVE  DeliveryInv'
<1> USE DEF rowVars, ghostVars, Leave, Goto
<1>1. \A r \in Senders : Pending(r)' = Pending(r)
  BY DEF Pending
<1>2. pc'[s] = label /\ candidates'[s] = {}
  BY DEF TypeOK
<1>3. \A r \in Senders \ {s} : pc'[r] = pc[r] /\ candidates'[r] = candidates[r]
  BY DEF TypeOK
<1>4. PostedOnce' /\ OnRecord'
  BY DEF DeliveryInv, PostedOnce, OnRecord, Alert
<1>5. NotYetPosted'
  BY <1>1, <1>2, <1>3 DEF DeliveryInv, NotYetPosted, Alert
<1>6. ClaimsDiffer'
  BY <1>1, <1>2, <1>3 DEF DeliveryInv, ClaimsDiffer
<1>7. SendingHasASender'
  BY <1>2, <1>3 DEF DeliveryInv, SendingHasASender
<1> QED
  BY <1>4, <1>5, <1>6, <1>7 DEF DeliveryInv

\* A post keeps it: the alert was on record and is nobody else's.
LEMMA PostKeeps ==
    ASSUME TypeOK, DeliveryInv, NEW s \in Senders, NEW taken \in BOOLEAN,
           NEW success \in BOOLEAN, Post(s, taken, success)
    PROVE  DeliveryInv'
<1> USE DEF rowVars, Goto
<1>1. PICK i \in First(Pending(s)) :
        /\ pc[s] = "post"
        /\ attempts' = [attempts EXCEPT ![Alert(s, i)] = @ + 1]
        /\ pc' = [pc EXCEPT ![s] = "record"]
        /\ UNCHANGED <<stored, rowVars, lapsed, table, target, candidates, claimed>>
  BY DEF Post
<1>2. i \in Items /\ i \in Pending(s) /\ claimed[s][i] # 0
  BY DEF First, Pending
<1>3. Alert(s, i) \in Alerts /\ attempts[Alert(s, i)] = 0
  BY <1>1, <1>2 DEF DeliveryInv, NotYetPosted, TypeOK, Alert, Alerts
<1>4. /\ attempts'[Alert(s, i)] = 1
      /\ \A a \in Alerts : a # Alert(s, i) => attempts'[a] = attempts[a]
  BY <1>1, <1>3 DEF TypeOK
<1>5. \A r \in Senders : Pending(r)' = Pending(r)
  BY <1>1 DEF Pending
<1>6. pc'[s] = "record" /\ \A r \in Senders \ {s} : pc'[r] = pc[r]
  BY <1>1 DEF TypeOK
<1>7. PostedOnce'
  BY <1>4 DEF DeliveryInv, PostedOnce
<1>8. OnRecord'
  <2>1. i \in stored => status[Alert(s, i)] # "none"
    BY <1>2 DEF DeliveryInv, OnRecord
  <2>2. Alert(s, i)[2] = i
    BY DEF Alert
  <2>3. \A a \in Alerts : attempts'[a] # 0 /\ a[2] \in stored => status[a] # "none"
    BY <2>1, <2>2, <1>4 DEF DeliveryInv, OnRecord
  <2> QED
    BY <2>3, <1>1 DEF DeliveryInv, OnRecord, Alert
<1>9. NotYetPosted'
  <2>1. ASSUME NEW r \in Senders, NEW j \in Pending(r),
               pc'[r] = "post" \/ (pc'[r] = "record" /\ j \notin First(Pending(r)))
        PROVE  attempts'[<<target[r], j>>] = 0
    <3>1. j \in Items /\ pc[r] # "new"
      BY <2>1, <1>1, <1>6 DEF Pending
    <3>2. <<target[r], j>> \in Alerts
      BY <3>1 DEF TypeOK, Alerts
    <3>3. attempts[<<target[r], j>>] = 0
      BY <2>1, <1>1, <1>6 DEF DeliveryInv, NotYetPosted, Alert
    <3>4. <<target[r], j>> # Alert(s, i)
      <4>1. CASE r = s
        BY <4>1, <2>1, <1>6, <1>1 DEF Alert
      <4>2. CASE r # s
        BY <4>2, <2>1, <1>2 DEF DeliveryInv, ClaimsDiffer, Alert
      <4> QED
        BY <4>1, <4>2
    <3> QED
      BY <3>2, <3>3, <3>4, <1>4
  <2> QED
    BY <2>1, <1>1, <1>5 DEF NotYetPosted, Alert, First
<1>10. ClaimsDiffer'
  BY <1>1, <1>5, <1>6 DEF DeliveryInv, ClaimsDiffer
<1>11. SendingHasASender'
  <2>1. i \in stored => status[Alert(s, i)] # "none"
    BY <1>2 DEF DeliveryInv, OnRecord
  <2>2. Alert(s, i)[2] = i
    BY DEF Alert
  <2> QED
    BY <2>1, <2>2, <1>1, <1>4, <1>6 DEF DeliveryInv, SendingHasASender
<1> QED
  BY <1>7, <1>8, <1>9, <1>10, <1>11 DEF DeliveryInv

\* Recording an outcome keeps it: the row that a sender updates is its own,
\* or one that took over the id of its deleted row.
LEMMA RecordKeeps ==
    ASSUME TypeOK, DeliveryInv, NEW s \in Senders, NEW outcome \in {"delivered", "failed"},
           Record(s, outcome)
    PROVE  DeliveryInv'
<1> USE DEF ghostVars
<1>1. PICK i \in First(Pending(s)) :
        /\ pc[s] = "record"
        /\ Write(s, i, outcome)
        /\ claimed' = [claimed EXCEPT ![s][i] = 0]
        /\ pc' = [pc EXCEPT ![s] = IF table[s] = "arxiv" THEN "claim" ELSE "post"]
        /\ UNCHANGED <<stored, id, old, ghostVars, table, target, candidates>>
  BY DEF Record, Goto
<1>2. i \in Items /\ i \in Pending(s) /\ claimed[s][i] # 0
  BY DEF First, Pending
<1>3. /\ claimed'[s][i] = 0
      /\ \A j \in Items \ {i} : claimed'[s][j] = claimed[s][j]
      /\ \A r \in Senders \ {s} : claimed'[r] = claimed[r]
  BY <1>1, <1>2 DEF TypeOK
<1>4. Pending(s)' = Pending(s) \ {i}
  <2>1. \A j : j \in Pending(s)' <=> j \in Items /\ claimed'[s][j] # 0
    BY DEF Pending
  <2> QED
    BY <2>1, <1>2, <1>3 DEF Pending
<1>5. ASSUME NEW r \in Senders \ {s}
      PROVE  Pending(r)' = Pending(r)
  <2>1. claimed'[r] = claimed[r]
    BY <1>3
  <2> QED
    BY <2>1 DEF Pending
<1>6. /\ pc'[s] = IF table[s] = "arxiv" THEN "claim" ELSE "post"
      /\ \A r \in Senders \ {s} : pc'[r] = pc[r]
  BY <1>1 DEF TypeOK
<1>7. \A a \in Alerts :
        /\ status'[a] = "none" <=> status[a] = "none"
        /\ status'[a] = "sending" =>
            status[a] = "sending" /\ ~(a \in AlertsOf(table[s]) /\ id[a] = claimed[s][i])
  BY <1>1, <1>2 DEF Write, TypeOK
<1>8. PostedOnce'
  BY <1>1 DEF DeliveryInv, PostedOnce
<1>9. OnRecord'
  <2>1. \A a \in Alerts : attempts[a] # 0 /\ a[2] \in stored => status'[a] # "none"
    BY <1>7 DEF DeliveryInv, OnRecord
  <2>2. ASSUME NEW r \in Senders, NEW j \in Items, claimed'[r][j] # 0
        PROVE  /\ j \in stored => status'[<<target[r], j>>] # "none"
               /\ status'[<<target[r], j>>] # "none" => id[<<target[r], j>>] = claimed'[r][j]
    <3>1. claimed'[r][j] = claimed[r][j]
      BY <2>2, <1>3
    <3>2. pc[r] # "new"
      BY <2>2, <3>1 DEF DeliveryInv, ClaimsDiffer, Pending
    <3>3. <<target[r], j>> \in Alerts
      BY <3>2 DEF TypeOK, Alerts
    <3> QED
      BY <2>2, <3>1, <3>3, <1>7 DEF DeliveryInv, OnRecord, Alert
  <2> QED
    BY <2>1, <2>2, <1>1 DEF OnRecord, Alert
<1>10. NotYetPosted'
  <2>1. ASSUME NEW r \in Senders, NEW j \in Pending(r)',
               pc'[r] = "post" \/ (pc'[r] = "record" /\ j \notin First(Pending(r)'))
        PROVE  attempts[<<target[r], j>>] = 0
    <3>1. CASE r = s
      <4>1. j \in Pending(s) /\ j # i
        BY <2>1, <3>1, <1>4
      <4>2. j \notin First(Pending(s))
        BY <4>1, FirstIsOne DEF Pending
      <4> QED
        BY <4>1, <4>2, <3>1, <1>1 DEF DeliveryInv, NotYetPosted, Alert
    <3>2. CASE r # s
      BY <2>1, <3>2, <1>5, <1>6 DEF DeliveryInv, NotYetPosted, Alert
    <3> QED
      BY <3>1, <3>2
  <2> QED
    BY <2>1, <1>1 DEF NotYetPosted, Alert, First
<1>11. ClaimsDiffer'
  <2>1. \A r \in Senders : Pending(r)' \subseteq Pending(r)
    BY <1>4, <1>5
  <2>2. \A r \in Senders : pc'[r] \in {"new", "record"} => pc'[r] = pc[r] /\ r # s
    BY <1>6
  <2>3. \A r \in Senders : pc'[r] = "post" => pc[r] = "post" \/ pc[r] = "record"
    BY <1>1, <1>6
  <2>4. \A r, q \in Senders : r # q /\ target[r] = target[q] => Pending(r)' \cap Pending(q)' = {}
    BY <2>1 DEF DeliveryInv, ClaimsDiffer
  <2>5. ASSUME NEW r \in Senders
        PROVE  /\ pc'[r] = "new" => Pending(r)' = {}
               /\ candidates[r] \cup Pending(r)' \subseteq Owned(table[r])
               /\ table[r] = "arxiv" /\ pc'[r] \in {"post", "record"} =>
                    \A j, k \in Pending(r)' : j = k
    BY <2>1, <2>2, <2>3 DEF DeliveryInv, ClaimsDiffer
  <2> QED
    BY <2>4, <2>5, <1>1 DEF ClaimsDiffer
<1>12. SendingHasASender'
  <2>1. \A a \in Alerts : attempts[a] > 0 /\ a[2] \in stored => status'[a] # "none"
    BY <1>7 DEF DeliveryInv, SendingHasASender
  <2>2. ASSUME NEW a \in Alerts, status'[a] = "sending"
        PROVE  \E r \in Senders : /\ target[r] = a[1] /\ claimed'[r][a[2]] # 0
                                  /\ pc'[r] \in {"post", "record", "done", "dead"}
    <3>1. PICK r \in Senders : /\ target[r] = a[1] /\ claimed[r][a[2]] # 0
                               /\ pc[r] \in {"post", "record", "done", "dead"}
      BY <2>2, <1>7 DEF DeliveryInv, SendingHasASender
    <3>2. a[2] \in Items /\ a = <<a[1], a[2]>>
      BY DEF Alerts
    <3>3. CASE r # s
      BY <3>1, <3>2, <3>3, <1>3, <1>6
    <3>4. CASE r = s
      <4>1. a[2] \in Pending(s) /\ a \in AlertsOf(table[s])
        <5>1. a[2] \in Pending(s)
          BY <3>1, <3>2, <3>4 DEF Pending
        <5> QED
          BY <5>1, <3>2 DEF DeliveryInv, ClaimsDiffer, AlertsOf, Alerts
      <4>2. id[a] = claimed[s][a[2]]
        BY <3>1, <3>2, <3>4, <2>2, <1>7 DEF DeliveryInv, OnRecord, Alert
      <4>3. a[2] # i
        BY <4>1, <4>2, <2>2, <1>7
      <4>4. table[s] # "arxiv"
        BY <4>1, <4>3, <1>1, <1>2 DEF DeliveryInv, ClaimsDiffer
      <4> QED
        BY <4>3, <4>4, <3>1, <3>2, <3>4, <1>3, <1>6
    <3> QED
      BY <3>3, <3>4
  <2> QED
    BY <2>1, <2>2, <1>1 DEF SendingHasASender
<1> QED
  BY <1>8, <1>9, <1>10, <1>11, <1>12 DEF DeliveryInv

\* Time, recoveries and deletions keep it.
LEMMA OutsideKeeps ==
    ASSUME TypeOK, DeliveryInv, OutsideStep
    PROVE  DeliveryInv'
<1> USE DEF ghostVars, senderVars
<1>1. UNCHANGED <<ghostVars, senderVars>>
  BY DEF OutsideStep, RowAges, Reconcile, Delete
<1>2. \A r \in Senders : Pending(r)' = Pending(r)
  BY <1>1 DEF Pending
<1> DEFINE RowsShrink ==
      /\ stored' \subseteq stored
      /\ \A a \in Alerts :
          /\ a[2] \in stored' => (status'[a] = "none" <=> status[a] = "none")
          /\ status'[a] # "none" => status[a] # "none" /\ id'[a] = id[a]
          /\ status'[a] = "sending" => status[a] = "sending"
<1>3. RowsShrink
  <2>1. ASSUME NEW a \in Alerts, RowAges(a)
        PROVE  RowsShrink
    BY <2>1 DEF RowAges
  <2>2. CASE Reconcile
    BY <2>2 DEF Reconcile, Interrupted
  <2>3. ASSUME NEW S \in SUBSET Items, Delete(S)
        PROVE  RowsShrink
    BY <2>3 DEF Delete, TypeOK
  <2> QED
    BY <2>1, <2>2, <2>3 DEF OutsideStep
<1>4. PostedOnce' /\ NotYetPosted' /\ ClaimsDiffer'
  BY <1>1, <1>2 DEF DeliveryInv, PostedOnce, NotYetPosted, ClaimsDiffer, Alert, First
<1>5. OnRecord'
  <2>1. \A a \in Alerts : attempts[a] # 0 /\ a[2] \in stored' => status'[a] # "none"
    BY <1>3 DEF DeliveryInv, OnRecord
  <2>2. ASSUME NEW r \in Senders, NEW j \in Items, claimed[r][j] # 0
        PROVE  /\ j \in stored' => status'[<<target[r], j>>] # "none"
               /\ status'[<<target[r], j>>] # "none" => id'[<<target[r], j>>] = claimed[r][j]
    <3>1. pc[r] # "new"
      BY <2>2 DEF DeliveryInv, ClaimsDiffer, Pending
    <3>2. <<target[r], j>> \in Alerts /\ <<target[r], j>>[2] = j
      BY <3>1 DEF TypeOK, Alerts
    <3> QED
      BY <2>2, <3>2, <1>3 DEF DeliveryInv, OnRecord, Alert
  <2> QED
    BY <2>1, <2>2, <1>1 DEF OnRecord, Alert
<1>6. SendingHasASender'
  BY <1>1, <1>3 DEF DeliveryInv, SendingHasASender
<1> QED
  BY <1>4, <1>5, <1>6 DEF DeliveryInv

\* The invariant: what is on record, what is still to be posted, and whose
\* the open rows are.
THEOREM DeliveryInvariant == Spec => [](TypeOK /\ DeliveryInv)
<1>1. Init => DeliveryInv
  BY DEF Init, DeliveryInv, PostedOnce, OnRecord, NotYetPosted, ClaimsDiffer,
         SendingHasASender, Pending, Alert, Alerts
<1>2. TypeOK /\ DeliveryInv /\ [Next]_vars => DeliveryInv'
  <2>1. ASSUME TypeOK, DeliveryInv, UNCHANGED vars
        PROVE  DeliveryInv'
    BY <2>1 DEF vars, rowVars, ghostVars, senderVars, DeliveryInv, PostedOnce, OnRecord,
                NotYetPosted, ClaimsDiffer, SendingHasASender, Pending, Alert, First
  <2>2. ASSUME TypeOK, DeliveryInv, NEW s \in Senders, SenderStep(s)
        PROVE  DeliveryInv'
    <3>1. CASE ClaimRaises(s)
      BY <2>2, <3>1, LeaveKeeps DEF ClaimRaises
    <3>2. CASE RecordRaises(s)
      BY <2>2, <3>2, LeaveKeeps DEF RecordRaises
    <3>3. CASE Finish(s)
      BY <2>2, <3>3, LeaveKeeps DEF Finish
    <3>4. CASE Crash(s)
      BY <2>2, <3>4, LeaveKeeps DEF Crash, Alive
    <3> QED
      BY <2>2, <3>1, <3>2, <3>3, <3>4, BeginKeeps, ClaimKeeps, PostKeeps, RecordKeeps
         DEF SenderStep
  <2> QED
    BY <2>1, <2>2, OutsideKeeps DEF Next, Rest
<1> QED
  BY <1>1, <1>2, DeliveryTypeCorrect, PTL DEF Spec

\* No alert is posted twice to one destination, whatever fails, crashes,
\* recovers or runs side by side.
THEOREM AlertsAreNotRepeated == Spec => []PostedOnce
<1>1. DeliveryInv => PostedOnce
  BY DEF DeliveryInv
<1> QED
  BY <1>1, DeliveryInvariant, PTL

\* What was posted stays on record, and an open row has a sender.
THEOREM AlertsAreAccountedFor == Spec => []SendingHasASender
<1>1. DeliveryInv => SendingHasASender
  BY DEF DeliveryInv
<1> QED
  BY <1>1, DeliveryInvariant, PTL

-----------------------------------------------------------------------------
(***************************************************************************)
(* What a row says is true, as long as one sender works at a time: ids of  *)
(* deleted rows are given out again, and only the lease keeps a sender     *)
(* from updating a row that another one has inserted under such an id.     *)
(***************************************************************************)
Alone == \A r, s \in Senders : Alive(r) /\ Alive(s) => r = s

\* The ids that a sender remembers lead to its own rows, which say nothing
\* of a delivery yet.
OwnRows ==
    \A s \in Senders : pc[s] \in {"post", "record"} => \A i \in Pending(s) :
        /\ \A a \in AlertsOf(table[s]) : id[a] = claimed[s][i] => a = Alert(s, i)
        /\ status[Alert(s, i)] # "delivered"

SuccessMeansAccepted ==
    \A s \in Senders : pc[s] = "record" /\ answered[s] =>
        \A i \in First(Pending(s)) : Alert(s, i) \in accepted

TruthInv ==
    /\ ~lapsed => Alone /\ OwnRows
    /\ SuccessMeansAccepted
    /\ DeliveredWasAccepted

\* Steps that touch neither rows nor claims keep it.
LEMMA TruthElsewhere ==
    ASSUME TypeOK, DeliveryInv, TruthInv, NEW s \in Senders,
           UNCHANGED <<stored, rowVars, accepted, claimed>>,
           \A r \in Senders \ {s} : /\ pc'[r] = pc[r] /\ table'[r] = table[r]
                                    /\ target'[r] = target[r] /\ answered'[r] = answered[r],
           \/ /\ pc[s] = "new" /\ pc'[s] = "claim"
              /\ lapsed' = (lapsed \/ \E r \in Senders : Alive(r))
           \/ /\ pc'[s] \in {"done", "dead"} /\ lapsed' = lapsed
    PROVE  TruthInv'
<1> USE DEF rowVars
<1>1. \A r \in Senders : Pending(r)' = Pending(r)
  BY DEF Pending
<1>2. ~lapsed' => ~lapsed /\ Alone'
  BY DEF TruthInv, Alone, Alive
<1>3. ~lapsed' => OwnRows'
  BY <1>1, <1>2 DEF TruthInv, OwnRows, Alert
<1>4. SuccessMeansAccepted'
  BY <1>1 DEF TruthInv, SuccessMeansAccepted, Alert, First
<1>5. DeliveredWasAccepted'
  BY <1>2 DEF TruthInv, DeliveredWasAccepted
<1> QED
  BY <1>2, <1>3, <1>4, <1>5 DEF TruthInv

\* New rows keep it: nobody else is at work, and their ids are new.
LEMMA TruthOfClaims ==
    ASSUME TypeOK, DeliveryInv, TruthInv, NEW s \in Senders, NEW S \in SUBSET Items,
           Insert(s, S), pc[s] = "claim", S \subseteq Owned(table[s]),
           pc'[s] \in {"claim", "post"}, \A r \in Senders \ {s} : pc'[r] = pc[r],
           UNCHANGED <<stored, ghostVars, table, target, answered>>
    PROVE  TruthInv'
<1> USE DEF ghostVars
<1>1. /\ \A i \in Items : claimed'[s][i] # 0 <=> i \in S
      /\ \A r \in Senders \ {s} : claimed'[r] = claimed[r]
      /\ \A i \in S, a \in AlertsOf(table[s]) : id[a] # claimed'[s][i]
      /\ \A i, j \in S : claimed'[s][i] = claimed'[s][j] => i = j
      /\ \A a \in Alerts :
           IF a[1] = target[s] /\ a[2] \in S
           THEN status'[a] = "sending" /\ id'[a] = claimed'[s][a[2]]
           ELSE status'[a] = status[a] /\ id'[a] = id[a]
  BY InsertMakesRows
<1>2. ~lapsed => Alone'
  BY DEF TruthInv, Alone, Alive
<1>3. \A a \in Alerts : status'[a] = "delivered" => status[a] = "delivered"
  BY <1>1
<1>4. ASSUME ~lapsed
      PROVE  OwnRows'
  <2>1. ASSUME NEW r \in Senders, pc'[r] \in {"post", "record"}, NEW i \in Items,
               claimed'[r][i] # 0
        PROVE  /\ \A a \in AlertsOf(table[r]) : id'[a] = claimed'[r][i] => a = <<target[r], i>>
               /\ status'[<<target[r], i>>] # "delivered"
    <3>1. r = s
      BY <2>1, <1>4 DEF TruthInv, Alone, Alive
    <3>2. i \in S /\ target[s] \in Destinations
      BY <2>1, <3>1, <1>1 DEF TypeOK
    <3>3. <<target[s], i>> \in Alerts
      BY <3>2 DEF Alerts
    <3>4. status'[<<target[s], i>>] = "sending"
      BY <3>2, <3>3, <1>1
    <3>5. ASSUME NEW a \in AlertsOf(table[s]), id'[a] = claimed'[s][i]
          PROVE  a = <<target[s], i>>
      <4>1. a \in Alerts /\ a = <<a[1], a[2]>>
        BY DEF AlertsOf, Alerts, Owned
      <4>2. a[1] = target[s] /\ a[2] \in S
        BY <4>1, <3>2, <3>5, <1>1
      <4>3. a[2] = i
        BY <4>1, <4>2, <3>2, <3>5, <1>1
      <4> QED
        BY <4>1, <4>2, <4>3
    <3> QED
      BY <3>1, <3>4, <3>5
  <2> QED
    BY <2>1 DEF OwnRows, Pending, Alert, AlertsOf
<1>5. SuccessMeansAccepted'
  <2>1. \A r \in Senders \ {s} : Pending(r)' = Pending(r)
    BY <1>1 DEF Pending
  <2>2. pc'[s] # "record"
    OBVIOUS
  <2> QED
    BY <2>1, <2>2 DEF TruthInv, SuccessMeansAccepted, Alert, First
<1>6. DeliveredWasAccepted'
  BY <1>3 DEF TruthInv, DeliveredWasAccepted
<1> QED
  BY <1>2, <1>4, <1>5, <1>6 DEF TruthInv

\* So does a post, whatever its answer.
LEMMA TruthOfPosts ==
    ASSUME TypeOK, DeliveryInv, TruthInv, NEW s \in Senders, NEW taken \in BOOLEAN,
           NEW success \in BOOLEAN, Post(s, taken, success)
    PROVE  TruthInv'
<1>1. PICK i \in First(Pending(s)) :
        /\ pc[s] = "post" /\ (success => taken)
        /\ accepted' = IF taken THEN accepted \cup {Alert(s, i)} ELSE accepted
        /\ answered' = [answered EXCEPT ![s] = success]
        /\ pc' = [pc EXCEPT ![s] = "record"]
        /\ UNCHANGED <<stored, rowVars, lapsed, table, target, candidates, claimed>>
  BY DEF Post, Goto
<1>2. \A r \in Senders : Pending(r)' = Pending(r)
  BY <1>1 DEF Pending
<1>3. pc'[s] = "record" /\ \A r \in Senders \ {s} : pc'[r] = pc[r]
  BY <1>1 DEF TypeOK
<1>4. ~lapsed => Alone' /\ OwnRows'
  BY <1>1, <1>2, <1>3 DEF TruthInv, Alone, Alive, OwnRows, Alert, rowVars, AlertsOf
<1>5. SuccessMeansAccepted'
  <2>1. ASSUME NEW r \in Senders, pc'[r] = "record", answered'[r], NEW j \in First(Pending(r))
        PROVE  <<target[r], j>> \in accepted'
    <3>1. CASE r = s
      <4>1. success
        BY <2>1, <3>1, <1>1 DEF TypeOK
      <4>2. j = i
        BY <2>1, <3>1, FirstIsOne DEF Pending
      <4> QED
        BY <4>1, <4>2, <3>1, <1>1 DEF Alert
    <3>2. CASE r # s
      <4>1. answered[r] /\ pc[r] = "record"
        BY <2>1, <3>2, <1>1, <1>3 DEF TypeOK
      <4> QED
        BY <2>1, <4>1, <1>1 DEF TruthInv, SuccessMeansAccepted, Alert
    <3> QED
      BY <3>1, <3>2
  <2> QED
    BY <2>1, <1>1, <1>2 DEF SuccessMeansAccepted, Alert, First
<1>6. DeliveredWasAccepted'
  BY <1>1 DEF TruthInv, DeliveredWasAccepted, rowVars
<1> QED
  BY <1>1, <1>4, <1>5, <1>6 DEF TruthInv

\* A recorded outcome changes one row, the sender's own; a success is
\* written for an alert that was accepted, a failure over no success.
LEMMA RecordIsTrue ==
    ASSUME TypeOK, DeliveryInv, TruthInv, ~lapsed, NEW s \in Senders,
           NEW outcome \in {"delivered", "failed"}, Record(s, outcome), NEW a \in Alerts,
           status'[a] # status[a]
    PROVE  status[a] # "delivered" /\ (status'[a] = "delivered" => a \in accepted)
<1>1. PICK i \in First(Pending(s)) :
        pc[s] = "record" /\ (outcome = "delivered" => answered[s]) /\ Write(s, i, outcome)
  BY DEF Record
<1>2. i \in Pending(s)
  BY DEF First
<1>3. a \in AlertsOf(table[s]) /\ id[a] = claimed[s][i] /\ status'[a] = outcome
  BY <1>1 DEF Write, TypeOK
<1>4. a = Alert(s, i) /\ status[a] # "delivered"
  BY <1>1, <1>2, <1>3 DEF TruthInv, OwnRows
<1>5. outcome = "delivered" => a \in accepted
  BY <1>1, <1>4 DEF TruthInv, SuccessMeansAccepted
<1> QED
  BY <1>3, <1>4, <1>5

\* So it keeps the invariant.
LEMMA TruthOfRecords ==
    ASSUME TypeOK, DeliveryInv, TruthInv, NEW s \in Senders,
           NEW outcome \in {"delivered", "failed"}, Record(s, outcome)
    PROVE  TruthInv'
<1> USE DEF ghostVars
<1>1. PICK i \in First(Pending(s)) :
        /\ pc[s] = "record"
        /\ Write(s, i, outcome)
        /\ claimed' = [claimed EXCEPT ![s][i] = 0]
        /\ answered' = [answered EXCEPT ![s] = FALSE]
        /\ pc' = [pc EXCEPT ![s] = IF table[s] = "arxiv" THEN "claim" ELSE "post"]
        /\ UNCHANGED <<stored, id, old, ghostVars, table, target, candidates>>
  BY DEF Record, Goto
<1>2. i \in Items /\ i \in Pending(s)
  BY DEF First, Pending
<1>3. /\ pc'[s] \in {"claim", "post"} /\ ~answered'[s]
      /\ \A r \in Senders \ {s} : pc'[r] = pc[r] /\ answered'[r] = answered[r]
  BY <1>1 DEF TypeOK
<1>4. /\ claimed'[s][i] = 0
      /\ \A j \in Items \ {i} : claimed'[s][j] = claimed[s][j]
      /\ \A r \in Senders \ {s} : claimed'[r] = claimed[r]
  BY <1>1, <1>2 DEF TypeOK
<1>5. ~lapsed => Alone'
  BY <1>1, <1>3 DEF TruthInv, Alone, Alive
<1>6. ASSUME ~lapsed
      PROVE  OwnRows'
  <2>1. ASSUME NEW r \in Senders, pc'[r] \in {"post", "record"}, NEW j \in Items,
               claimed'[r][j] # 0
        PROVE  /\ \A a \in AlertsOf(table[r]) : id[a] = claimed'[r][j] => a = <<target[r], j>>
               /\ status'[<<target[r], j>>] # "delivered"
    <3>1. r = s
      BY <2>1, <1>1, <1>3, <1>6 DEF TruthInv, Alone, Alive
    <3>2. j # i /\ claimed[s][j] = claimed'[s][j] /\ j \in Pending(s)
      BY <2>1, <3>1, <1>4 DEF Pending
    <3>3. /\ \A a \in AlertsOf(table[s]) : id[a] = claimed[s][j] => a = <<target[s], j>>
          /\ \A a \in AlertsOf(table[s]) : id[a] = claimed[s][i] => a = <<target[s], i>>
          /\ status[<<target[s], j>>] # "delivered"
      BY <3>2, <1>1, <1>2, <1>6 DEF TruthInv, OwnRows, Alert
    <3>4. <<target[s], j>> \in Alerts
      BY <1>1 DEF TypeOK, Alerts
    <3>5. status'[<<target[s], j>>] = status[<<target[s], j>>]
      BY <3>2, <3>3, <3>4, <1>1 DEF Write
    <3> QED
      BY <3>1, <3>2, <3>3, <3>5
  <2> QED
    BY <2>1, <1>1 DEF OwnRows, Pending, Alert, AlertsOf
<1>7. SuccessMeansAccepted'
  <2>1. ASSUME NEW r \in Senders \ {s}
        PROVE  Pending(r)' = Pending(r)
    <3>1. claimed'[r] = claimed[r]
      BY <1>4
    <3> QED
      BY <3>1 DEF Pending
  <2> QED
    BY <2>1, <1>1, <1>3 DEF TruthInv, SuccessMeansAccepted, Alert, First
<1>8. DeliveredWasAccepted'
  BY <1>1, RecordIsTrue DEF TruthInv, DeliveredWasAccepted
<1> QED
  BY <1>1, <1>5, <1>6, <1>7, <1>8 DEF TruthInv

\* Time, recoveries and deletions keep it.
LEMMA TruthOutside ==
    ASSUME TypeOK, DeliveryInv, TruthInv, OutsideStep
    PROVE  TruthInv'
<1> USE DEF ghostVars, senderVars
<1>1. UNCHANGED <<ghostVars, senderVars>>
  BY DEF OutsideStep, RowAges, Reconcile, Delete
<1>2. \A r \in Senders : Pending(r)' = Pending(r)
  BY <1>1 DEF Pending
<1>3. \A a \in Alerts :
        /\ status'[a] = "delivered" => status[a] = "delivered"
        /\ id'[a] # 0 => id'[a] = id[a]
  BY DEF OutsideStep, RowAges, Reconcile, Delete, TypeOK
<1>4. ASSUME ~lapsed
      PROVE  OwnRows'
  <2>1. ASSUME NEW s \in Senders, pc[s] \in {"post", "record"}, NEW i \in Pending(s)
        PROVE  /\ \A a \in AlertsOf(table[s]) : id'[a] = claimed[s][i] => a = <<target[s], i>>
               /\ status'[<<target[s], i>>] # "delivered"
    <3>1. /\ \A a \in AlertsOf(table[s]) : id[a] = claimed[s][i] => a = <<target[s], i>>
          /\ status[<<target[s], i>>] # "delivered" /\ claimed[s][i] # 0
      BY <2>1, <1>4 DEF TruthInv, OwnRows, Alert, Pending
    <3>2. <<target[s], i>> \in Alerts /\ AlertsOf(table[s]) \subseteq Alerts
      BY <2>1 DEF TypeOK, Alerts, AlertsOf, Owned, Pending
    <3> QED
      BY <3>1, <3>2, <1>3
  <2> QED
    BY <2>1, <1>1, <1>2 DEF OwnRows, Alert, AlertsOf
<1>5. SuccessMeansAccepted' /\ (~lapsed => Alone')
  BY <1>1, <1>2 DEF TruthInv, SuccessMeansAccepted, Alone, Alive, Alert, First
<1>6. DeliveredWasAccepted'
  BY <1>1, <1>3 DEF TruthInv, DeliveredWasAccepted
<1> QED
  BY <1>1, <1>4, <1>5, <1>6 DEF TruthInv

\* The invariant: ids lead a lone sender to its own rows.
THEOREM RowsAreTrue == Spec => []TruthInv
<1>1. Init => TruthInv
  BY DEF Init, TruthInv, Alone, OwnRows, SuccessMeansAccepted, DeliveredWasAccepted, Alive, Alerts
<1>2. TypeOK /\ DeliveryInv /\ TruthInv /\ [Next]_vars => TruthInv'
  <2>1. ASSUME TypeOK, TruthInv, UNCHANGED vars
        PROVE  TruthInv'
    BY <2>1 DEF vars, rowVars, ghostVars, senderVars, TruthInv, Alone, OwnRows,
                SuccessMeansAccepted, DeliveredWasAccepted, Alive, Pending, Alert, First, AlertsOf
  <2>2. ASSUME TypeOK, DeliveryInv, TruthInv, NEW s \in Senders, SenderStep(s)
        PROVE  TruthInv'
    <3> USE DEF Goto, Leave, ghostVars, rowVars
    <3>1. ASSUME NEW t \in Tables, NEW C \in SUBSET Items, NEW p \in PolicyChoices,
                 NEW d \in Destinations, Begin(s, t, C, p, d)
          PROVE  TruthInv'
      <4>1. /\ pc[s] = "new" /\ pc'[s] = "claim"
            /\ lapsed' = (lapsed \/ \E r \in Senders : Alive(r))
            /\ UNCHANGED <<stored, rowVars, accepted, claimed>>
            /\ \A r \in Senders \ {s} : /\ pc'[r] = pc[r] /\ table'[r] = table[r]
                                        /\ target'[r] = target[r] /\ answered'[r] = answered[r]
        BY <2>2, <3>1 DEF Begin, TypeOK
      <4> QED
        BY <2>2, <4>1, TruthElsewhere
    <3>2. CASE ClaimAll(s)
      <4>1. /\ New(s, candidates[s]) \in SUBSET Items
            /\ New(s, candidates[s]) \subseteq Owned(table[s])
        BY <2>2 DEF New, TypeOK, DeliveryInv, ClaimsDiffer
      <4>2. pc'[s] = "post" /\ \A r \in Senders \ {s} : pc'[r] = pc[r]
        BY <2>2, <3>2 DEF ClaimAll, TypeOK
      <4> QED
        BY <2>2, <3>2, <4>1, <4>2, TruthOfClaims DEF ClaimAll
    <3>3. CASE ClaimNext(s)
      <4>1. PICK i \in First(candidates[s]) :
              /\ pc[s] = "claim"
              /\ Insert(s, New(s, {i}))
              /\ pc' = [pc EXCEPT ![s] = IF New(s, {i}) = {} THEN "claim" ELSE "post"]
              /\ UNCHANGED <<stored, ghostVars, table, target, answered>>
        BY <3>3 DEF ClaimNext
      <4>2. New(s, {i}) \in SUBSET Items /\ New(s, {i}) \subseteq Owned(table[s])
        BY <2>2 DEF New, First, TypeOK, DeliveryInv, ClaimsDiffer
      <4>3. pc'[s] \in {"claim", "post"} /\ \A r \in Senders \ {s} : pc'[r] = pc[r]
        BY <2>2, <4>1 DEF TypeOK
      <4> QED
        BY <2>2, <4>1, <4>2, <4>3, TruthOfClaims
    <3>4. CASE ClaimRaises(s) \/ RecordRaises(s) \/ Finish(s) \/ Crash(s)
      <4>1. /\ pc'[s] \in {"done", "dead"}
            /\ UNCHANGED <<stored, rowVars, ghostVars, table, target, claimed>>
            /\ \A r \in Senders \ {s} : pc'[r] = pc[r] /\ answered'[r] = answered[r]
        BY <2>2, <3>4 DEF ClaimRaises, RecordRaises, Finish, Crash, TypeOK
      <4> QED
        BY <2>2, <4>1, TruthElsewhere
    <3> QED
      BY <2>2, <3>1, <3>2, <3>3, <3>4, TruthOfPosts, TruthOfRecords DEF SenderStep
  <2> QED
    BY <2>1, <2>2, TruthOutside DEF Next, Rest
<1> QED
  BY <1>1, <1>2, DeliveryInvariant, PTL DEF Spec

\* As long as one sender works at a time, only accepted alerts are shown as
\* delivered.
THEOREM DeliveredIsTrue == Spec => []DeliveredWasAccepted
<1>1. TruthInv => DeliveredWasAccepted
  BY DEF TruthInv
<1> QED
  BY <1>1, RowsAreTrue, PTL

\* And they are not shown as failed later.
THEOREM DeliveredStays == Spec => DeliveredIsFinal
<1>1. TypeOK /\ DeliveryInv /\ TruthInv /\ [Next]_vars =>
        [\A a \in Alerts : status[a] = "delivered" /\ a[2] \in stored' /\ ~lapsed
            => status'[a] = "delivered"]_vars
  <2> SUFFICES ASSUME TypeOK, DeliveryInv, TruthInv, Next, NEW a \in Alerts,
                      status[a] = "delivered", a[2] \in stored', ~lapsed
               PROVE  status'[a] = "delivered"
    OBVIOUS
  <2>1. ASSUME NEW s \in Senders, SenderStep(s)
        PROVE  status'[a] = "delivered"
    <3>1. ASSUME NEW S \in SUBSET Items, Insert(s, S), \A i \in S : status[Alert(s, i)] = "none"
          PROVE  status'[a] = "delivered"
      <4>1. a = <<a[1], a[2]>>
        BY DEF Alerts
      <4> QED
        BY <3>1, <4>1, InsertMakesRows DEF Alert
    <3>2. \A S : New(s, S) \subseteq S /\ \A i \in New(s, S) : status[Alert(s, i)] = "none"
      BY DEF New
    <3>3. CASE ClaimAll(s)
      BY <3>1, <3>2, <3>3 DEF ClaimAll, TypeOK
    <3>4. CASE ClaimNext(s)
      BY <3>1, <3>2, <3>4 DEF ClaimNext, First, TypeOK
    <3>5. ASSUME NEW outcome \in {"delivered", "failed"}, Record(s, outcome)
          PROVE  status'[a] = "delivered"
      BY <3>5, RecordIsTrue
    <3> QED
      BY <2>1, <3>3, <3>4, <3>5
         DEF SenderStep, Begin, ClaimRaises, Post, RecordRaises, Finish, Crash, rowVars
  <2>2. CASE OutsideStep
    BY <2>2 DEF OutsideStep, RowAges, Reconcile, Interrupted, Delete
  <2>3. CASE Rest
    BY <2>3 DEF Rest, vars, rowVars
  <2> QED
    BY <2>1, <2>2, <2>3 DEF Next
<1> QED
  BY <1>1, DeliveryInvariant, RowsAreTrue, PTL DEF Spec, DeliveredIsFinal

-----------------------------------------------------------------------------
(***************************************************************************)
(* The cap.  Top takes the best entries, as many as it may, and a call     *)
(* posts no more alerts than that.                                         *)
(***************************************************************************)
Earlier(S, i) == {j \in S : Before(j, i)}
Later(S, i) == {j \in S : Before(i, j)}

\* An entry that comes earlier has fewer entries before it and more behind.
LEMMA EarlierGrows ==
    ASSUME NEW S \in SUBSET Items, NEW i \in S, NEW j \in S, Before(i, j)
    PROVE  /\ Earlier(S, i) \subseteq Earlier(S, j) /\ i \in Earlier(S, j) \ Earlier(S, i)
           /\ Later(S, j) \subseteq Later(S, i) /\ j \in Later(S, i) \ Later(S, j)
           /\ IsFiniteSet(Earlier(S, i)) /\ IsFiniteSet(Earlier(S, j))
           /\ Cardinality(Earlier(S, i)) \in Nat /\ Cardinality(Earlier(S, j)) \in Nat
           /\ Cardinality(Earlier(S, i)) < Cardinality(Earlier(S, j))
<1>1. /\ Earlier(S, i) \subseteq Earlier(S, j) /\ i \in Earlier(S, j) \ Earlier(S, i)
      /\ Later(S, j) \subseteq Later(S, i) /\ j \in Later(S, i) \ Later(S, j)
  BY BeforeOrders DEF Earlier, Later
<1>2. IsFiniteSet(Earlier(S, i)) /\ IsFiniteSet(Earlier(S, j))
  BY FS_Subset DEF Earlier
<1>3. Cardinality(Earlier(S, i)) \in Nat /\ Cardinality(Earlier(S, j)) \in Nat
  BY <1>2, FS_CardinalityType
<1>4. /\ Cardinality(Earlier(S, i)) <= Cardinality(Earlier(S, j))
      /\ Cardinality(Earlier(S, i)) # Cardinality(Earlier(S, j))
  BY <1>1, <1>2, FS_Subset
<1> QED
  BY <1>1, <1>2, <1>3, <1>4

\* Among finite sets of entries there is always a smallest one.
LEMMA SmallestSet ==
    ASSUME NEW T \in SUBSET (SUBSET Items), T # {}
    PROVE  \E A \in T : \A B \in T : ~(B \subseteq A /\ B # A)
<1>1. T \subseteq FiniteSubsetsOf(Items)
  BY FS_Subset DEF FiniteSubsetsOf
<1>2. PICK A \in T : \A B \in T : <<B, A>> \notin StrictSubsetOrdering(Items)
  BY <1>1, FS_StrictSubsetOrderingWellFounded, WFMin
<1> QED
  BY <1>1, <1>2 DEF StrictSubsetOrdering

\* So a set with an entry in it has a first one,
LEMMA SomeIsFirst ==
    ASSUME NEW S \in SUBSET Items, S # {}
    PROVE  \E i \in S : \A j \in S \ {i} : Before(i, j)
<1> DEFINE T == {Earlier(S, i) : i \in S}
<1>1. T \in SUBSET (SUBSET Items) /\ T # {}
  <2>1. ASSUME NEW i \in S
        PROVE  Earlier(S, i) \in SUBSET Items
    BY DEF Earlier
  <2>2. \A A \in T : A \in SUBSET Items
    BY <2>1
  <2>3. PICK i \in S : TRUE
    OBVIOUS
  <2>4. Earlier(S, i) \in T
    BY <2>3
  <2> HIDE DEF T
  <2> QED
    BY <2>2, <2>4
<1>2. ASSUME NEW A \in T
      PROVE  \E i \in S : A = Earlier(S, i)
  OBVIOUS
<1>3. ASSUME NEW i \in S
      PROVE  Earlier(S, i) \in T
  OBVIOUS
<1> HIDE DEF T
<1>4. PICK A \in T : \A B \in T : ~(B \subseteq A /\ B # A)
  BY <1>1, SmallestSet
<1>5. PICK i \in S : A = Earlier(S, i)
  BY <1>2
<1>6. ASSUME NEW j \in S \ {i}
      PROVE  Before(i, j)
  <2>1. ASSUME Before(j, i)
        PROVE  FALSE
    <3>1. Earlier(S, j) \in T /\ Earlier(S, j) \subseteq A /\ Earlier(S, j) # A
      BY <1>3, <1>5, <2>1, EarlierGrows
    <3> QED
      BY <1>4, <3>1
  <2> QED
    BY <2>1, BeforeOrders
<1> QED
  BY <1>6

\* and a last one.
LEMMA SomeIsLast ==
    ASSUME NEW S \in SUBSET Items, S # {}
    PROVE  \E i \in S : \A j \in S \ {i} : Before(j, i)
<1> DEFINE T == {Later(S, i) : i \in S}
<1>1. T \in SUBSET (SUBSET Items) /\ T # {}
  <2>1. ASSUME NEW i \in S
        PROVE  Later(S, i) \in SUBSET Items
    BY DEF Later
  <2>2. \A A \in T : A \in SUBSET Items
    BY <2>1
  <2>3. PICK i \in S : TRUE
    OBVIOUS
  <2>4. Later(S, i) \in T
    BY <2>3
  <2> HIDE DEF T
  <2> QED
    BY <2>2, <2>4
<1>2. ASSUME NEW A \in T
      PROVE  \E i \in S : A = Later(S, i)
  OBVIOUS
<1>3. ASSUME NEW i \in S
      PROVE  Later(S, i) \in T
  OBVIOUS
<1> HIDE DEF T
<1>4. PICK A \in T : \A B \in T : ~(B \subseteq A /\ B # A)
  BY <1>1, SmallestSet
<1>5. PICK i \in S : A = Later(S, i)
  BY <1>2
<1>6. ASSUME NEW j \in S \ {i}
      PROVE  Before(j, i)
  <2>1. ASSUME Before(i, j)
        PROVE  FALSE
    <3>1. Later(S, j) \in T /\ Later(S, j) \subseteq A /\ Later(S, j) # A
      BY <1>3, <1>5, <2>1, EarlierGrows
    <3> QED
      BY <1>4, <3>1
  <2> QED
    BY <2>1, BeforeOrders
<1> QED
  BY <1>6

\* filter_ntfy_candidates and the arXiv plugin sort their entries and cut the
\* list: what is left is at most the cap, comes before all that was cut off,
\* and nothing is cut off unless the cap is reached.
THEOREM TopIsTheBest ==
    ASSUME NEW S \in SUBSET Items, NEW limit \in Nat
    PROVE  /\ Top(S, limit) \subseteq S /\ IsFiniteSet(Top(S, limit))
           /\ Cardinality(Top(S, limit)) <= limit
           /\ \A i \in Top(S, limit), j \in S \ Top(S, limit) : Before(i, j)
           /\ S \subseteq Top(S, limit) \/ Cardinality(Top(S, limit)) = limit
<1> DEFINE T == Top(S, limit)
<1>1. T = {i \in S : Cardinality(Earlier(S, i)) < limit}
  BY DEF Top, Earlier
<1>2. T \subseteq S /\ IsFiniteSet(T) /\ Cardinality(T) \in Nat
  BY <1>1, FS_Subset, FS_CardinalityType
<1> HIDE DEF T
<1>3. ASSUME NEW i \in S
      PROVE  IsFiniteSet(Earlier(S, i)) /\ Cardinality(Earlier(S, i)) \in Nat
  BY FS_Subset, FS_CardinalityType DEF Earlier
<1>4. ASSUME NEW i \in T, NEW j \in S \ T
      PROVE  Before(i, j)
  <2>1. ASSUME Before(j, i)
        PROVE  FALSE
    <3>1. Cardinality(Earlier(S, j)) < Cardinality(Earlier(S, i))
      BY <1>2, <2>1, EarlierGrows
    <3> QED
      BY <1>1, <1>2, <1>3, <3>1
  <2> QED
    BY <1>2, <2>1, BeforeOrders
<1>5. Cardinality(T) <= limit
  <2>1. CASE T = {}
    BY <2>1, FS_EmptySet
  <2>2. CASE T # {}
    <3>1. PICK i \in T : \A j \in T \ {i} : Before(j, i)
      BY <1>2, <2>2, SomeIsLast
    <3>2. T \ {i} \subseteq Earlier(S, i)
      BY <1>2, <3>1 DEF Earlier
    <3>3. Cardinality(T \ {i}) = Cardinality(T) - 1
      BY <1>2, <3>1, FS_RemoveElement
    <3>4. Cardinality(T \ {i}) <= Cardinality(Earlier(S, i))
      BY <1>2, <1>3, <3>2, FS_Subset
    <3> QED
      BY <1>1, <1>2, <1>3, <3>1, <3>3, <3>4
  <2> QED
    BY <2>1, <2>2
<1>6. ASSUME ~(S \subseteq T)
      PROVE  Cardinality(T) >= limit
  <2>1. PICK i \in S \ T : \A j \in (S \ T) \ {i} : Before(i, j)
    <3>1. S \ T # {} /\ S \ T \in SUBSET Items
      BY <1>6
    <3> QED
      BY <3>1, SomeIsFirst
  <2>2. Earlier(S, i) \subseteq T
    BY <2>1, BeforeOrders DEF Earlier
  <2>3. Cardinality(Earlier(S, i)) <= Cardinality(T)
    BY <1>2, <2>2, FS_Subset
  <2>4. Cardinality(Earlier(S, i)) >= limit
    BY <1>1, <1>3, <2>1
  <2> QED
    BY <1>2, <1>3, <2>1, <2>3, <2>4
<1> QED
  BY <1>2, <1>4, <1>5, <1>6 DEF T

\* What a call may still post: alerts it selected, and those it has claimed.
ToSend(s) == candidates[s] \cup Pending(s)

\* A call that has not begun has nothing to send; afterwards it has at most
\* the cap, and an alert it has claimed is no candidate any more.
Capped(s) ==
    /\ IsFiniteSet(ToSend(s)) /\ Cardinality(ToSend(s)) <= Limit
    /\ pc[s] \in {"post", "record"} => candidates[s] \cap Pending(s) = {}

AllCapped == \A s \in Senders : Capped(s)

\* Nothing is added to what a call sends once it has begun, and what it has
\* posted is taken off before it goes on.
OnlyTakesOff ==
    \A s \in Senders : pc[s] # "new" =>
        /\ ToSend(s)' \subseteq ToSend(s)
        /\ pc[s] = "record" /\ pc'[s] \in {"claim", "post"} => ToSend(s)' # ToSend(s)

\* What a step must do to a call at work.
Shrinks(s) ==
    /\ ToSend(s)' \subseteq ToSend(s)
    /\ pc'[s] \in {"post", "record"} => candidates'[s] \cap Pending(s)' = {}
    /\ pc[s] = "record" /\ pc'[s] \in {"claim", "post"} => ToSend(s)' # ToSend(s)

\* A selection is capped.
LEMMA SelectionIsCapped ==
    ASSUME NEW t \in Tables, NEW C \in SUBSET Items, NEW p
    PROVE  /\ Selection(t, C, p) \in SUBSET Items /\ IsFiniteSet(Selection(t, C, p))
           /\ Cardinality(Selection(t, C, p)) <= Limit
<1>1. ASSUME NEW S \in SUBSET Items
      PROVE  /\ Top(S, Limit) \in SUBSET Items /\ IsFiniteSet(Top(S, Limit))
             /\ Cardinality(Top(S, Limit)) <= Limit
  <2>1. Limit \in Nat
    OBVIOUS
  <2> QED
    BY <2>1, TopIsTheBest
<1> DEFINE A == {i \in C : Relevance[i] >= ArxivThreshold}
           B == {i \in C : Match(p, FeedOf[i]) # None /\ Relevance[i] >= Match(p, FeedOf[i])}
<1>2. A \in SUBSET Items /\ B \in SUBSET Items
  OBVIOUS
<1>3. Selection(t, C, p) = Top(A, Limit) \/ Selection(t, C, p) = Top(B, Limit)
  BY DEF Selection, Candidates
<1> HIDE DEF A, B
<1> QED
  BY <1>1, <1>2, <1>3

\* The claims of a call come from its candidates.
LEMMA ClaimShrinks ==
    ASSUME TypeOK, NEW s \in Senders, ClaimAll(s) \/ ClaimNext(s)
    PROVE  Shrinks(s)
<1>1. CASE ClaimAll(s)
  <2>1. /\ New(s, candidates[s]) \in SUBSET Items /\ New(s, candidates[s]) \subseteq candidates[s]
        /\ Insert(s, New(s, candidates[s])) /\ candidates'[s] = {} /\ pc[s] = "claim"
    BY <1>1 DEF ClaimAll, New, TypeOK
  <2>2. \A i \in Items : claimed'[s][i] # 0 <=> i \in New(s, candidates[s])
    BY <2>1, InsertMakesRows
  <2>3. Pending(s)' \subseteq candidates[s]
    BY <2>1, <2>2 DEF Pending
  <2> QED
    BY <2>1, <2>3 DEF Shrinks, ToSend
<1>2. CASE ClaimNext(s)
  <2>1. PICK i \in First(candidates[s]) :
          /\ Insert(s, New(s, {i})) /\ candidates' = [candidates EXCEPT ![s] = @ \ {i}]
          /\ pc[s] = "claim"
    BY <1>2 DEF ClaimNext
  <2>2. i \in candidates[s] /\ i \in Items
    BY <2>1 DEF First, TypeOK
  <2>3. New(s, {i}) \in SUBSET Items /\ New(s, {i}) \subseteq {i}
    BY <2>2 DEF New
  <2>4. Pending(s)' \subseteq {i}
    <3>1. ASSUME NEW S \in SUBSET Items, Insert(s, S)
          PROVE  \A j \in Items : claimed'[s][j] # 0 <=> j \in S
      BY <3>1, InsertMakesRows
    <3>2. \A j \in Items : claimed'[s][j] # 0 <=> j \in New(s, {i})
      BY <2>1, <2>3, <3>1
    <3> QED
      BY <2>3, <3>2 DEF Pending
  <2>5. candidates'[s] = candidates[s] \ {i}
    BY <2>1 DEF TypeOK
  <2> QED
    BY <2>1, <2>2, <2>4, <2>5 DEF Shrinks, ToSend
<1> QED
  BY <1>1, <1>2

\* A call that has begun sends nothing it did not select.
LEMMA SenderShrinks ==
    ASSUME TypeOK, NEW s \in Senders, Capped(s), SenderStep(s), pc[s] # "new"
    PROVE  Shrinks(s)
<1>1. ASSUME NEW taken \in BOOLEAN, NEW success \in BOOLEAN, Post(s, taken, success)
      PROVE  Shrinks(s)
  <2>1. candidates' = candidates /\ claimed' = claimed /\ pc[s] = "post"
    BY <1>1 DEF Post
  <2> QED
    BY <2>1 DEF Shrinks, Capped, ToSend, Pending
<1>2. ASSUME NEW outcome \in {"delivered", "failed"}, Record(s, outcome)
      PROVE  Shrinks(s)
  <2>1. PICK i \in First(Pending(s)) :
          claimed' = [claimed EXCEPT ![s][i] = 0] /\ candidates' = candidates /\ pc[s] = "record"
    BY <1>2 DEF Record
  <2>2. i \in Pending(s)
    BY <2>1 DEF First
  <2>3. Pending(s)' = Pending(s) \ {i}
    BY <2>1, <2>2 DEF Pending, TypeOK
  <2>4. i \notin candidates[s]
    BY <2>1, <2>2 DEF Capped
  <2> QED
    BY <2>1, <2>2, <2>3, <2>4 DEF Shrinks, Capped, ToSend
<1>3. ASSUME NEW label, Leave(s, label), claimed' = claimed, label \in {"done", "dead"}
      PROVE  Shrinks(s)
  <2>1. pc'[s] = label /\ candidates'[s] = {} /\ Pending(s)' = Pending(s)
    BY <1>3 DEF Leave, Goto, Pending, TypeOK
  <2> QED
    BY <1>3, <2>1 DEF Shrinks, ToSend
<1>4. CASE ClaimRaises(s) \/ RecordRaises(s) \/ Finish(s) \/ Crash(s)
  BY <1>3, <1>4 DEF ClaimRaises, RecordRaises, Finish, Crash
<1>5. ~\E t \in Tables, C \in SUBSET Items, p \in PolicyChoices, d \in Destinations :
            Begin(s, t, C, p, d)
  BY DEF Begin
<1> QED
  BY <1>1, <1>2, <1>4, <1>5, ClaimShrinks DEF SenderStep

\* Other calls, time, recoveries and deletions change nothing of it.
LEMMA OthersKeepSending ==
    ASSUME TypeOK, NEW s \in Senders, [Next]_vars, ~SenderStep(s)
    PROVE  pc'[s] = pc[s] /\ candidates'[s] = candidates[s] /\ claimed'[s] = claimed[s]
<1>1. CASE UNCHANGED vars \/ Rest
  BY <1>1 DEF Rest, vars, senderVars
<1>2. CASE OutsideStep
  BY <1>2 DEF OutsideStep, RowAges, Reconcile, Delete, senderVars
<1>3. ASSUME NEW r \in Senders \ {s}, SenderStep(r)
      PROVE  pc'[s] = pc[s] /\ candidates'[s] = candidates[s] /\ claimed'[s] = claimed[s]
  <2>1. ASSUME NEW t \in Tables, NEW C \in SUBSET Items, NEW p \in PolicyChoices,
               NEW d \in Destinations, Begin(r, t, C, p, d)
        PROVE  pc'[s] = pc[s] /\ candidates'[s] = candidates[s] /\ claimed'[s] = claimed[s]
    BY <1>3, <2>1 DEF Begin, Goto, TypeOK
  <2>2. ASSUME NEW S, Insert(r, S)
        PROVE  claimed'[s] = claimed[s]
    BY <1>3, <2>2 DEF Insert, TypeOK
  <2>3. CASE ClaimAll(r)
    <3>1. claimed'[s] = claimed[s]
      BY <2>2, <2>3 DEF ClaimAll
    <3> QED
      BY <1>3, <2>3, <3>1 DEF ClaimAll, Goto, TypeOK
  <2>4. CASE ClaimNext(r)
    <3>1. claimed'[s] = claimed[s]
      BY <2>2, <2>4 DEF ClaimNext
    <3> QED
      BY <1>3, <2>4, <3>1 DEF ClaimNext, Goto, TypeOK
  <2>5. CASE ClaimRaises(r) \/ RecordRaises(r) \/ Finish(r) \/ Crash(r)
    BY <1>3, <2>5 DEF ClaimRaises, RecordRaises, Finish, Crash, Leave, Goto, TypeOK
  <2>6. CASE \E taken, success \in BOOLEAN : Post(r, taken, success)
    BY <1>3, <2>6 DEF Post, Goto, TypeOK
  <2>7. CASE \E outcome \in {"delivered", "failed"} : Record(r, outcome)
    BY <1>3, <2>7 DEF Record, Goto, TypeOK
  <2> QED
    BY <1>3, <2>1, <2>3, <2>4, <2>5, <2>6, <2>7 DEF SenderStep
<1> QED
  BY <1>1, <1>2, <1>3 DEF Next

\* A call starts with a selection.
LEMMA BeginIsCapped ==
    ASSUME TypeOK, NEW s \in Senders, Pending(s) = {}, SenderStep(s), pc[s] = "new"
    PROVE  Capped(s)'
<1>1. PICK t \in Tables, C \in SUBSET Items, p \in PolicyChoices, d \in Destinations :
            Begin(s, t, C, p, d)
  BY DEF SenderStep, ClaimAll, ClaimNext, ClaimRaises, Post, Record, RecordRaises, Finish, Crash,
     Alive
<1>2. candidates'[s] = Selection(t, C, p) /\ claimed' = claimed /\ pc'[s] = "claim"
  BY <1>1 DEF Begin, Goto, TypeOK
<1>3. ToSend(s)' = Selection(t, C, p)
  BY <1>2 DEF ToSend, Pending
<1> QED
  BY <1>2, <1>3, SelectionIsCapped DEF Capped

\* The cap is kept by all steps.
Unbegun == \A s \in Senders : pc[s] = "new" => candidates[s] = {} /\ Pending(s) = {}

LEMMA NextCapped ==
    ASSUME TypeOK, AllCapped, Unbegun, [Next]_vars
    PROVE  AllCapped' /\ Unbegun' /\ OnlyTakesOff
<1>1. ASSUME NEW s \in Senders
      PROVE  /\ Capped(s)'
             /\ pc'[s] = "new" => candidates'[s] = {} /\ Pending(s)' = {}
             /\ pc[s] # "new" => Shrinks(s)
  <2>1. CASE ~SenderStep(s)
    <3>1. pc'[s] = pc[s] /\ candidates'[s] = candidates[s] /\ Pending(s)' = Pending(s)
      BY <2>1, OthersKeepSending DEF Pending
    <3> QED
      BY <3>1 DEF AllCapped, Unbegun, Capped, ToSend, Shrinks
  <2>2. CASE SenderStep(s) /\ pc[s] = "new"
    <3>1. Capped(s)'
      BY <2>2, BeginIsCapped DEF Unbegun
    <3>2. pc'[s] # "new"
      BY <2>2 DEF SenderStep, Begin, ClaimAll, ClaimNext, ClaimRaises, Post, Record, RecordRaises,
         Finish, Crash, Alive, Goto, TypeOK
    <3> QED
      BY <2>2, <3>1, <3>2
  <2>3. CASE SenderStep(s) /\ pc[s] # "new"
    <3>1. Shrinks(s)
      BY <2>3, SenderShrinks DEF AllCapped
    <3>2. pc'[s] # "new"
      <4>1. ASSUME NEW label, label # "new", Goto(s, label)
            PROVE  pc'[s] # "new"
        BY <4>1 DEF Goto, TypeOK
      <4>2. ~\E t \in Tables, C \in SUBSET Items, p \in PolicyChoices, d \in Destinations :
                Begin(s, t, C, p, d)
        BY <2>3 DEF Begin
      <4> QED
        BY <2>3, <4>1, <4>2 DEF SenderStep, ClaimAll, ClaimNext, ClaimRaises, Post, Record,
           RecordRaises, Finish, Crash, Leave
    <3>3. IsFiniteSet(ToSend(s)') /\ Cardinality(ToSend(s)') <= Limit
      <4>1. IsFiniteSet(ToSend(s)') /\ Cardinality(ToSend(s)') <= Cardinality(ToSend(s))
        BY <3>1, FS_Subset DEF AllCapped, Capped, Shrinks
      <4>2. Cardinality(ToSend(s)') \in Nat /\ Cardinality(ToSend(s)) \in Nat
        BY <4>1, FS_CardinalityType DEF AllCapped, Capped
      <4> QED
        BY <4>1, <4>2 DEF AllCapped, Capped
    <3> QED
      BY <3>1, <3>2, <3>3 DEF Capped, Shrinks
  <2> QED
    BY <2>1, <2>2, <2>3
<1> QED
  BY <1>1 DEF AllCapped, Unbegun, OnlyTakesOff, Shrinks

\* So no call ever has more in hand than its cap.
LEMMA CallsAreCapped == Spec => [](TypeOK /\ AllCapped /\ Unbegun)
<1>1. Init => AllCapped /\ Unbegun
  <2> SUFFICES ASSUME Init, NEW s \in Senders
               PROVE  Capped(s) /\ candidates[s] = {} /\ Pending(s) = {}
    BY DEF AllCapped, Unbegun
  <2>1. candidates[s] = {} /\ Pending(s) = {} /\ pc[s] = "new"
    BY DEF Init, Pending
  <2>2. ToSend(s) = {}
    BY <2>1 DEF ToSend
  <2> QED
    BY <2>1, <2>2, FS_EmptySet DEF Capped
<1>2. TypeOK /\ AllCapped /\ Unbegun /\ [Next]_vars => AllCapped' /\ Unbegun'
  BY NextCapped
<1> QED
  BY <1>1, <1>2, DeliveryTypeCorrect, PTL DEF Spec

\* max_items_per_summary and max_items_per_digest are kept: a call has never
\* more alerts in hand than the cap, adds none once it has begun, and takes
\* off what it has posted before it posts the next one.  So it posts no more
\* than the cap, whatever fails, is deleted, recovered or runs beside it.
THEOREM AlertsAreCapped ==
    Spec => /\ [](\A s \in Senders : IsFiniteSet(ToSend(s)) /\ Cardinality(ToSend(s)) <= Limit)
            /\ [][OnlyTakesOff]_vars
<1>1. AllCapped => \A s \in Senders : IsFiniteSet(ToSend(s)) /\ Cardinality(ToSend(s)) <= Limit
  BY DEF AllCapped, Capped
<1>2. TypeOK /\ AllCapped /\ Unbegun /\ [Next]_vars => [OnlyTakesOff]_vars
  BY NextCapped
<1> QED
  BY <1>1, <1>2, CallsAreCapped, PTL DEF Spec

-----------------------------------------------------------------------------
(***************************************************************************)
(* Every call ends: the steps it has left are counted down.                *)
(***************************************************************************)
\* A claim, a post and a record for each alert still to send, and the end.
StepsLeft(s) ==
    IF Alive(s)
    THEN 3 * Cardinality(ToSend(s))
            + (CASE pc[s] = "claim" -> 3 [] pc[s] = "post" -> 2 [] pc[s] = "record" -> 1)
    ELSE 0

\* A step of a call that has begun uses one up; no other step changes what a
\* call has left, and a call that is over does not begin again.
CountsDown ==
    \A s \in Senders : pc[s] # "new" =>
        /\ pc'[s] # "new"
        /\ IF SenderStep(s) THEN StepsLeft(s)' < StepsLeft(s) ELSE StepsLeft(s)' = StepsLeft(s)

\* What is left follows from the number of alerts to send.
LEMMA FewerIsLess ==
    ASSUME NEW A, IsFiniteSet(A), NEW B \in SUBSET A
    PROVE  /\ Cardinality(A) \in Nat /\ Cardinality(B) \in Nat
           /\ Cardinality(B) <= Cardinality(A)
           /\ B # A => Cardinality(B) <= Cardinality(A) - 1
<1>1. IsFiniteSet(B) /\ Cardinality(B) <= Cardinality(A) /\ (Cardinality(A) = Cardinality(B) => A = B)
  BY FS_Subset
<1>2. Cardinality(A) \in Nat /\ Cardinality(B) \in Nat
  BY <1>1, FS_CardinalityType
<1> QED
  BY <1>1, <1>2

\* An alert that has a row already is taken off without a post.
LEMMA SkipTakesOff ==
    ASSUME TypeOK, NEW s \in Senders, ClaimNext(s), pc'[s] = "claim"
    PROVE  ToSend(s)' # ToSend(s)
<1>1. PICK i \in First(candidates[s]) :
        /\ Insert(s, New(s, {i})) /\ candidates' = [candidates EXCEPT ![s] = @ \ {i}]
        /\ Goto(s, IF New(s, {i}) = {} THEN "claim" ELSE "post")
  BY DEF ClaimNext
<1>2. New(s, {i}) = {}
  BY <1>1 DEF Goto, TypeOK
<1>3. \A j \in Items : claimed'[s][j] = 0
  <2>1. Insert(s, {}) /\ {} \in SUBSET Items
    BY <1>1, <1>2
  <2> QED
    BY <2>1, InsertMakesRows
<1>4. Pending(s)' = {} /\ candidates'[s] = candidates[s] \ {i} /\ i \in candidates[s]
  BY <1>1, <1>3 DEF Pending, First, TypeOK
<1> QED
  BY <1>4 DEF ToSend

\* Every step of a call at work is one less.
LEMMA SenderStepsCount ==
    ASSUME TypeOK, NEW s \in Senders, Capped(s), SenderStep(s), pc[s] # "new"
    PROVE  pc'[s] # "new" /\ StepsLeft(s)' < StepsLeft(s)
<1>1. ToSend(s)' \in SUBSET ToSend(s)
      /\ (pc[s] = "record" /\ pc'[s] \in {"claim", "post"} => ToSend(s)' # ToSend(s))
  BY SenderShrinks DEF Shrinks
<1> DEFINE n == Cardinality(ToSend(s))
           m == Cardinality(ToSend(s)')
<1>2. n \in Nat /\ m \in Nat /\ m <= n /\ (ToSend(s)' # ToSend(s) => m <= n - 1)
  BY <1>1, FewerIsLess DEF Capped
<1>3. ASSUME NEW label, Goto(s, label)
      PROVE  pc'[s] = label
  BY <1>3 DEF Goto, TypeOK
<1>4. Alive(s)
  BY DEF SenderStep, Begin, ClaimAll, ClaimNext, ClaimRaises, Post, Record, RecordRaises, Finish,
     Crash, Alive
<1>5. /\ pc[s] = "claim" => StepsLeft(s) = 3 * n + 3
      /\ pc[s] = "post" => StepsLeft(s) = 3 * n + 2
      /\ pc[s] = "record" => StepsLeft(s) = 3 * n + 1
  BY DEF StepsLeft, Alive
<1>6. /\ pc'[s] = "claim" => StepsLeft(s)' = 3 * m + 3
      /\ pc'[s] = "post" => StepsLeft(s)' = 3 * m + 2
      /\ pc'[s] = "record" => StepsLeft(s)' = 3 * m + 1
      /\ pc'[s] \in {"done", "dead"} => StepsLeft(s)' = 0
  BY DEF StepsLeft, Alive
<1> HIDE DEF n, m
<1>7. CASE ClaimAll(s)
  <2>1. pc[s] = "claim" /\ pc'[s] = "post"
    BY <1>3, <1>7 DEF ClaimAll
  <2> QED
    BY <1>2, <1>5, <1>6, <2>1
<1>8. CASE ClaimNext(s)
  <2>1. pc[s] = "claim" /\ pc'[s] \in {"claim", "post"}
    BY <1>3, <1>8 DEF ClaimNext
  <2>2. pc'[s] = "claim" => m <= n - 1
    BY <1>2, <1>8, SkipTakesOff
  <2> QED
    BY <1>2, <1>5, <1>6, <2>1, <2>2
<1>9. CASE \E taken, success \in BOOLEAN : Post(s, taken, success)
  <2>1. pc[s] = "post" /\ pc'[s] = "record"
    BY <1>3, <1>9 DEF Post
  <2> QED
    BY <1>2, <1>5, <1>6, <2>1
<1>10. CASE \E outcome \in {"delivered", "failed"} : Record(s, outcome)
  <2>1. pc[s] = "record" /\ pc'[s] \in {"claim", "post"}
    BY <1>3, <1>10 DEF Record
  <2> QED
    BY <1>1, <1>2, <1>5, <1>6, <2>1
<1>11. CASE ClaimRaises(s) \/ RecordRaises(s) \/ Finish(s) \/ Crash(s)
  <2>1. pc'[s] \in {"done", "dead"}
    BY <1>3, <1>11 DEF ClaimRaises, RecordRaises, Finish, Crash, Leave
  <2> QED
    BY <1>2, <1>4, <1>5, <1>6, <2>1 DEF Alive
<1> QED
  BY <1>7, <1>8, <1>9, <1>10, <1>11 DEF SenderStep, Begin

\* A call has at most 3 * Limit + 3 steps left: each uses one up, whatever the
\* server answers and whoever deletes entries, recovers rows or sends beside
\* it, and no second call is made of a first one.  So an open row loses its
\* sender in bounded work, and what is left for it is time and a recovery.
THEOREM CallsRunOut ==
    Spec => /\ [](\A s \in Senders : StepsLeft(s) \in 0 .. 3 * Limit + 3)
            /\ [][CountsDown]_vars
<1>1. AllCapped => \A s \in Senders : StepsLeft(s) \in 0 .. 3 * Limit + 3
  <2> SUFFICES ASSUME AllCapped, NEW s \in Senders
               PROVE  StepsLeft(s) \in 0 .. 3 * Limit + 3
    OBVIOUS
  <2>1. Cardinality(ToSend(s)) \in Nat /\ Cardinality(ToSend(s)) <= Limit /\ Limit \in Nat
    BY FS_CardinalityType DEF AllCapped, Capped
  <2> QED
    BY <2>1 DEF StepsLeft, Alive
<1>2. TypeOK /\ AllCapped /\ [Next]_vars => [CountsDown]_vars
  <2> SUFFICES ASSUME TypeOK, AllCapped, [Next]_vars, NEW s \in Senders, pc[s] # "new",
                      ~UNCHANGED vars
               PROVE  /\ pc'[s] # "new"
                      /\ IF SenderStep(s) THEN StepsLeft(s)' < StepsLeft(s)
                         ELSE StepsLeft(s)' = StepsLeft(s)
    BY DEF CountsDown
  <2>1. CASE SenderStep(s)
    BY <2>1, SenderStepsCount DEF AllCapped
  <2>2. CASE ~SenderStep(s)
    <3>1. pc'[s] = pc[s] /\ ToSend(s)' = ToSend(s)
      BY <2>2, OthersKeepSending DEF ToSend, Pending
    <3>2. StepsLeft(s)' = StepsLeft(s)
      BY <3>1 DEF StepsLeft, Alive
    <3> QED
      BY <2>2, <3>1, <3>2
  <2> QED
    BY <2>1, <2>2
<1> QED
  BY <1>1, <1>2, CallsAreCapped, PTL DEF Spec

-----------------------------------------------------------------------------
(***************************************************************************)
(* NtfyDelivery implements AlertOutbox.                                    *)
(***************************************************************************)
\* A call that is about to write an outcome has posted the alert.
RecordsArePosts ==
    \A s \in Senders : pc[s] = "record" =>
        \A i \in First(Pending(s)) : attempts[Alert(s, i)] # 0

\* The alerts that one call has still to post.
DuesOf(s) == {target[s]} \X DueOf(s)

\* What is due is due to some call, and is an alert.
LEMMA DueIsSomebodys ==
    ASSUME TypeOK
    PROVE  /\ \A a : a \in Due <=> \E s \in Senders : a \in DuesOf(s)
           /\ Due \subseteq Alerts
<1>1. \A s \in Senders : DueOf(s) \subseteq Items /\ (DueOf(s) # {} => target[s] \in Destinations)
  BY DEF TypeOK, DueOf, Pending
<1> QED
  BY <1>1 DEF Due, DuesOf, Alerts

\* After a step of one call, what is due is what was due to the others, and
\* what is due to it now.
LEMMA DueAfter ==
    ASSUME TypeOK, TypeOK', NEW s \in Senders,
           \A r \in Senders \ {s} : /\ pc'[r] = pc[r] /\ target'[r] = target[r]
                                    /\ claimed'[r] = claimed[r]
    PROVE  \A a : a \in Due' <=> a \in DuesOf(s)' \/ \E r \in Senders \ {s} : a \in DuesOf(r)
<1>1. \A r \in Senders \ {s} : Pending(r)' = Pending(r)
  BY DEF Pending
<1>2. ASSUME NEW r \in Senders \ {s}
      PROVE  DuesOf(r)' = DuesOf(r)
  BY <1>1 DEF DuesOf, DueOf, First
<1>3. \A a : a \in Due' <=> \E r \in Senders : a \in DuesOf(r)'
  BY DEF Due, DuesOf
<1> QED
  BY <1>2, <1>3

\* Steps that keep the claims and their targets keep what is due.
LEMMA DueStays ==
    ASSUME UNCHANGED <<pc, target, claimed>>
    PROVE  Due' = Due
  BY DEF Due, DueOf, Pending, First

\* Every step keeps outcomes behind posts.
LEMMA RecordsArePostsStep ==
    ASSUME TypeOK, RecordsArePosts, [Next]_vars
    PROVE  RecordsArePosts'
<1>1. ASSUME NEW s \in Senders, SenderStep(s)
      PROVE  RecordsArePosts'
  <2>1. \A r \in Senders \ {s} : /\ pc'[r] = pc[r] /\ target'[r] = target[r]
                                 /\ claimed'[r] = claimed[r]
    <3>1. \A S : Insert(s, S) => \A r \in Senders \ {s} : claimed'[r] = claimed[r]
      BY DEF Insert, TypeOK
    <3>2. CASE ClaimAll(s) \/ ClaimNext(s)
      BY <3>1, <3>2 DEF ClaimAll, ClaimNext, Goto, TypeOK
    <3>3. CASE \E outcome \in {"delivered", "failed"} : Record(s, outcome)
      BY <3>3 DEF Record, Goto, TypeOK
    <3>4. CASE \E taken, success \in BOOLEAN : Post(s, taken, success)
      BY <3>4 DEF Post, Goto, TypeOK
    <3>5. CASE \E t \in Tables, C \in SUBSET Items, p \in PolicyChoices, d \in Destinations :
                  Begin(s, t, C, p, d)
      BY <3>5 DEF Begin, Goto, TypeOK
    <3>6. CASE ClaimRaises(s) \/ RecordRaises(s) \/ Finish(s) \/ Crash(s)
      BY <3>6 DEF ClaimRaises, RecordRaises, Finish, Crash, Leave, Goto, TypeOK
    <3> QED
      BY <1>1, <3>2, <3>3, <3>4, <3>5, <3>6 DEF SenderStep
  <2>2. \A a \in Alerts : attempts[a] # 0 => attempts'[a] # 0
    <3>1. CASE \E taken, success \in BOOLEAN : Post(s, taken, success)
      <4>1. PICK x : attempts' = [attempts EXCEPT ![x] = @ + 1]
        BY <3>1 DEF Post
      <4> QED
        BY <4>1 DEF TypeOK
    <3>2. CASE UNCHANGED attempts
      BY <3>2
    <3> QED
      BY <1>1, <3>1, <3>2 DEF SenderStep, Begin, ClaimAll, ClaimNext, ClaimRaises, Record,
         RecordRaises, Finish, Crash, ghostVars
  <2>3. ASSUME NEW r \in Senders \ {s}, pc'[r] = "record", NEW i \in First(Pending(r)')
        PROVE  attempts'[<<target'[r], i>>] # 0
    <3>1. Pending(r)' = Pending(r)
      BY <2>1 DEF Pending
    <3>2. attempts[<<target[r], i>>] # 0
      BY <2>1, <2>3, <3>1 DEF RecordsArePosts, Alert
    <3>3. <<target[r], i>> \in Alerts
      BY <2>1, <2>3, <3>1 DEF TypeOK, Alerts, First, Pending
    <3> QED
      BY <2>1, <2>2, <3>2, <3>3
  <2>4. ASSUME pc'[s] = "record", NEW i \in First(Pending(s)')
        PROVE  attempts'[<<target'[s], i>>] # 0
    <3>1. PICK taken \in BOOLEAN, success \in BOOLEAN : Post(s, taken, success)
      BY <1>1, <2>4 DEF SenderStep, Begin, ClaimAll, ClaimNext, ClaimRaises, Record,
         RecordRaises, Finish, Crash, Goto, Leave, TypeOK
    <3>2. PICK j \in First(Pending(s)) :
            /\ pc[s] = "post"
            /\ attempts' = [attempts EXCEPT ![Alert(s, j)] = @ + 1]
            /\ UNCHANGED <<target, claimed>>
      BY <3>1 DEF Post
    <3>3. Pending(s)' = Pending(s) /\ Pending(s) \subseteq Items
      BY <3>2 DEF Pending
    <3>4. i = j
      BY <2>4, <3>2, <3>3, FirstIsOne
    <3>5. Alert(s, j) \in Alerts
      BY <3>2, <3>3 DEF TypeOK, Alerts, Alert, First
    <3> QED
      BY <3>2, <3>4, <3>5 DEF TypeOK, Alert
  <2> QED
    BY <2>3, <2>4 DEF RecordsArePosts, Alert, First
<1>2. CASE OutsideStep \/ Rest \/ UNCHANGED vars
  <2>1. UNCHANGED <<attempts, senderVars>>
    BY <1>2 DEF OutsideStep, RowAges, Reconcile, Delete, Rest, vars, ghostVars
  <2>2. \A s \in Senders : Pending(s)' = Pending(s)
    BY <2>1 DEF Pending, senderVars
  <2> QED
    BY <2>1, <2>2 DEF RecordsArePosts, Alert, First, senderVars
<1> QED
  BY <1>1, <1>2 DEF Next

\* New rows are a claim of their alerts.
LEMMA InsertClaims ==
    ASSUME TypeOK, TypeOK', DeliveryInv, NEW s \in Senders, NEW S \in SUBSET Items,
           Insert(s, S), pc[s] = "claim", S \subseteq stored,
           \A i \in S : status[Alert(s, i)] = "none",
           pc'[s] = "post" \/ (S = {} /\ pc'[s] = "claim"),
           \A r \in Senders \ {s} : pc'[r] = pc[r],
           UNCHANGED <<stored, ghostVars, target>>
    PROVE  Outbox!OutboxNext
<1> DEFINE A == {target[s]} \X S
<1>1. target[s] \in Destinations /\ A \in SUBSET Alerts
  BY DEF TypeOK, Alerts
<1>2. status' = [a \in Alerts |-> IF a \in A THEN "sending" ELSE status[a]]
  BY DEF Insert
<1>3. /\ \A i \in Items : claimed'[s][i] # 0 <=> i \in S
      /\ \A r \in Senders \ {s} : claimed'[r] = claimed[r]
  BY InsertMakesRows
<1>4. DuesOf(s) = {}
  BY DEF DuesOf, DueOf
<1>5. DuesOf(s)' = A
  <2>1. Pending(s)' = S
    BY <1>3 DEF Pending
  <2> QED
    BY <2>1 DEF DuesOf, DueOf
<1>6. Due' = Due \cup A
  <2> HIDE DEF A
  <2>1. \A a : a \in Due' <=> a \in A \/ \E r \in Senders \ {s} : a \in DuesOf(r)
    BY <1>3, <1>5, DueAfter
  <2>2. \A a : a \in Due <=> \E r \in Senders \ {s} : a \in DuesOf(r)
    BY <1>4, DueIsSomebodys
  <2> QED
    BY <2>1, <2>2
<1>7. ASSUME NEW a \in A
      PROVE  a[2] \in stored /\ status[a] = "none" /\ attempts[a] = 0
  <2>1. a = Alert(s, a[2]) /\ a[2] \in S /\ a \in Alerts
    BY <1>1 DEF Alert
  <2>2. a[2] \in stored /\ status[a] = "none"
    BY <2>1
  <2> QED
    BY <2>1, <2>2 DEF DeliveryInv, OnRecord
<1> HIDE DEF A
<1>8. Outbox!Claim(A)
  BY <1>2, <1>6, <1>7 DEF Outbox!Claim, Outbox!Rewrite, Outbox!Alerts, Alerts, ghostVars
<1> QED
  BY <1>1, <1>8 DEF Outbox!OutboxNext, Outbox!InOrder, Outbox!Alerts, Alerts, ghostVars

\* A post takes one alert from those that are due.
LEMMA PostPosts ==
    ASSUME TypeOK, TypeOK', DeliveryInv, NEW s \in Senders, NEW taken \in BOOLEAN,
           NEW success \in BOOLEAN, Post(s, taken, success)
    PROVE  Outbox!OutboxNext
<1>1. PICK i \in First(Pending(s)) :
        /\ pc[s] = "post"
        /\ attempts' = [attempts EXCEPT ![Alert(s, i)] = @ + 1]
        /\ accepted' = IF taken THEN accepted \cup {Alert(s, i)} ELSE accepted
        /\ pc' = [pc EXCEPT ![s] = "record"]
        /\ UNCHANGED <<stored, rowVars, lapsed, table, target, candidates, claimed>>
  BY DEF Post, Goto
<1> DEFINE a == Alert(s, i)
<1>2. i \in Pending(s) /\ Pending(s) \subseteq Items
  BY DEF First, Pending
<1>3. a \in Alerts /\ attempts[a] = 0
  BY <1>1, <1>2 DEF TypeOK, Alerts, Alert, DeliveryInv, NotYetPosted
<1>4. pc'[s] = "record" /\ \A r \in Senders \ {s} : pc'[r] = pc[r]
  BY <1>1 DEF TypeOK
<1>5. DuesOf(s) = {target[s]} \X Pending(s) /\ DuesOf(s)' = DuesOf(s) \ {a}
  <2>1. First(Pending(s)) = {i}
    BY <1>1, <1>2, FirstIsOne
  <2>2. Pending(s)' = Pending(s)
    BY <1>1 DEF Pending
  <2>3. DueOf(s) = Pending(s) /\ DueOf(s)' = Pending(s) \ {i}
    BY <1>1, <1>4, <2>1, <2>2 DEF DueOf, First
  <2> QED
    BY <1>1, <2>3 DEF DuesOf, Alert
<1>6. \A r \in Senders \ {s} : a \notin DuesOf(r)
  <2> SUFFICES ASSUME NEW r \in Senders \ {s}, a \in DuesOf(r) PROVE FALSE
    OBVIOUS
  <2>1. target[r] = target[s] /\ i \in DueOf(r)
    BY DEF DuesOf, Alert
  <2>2. i \in Pending(r)
    BY <2>1 DEF DueOf
  <2> QED
    BY <1>2, <2>1, <2>2 DEF DeliveryInv, ClaimsDiffer
<1>7. a \in DuesOf(s)
  BY <1>2, <1>5 DEF Alert
<1> HIDE DEF a
<1>8. a \in Due /\ Due' = Due \ {a}
  <2>1. \A x : x \in Due' <=> x \in DuesOf(s)' \/ \E r \in Senders \ {s} : x \in DuesOf(r)
    BY <1>1, <1>4, DueAfter
  <2>2. \A x : x \in Due <=> x \in DuesOf(s) \/ \E r \in Senders \ {s} : x \in DuesOf(r)
    BY DueIsSomebodys
  <2> QED
    BY <1>5, <1>6, <1>7, <2>1, <2>2
<1>9. attempts' = [attempts EXCEPT ![a] = 1]
  BY <1>1, <1>3 DEF TypeOK, a
<1>10. accepted' \in {accepted, accepted \cup {a}}
  BY <1>1 DEF a
<1>11. Outbox!Post(a)
  BY <1>1, <1>3, <1>8, <1>9, <1>10 DEF Outbox!Post, rowVars
<1> QED
  BY <1>1, <1>3, <1>11 DEF Outbox!OutboxNext, Outbox!InOrder, Outbox!Alerts, Alerts

\* An outcome changes nothing, settles the alert that was posted, or reaches
\* the row of another one when calls have worked side by side.
LEMMA RecordSettles ==
    ASSUME TypeOK, TypeOK', DeliveryInv, TruthInv, RecordsArePosts, NEW s \in Senders,
           NEW outcome \in {"delivered", "failed"}, Record(s, outcome)
    PROVE  Outbox!OutboxNext
<1>1. PICK i \in First(Pending(s)) :
        /\ pc[s] = "record"
        /\ Write(s, i, outcome)
        /\ claimed' = [claimed EXCEPT ![s][i] = 0]
        /\ pc' = [pc EXCEPT ![s] = IF table[s] = "arxiv" THEN "claim" ELSE "post"]
        /\ UNCHANGED <<stored, id, old, ghostVars, table, target, candidates>>
  BY DEF Record, Goto
<1>2. i \in Pending(s) /\ i \in Items /\ Pending(s) \subseteq Items /\ claimed[s][i] # 0
  BY DEF First, Pending
<1>3. /\ pc'[s] = IF table[s] = "arxiv" THEN "claim" ELSE "post"
      /\ \A r \in Senders \ {s} : pc'[r] = pc[r] /\ claimed'[r] = claimed[r]
  BY <1>1 DEF TypeOK
<1>4. Due' = Due
  <2>1. First(Pending(s)) = {i}
    BY <1>1, <1>2, FirstIsOne
  <2>2. Pending(s)' = Pending(s) \ {i}
    <3>1. \A j \in Items : claimed'[s][j] = IF j = i THEN 0 ELSE claimed[s][j]
      BY <1>1, <1>2 DEF TypeOK
    <3> QED
      BY <3>1 DEF Pending
  <2>3. DueOf(s) = Pending(s) \ {i}
    BY <1>1, <2>1 DEF DueOf
  <2>4. DueOf(s)' = Pending(s) \ {i}
    <3>1. CASE table[s] = "arxiv"
      <4>1. Pending(s) \ {i} = {}
        BY <1>1, <1>2, <3>1 DEF DeliveryInv, ClaimsDiffer
      <4> QED
        BY <1>3, <3>1, <4>1 DEF DueOf
    <3>2. CASE table[s] # "arxiv"
      BY <1>3, <2>2, <3>2 DEF DueOf
    <3> QED
      BY <3>1, <3>2
  <2>5. DuesOf(s)' = DuesOf(s)
    BY <1>1, <2>3, <2>4 DEF DuesOf
  <2>6. \A x : x \in Due' <=> x \in DuesOf(s)' \/ \E r \in Senders \ {s} : x \in DuesOf(r)
    BY <1>1, <1>3, DueAfter
  <2>7. \A x : x \in Due <=> x \in DuesOf(s) \/ \E r \in Senders \ {s} : x \in DuesOf(r)
    BY DueIsSomebodys
  <2> QED
    BY <2>5, <2>6, <2>7
<1>5. \A a \in Alerts : status'[a] = "none" <=> status[a] = "none"
  BY <1>1, <1>2 DEF Write, TypeOK
<1>6. CASE lapsed
  <2>1. Outbox!Mistaken
    BY <1>1, <1>4, <1>5, <1>6 DEF Outbox!Mistaken, Outbox!Alerts, Alerts, TypeOK, ghostVars
  <2> QED
    BY <1>1, <2>1 DEF Outbox!OutboxNext, ghostVars
<1>7. CASE ~lapsed
  <2> DEFINE a == Alert(s, i)
  <2>1. a \in Alerts
    BY <1>1, <1>2 DEF TypeOK, Alerts, Alert
  <2>2. \A b \in AlertsOf(table[s]) : id[b] = claimed[s][i] => b = a
    BY <1>1, <1>2, <1>7 DEF TruthInv, OwnRows
  <2>3. \A b \in Alerts : b # a => status'[b] = status[b]
    BY <1>1, <2>2 DEF Write, TypeOK
  <2>4. CASE status'[a] = status[a]
    <3>1. status' = status
      BY <2>3, <2>4 DEF TypeOK
    <3>2. Outbox!Abandon({})
      BY <1>1, <1>4, <3>1 DEF Outbox!Abandon, ghostVars
    <3> QED
      BY <1>1, <3>2 DEF Outbox!OutboxNext, Outbox!InOrder, ghostVars
  <2>5. CASE status'[a] # status[a]
    <3>1. status[a] # "delivered" /\ (status'[a] = "delivered" => a \in accepted)
      BY <1>7, <2>1, <2>5, RecordIsTrue
    <3>2. status'[a] = outcome
      BY <1>1, <2>1, <2>5 DEF Write, TypeOK
    <3>3. status[a] \in {"sending", "failed"}
      BY <1>5, <2>1, <3>1, <3>2 DEF TypeOK
    <3>4. attempts[a] # 0
      BY <1>1 DEF RecordsArePosts
    <3> HIDE DEF a
    <3>5. status' = [b \in Alerts |-> IF b \in {a} THEN outcome ELSE status[b]]
      BY <2>3, <3>2 DEF TypeOK
    <3>6. Outbox!Settle(a, outcome)
      BY <1>1, <1>4, <3>1, <3>2, <3>3, <3>4, <3>5
         DEF Outbox!Settle, Outbox!Rewrite, Outbox!Alerts, Alerts, ghostVars
    <3> QED
      BY <1>1, <2>1, <3>6 DEF Outbox!OutboxNext, Outbox!InOrder, Outbox!Alerts, Alerts, ghostVars
  <2> QED
    BY <2>4, <2>5
<1> QED
  BY <1>6, <1>7

\* A call that begins or ends at most abandons alerts.
LEMMA EndsAbandon ==
    ASSUME TypeOK, TypeOK', NEW s \in Senders,
           pc'[s] \in {"claim", "done", "dead"},
           \A r \in Senders \ {s} : pc'[r] = pc[r] /\ target'[r] = target[r],
           lapsed => lapsed', UNCHANGED <<stored, status, attempts, accepted, claimed>>
    PROVE  Outbox!OutboxNext
<1>1. DuesOf(s)' = {}
  BY DEF DuesOf, DueOf
<1>2. \A x : x \in Due' <=> x \in DuesOf(s)' \/ \E r \in Senders \ {s} : x \in DuesOf(r)
  BY DueAfter
<1>3. \A x : x \in Due <=> \E r \in Senders : x \in DuesOf(r)
  BY DueIsSomebodys
<1>4. Due' = Due \ (Due \ Due') /\ Due \ Due' \in SUBSET Alerts
  BY <1>1, <1>2, <1>3, DueIsSomebodys
<1>5. Outbox!Abandon(Due \ Due')
  BY <1>4 DEF Outbox!Abandon
<1> QED
  BY <1>4, <1>5 DEF Outbox!OutboxNext, Outbox!InOrder, Outbox!Alerts, Alerts

\* Recoveries give alerts up, deletions remove them.
LEMMA OutsideGivesUp ==
    ASSUME TypeOK, OutsideStep
    PROVE  [Outbox!OutboxNext]_(Outbox!outboxVars)
<1>1. Due' = Due /\ UNCHANGED ghostVars
  <2>1. UNCHANGED <<ghostVars, senderVars>>
    BY DEF OutsideStep, RowAges, Reconcile, Delete
  <2> QED
    BY <2>1, DueStays DEF senderVars
<1>2. ASSUME NEW a \in Alerts, RowAges(a)
      PROVE  UNCHANGED Outbox!outboxVars
  BY <1>1, <1>2 DEF RowAges, Outbox!outboxVars, ghostVars
<1>3. CASE Reconcile
  <2>1. PICK sameDay : /\ status' = [a \in Alerts |-> IF a \in Interrupted(sameDay)
                                                      THEN "failed" ELSE status[a]]
                       /\ stored' = stored
    BY <1>3 DEF Reconcile
  <2>2. /\ Interrupted(sameDay) \in SUBSET Alerts
        /\ \A a \in Interrupted(sameDay) : status[a] = "sending"
    BY DEF Interrupted
  <2>3. Outbox!GiveUp(Interrupted(sameDay))
    BY <1>1, <2>1, <2>2 DEF Outbox!GiveUp, Outbox!Rewrite, Outbox!Alerts, Alerts, ghostVars
  <2> QED
    BY <1>1, <2>2, <2>3 DEF Outbox!OutboxNext, Outbox!InOrder, Outbox!Alerts, Alerts, ghostVars
<1>4. ASSUME NEW S \in SUBSET Items, Delete(S)
      PROVE  Outbox!OutboxNext
  <2>1. status' = [a \in Alerts |-> IF a \in {b \in Alerts : b[2] \in S}
                                    THEN "none" ELSE status[a]]
    BY <1>4 DEF Delete
  <2>2. Outbox!Remove(S)
    BY <1>1, <1>4, <2>1 DEF Delete, Outbox!Remove, Outbox!Rewrite, Outbox!Alerts, Alerts, ghostVars
  <2> QED
    BY <1>1, <2>2 DEF Outbox!OutboxNext, Outbox!InOrder, ghostVars
<1> QED
  BY <1>2, <1>3, <1>4 DEF OutsideStep

\* Every step of a call is one of the outbox.
LEMMA SenderKeepsOrder ==
    ASSUME TypeOK, TypeOK', DeliveryInv, TruthInv, RecordsArePosts,
           NEW s \in Senders, SenderStep(s)
    PROVE  Outbox!OutboxNext
<1> USE DEF Goto, ghostVars
<1>1. ASSUME NEW t \in Tables, NEW C \in SUBSET Items, NEW p \in PolicyChoices,
             NEW d \in Destinations, Begin(s, t, C, p, d)
      PROVE  Outbox!OutboxNext
  <2>1. /\ pc'[s] = "claim" /\ (lapsed => lapsed')
        /\ \A r \in Senders \ {s} : pc'[r] = pc[r] /\ target'[r] = target[r]
        /\ UNCHANGED <<stored, status, attempts, accepted, claimed>>
    BY <1>1 DEF Begin, TypeOK, rowVars
  <2> QED
    BY <2>1, EndsAbandon
<1>2. CASE ClaimAll(s)
  <2>1. /\ New(s, candidates[s]) \in SUBSET Items
        /\ New(s, candidates[s]) \subseteq stored
        /\ \A i \in New(s, candidates[s]) : status[Alert(s, i)] = "none"
    BY <1>2 DEF ClaimAll, New, TypeOK
  <2>2. pc[s] = "claim" /\ pc'[s] = "post" /\ \A r \in Senders \ {s} : pc'[r] = pc[r]
    BY <1>2 DEF ClaimAll, TypeOK
  <2> QED
    BY <1>2, <2>1, <2>2, InsertClaims DEF ClaimAll
<1>3. CASE ClaimNext(s)
  <2>1. PICK i \in First(candidates[s]) :
          /\ pc[s] = "claim" /\ i \in stored
          /\ Insert(s, New(s, {i}))
          /\ pc' = [pc EXCEPT ![s] = IF New(s, {i}) = {} THEN "claim" ELSE "post"]
          /\ UNCHANGED <<stored, ghostVars, target>>
    BY <1>3 DEF ClaimNext
  <2>2. /\ New(s, {i}) \in SUBSET Items /\ New(s, {i}) \subseteq stored
        /\ \A j \in New(s, {i}) : status[Alert(s, j)] = "none"
    BY <2>1 DEF New, TypeOK
  <2>3. /\ pc'[s] = "post" \/ (New(s, {i}) = {} /\ pc'[s] = "claim")
        /\ \A r \in Senders \ {s} : pc'[r] = pc[r]
    BY <2>1 DEF TypeOK
  <2> QED
    BY <2>1, <2>2, <2>3, InsertClaims
<1>4. CASE ClaimRaises(s) \/ RecordRaises(s) \/ Finish(s) \/ Crash(s)
  <2>1. /\ pc'[s] \in {"claim", "done", "dead"} /\ (lapsed => lapsed')
        /\ \A r \in Senders \ {s} : pc'[r] = pc[r] /\ target'[r] = target[r]
        /\ UNCHANGED <<stored, status, attempts, accepted, claimed>>
    BY <1>4 DEF ClaimRaises, RecordRaises, Finish, Crash, Leave, TypeOK, rowVars
  <2> QED
    BY <2>1, EndsAbandon
<1> QED
  BY <1>1, <1>2, <1>3, <1>4, PostPosts, RecordSettles DEF SenderStep

\* NtfyDelivery implements AlertOutbox, for any entries, destinations, calls and
\* settings: an alert has a row before it is posted, is posted once, and gets a
\* true outcome after that, whatever crashes, is lost, deleted or recovered; two
\* calls side by side may mistake a row, but neither posts what it has not claimed.
THEOREM AlertsGoInOrder == Spec => OutboxIsKept
<1>1. Init => Outbox!OutboxInit /\ RecordsArePosts
  <2> SUFFICES ASSUME Init PROVE Outbox!OutboxInit /\ RecordsArePosts
    OBVIOUS
  <2>1. Due = {}
    BY DEF Init, Due, DueOf
  <2> QED
    BY <2>1 DEF Init, RecordsArePosts, Outbox!OutboxInit, Outbox!Alerts, Alerts
<1>2. TypeOK /\ RecordsArePosts /\ [Next]_vars => RecordsArePosts'
  BY RecordsArePostsStep
<1>3. TypeOK /\ TypeOK' /\ DeliveryInv /\ TruthInv /\ RecordsArePosts /\ [Next]_vars
        => [Outbox!OutboxNext]_(Outbox!outboxVars)
  <2> SUFFICES ASSUME TypeOK, TypeOK', DeliveryInv, TruthInv, RecordsArePosts, [Next]_vars
               PROVE  [Outbox!OutboxNext]_(Outbox!outboxVars)
    OBVIOUS
  <2>1. CASE Rest \/ UNCHANGED vars
    <3>1. Due' = Due
      BY <2>1, DueStays DEF Rest, vars, senderVars
    <3> QED
      BY <2>1, <3>1 DEF Rest, vars, rowVars, ghostVars, Outbox!outboxVars
  <2>2. CASE OutsideStep
    BY <2>2, OutsideGivesUp
  <2>3. ASSUME NEW s \in Senders, SenderStep(s)
        PROVE  Outbox!OutboxNext
    BY <2>3, SenderKeepsOrder
  <2> QED
    BY <2>1, <2>2, <2>3 DEF Next
<1> QED
  BY <1>1, <1>2, <1>3, DeliveryInvariant, RowsAreTrue, PTL
     DEF Spec, OutboxIsKept, Outbox!OutboxSpec
=============================================================================
