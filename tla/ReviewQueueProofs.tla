-------------------------- MODULE ReviewQueueProofs --------------------------
(***************************************************************************)
(* Proofs about ReviewQueue, for any number of entries, workers, pages and *)
(* requests: no evaluation is lost or undone, nothing is sent twice, a     *)
(* live worker keeps its claims, no claim and no open row is without a     *)
(* worker unless it died or an exception says so, and the answer of a job  *)
(* agrees with its requests.  They rest on QueueInv and BookInv.  What     *)
(* needs the leases says so (~lapsed): it is about all behaviours up to    *)
(* the first moment at which a live job has outlived its lease.  The last  *)
(* sections show that the queue implements EntryReview, and that a worker  *)
(* runs out of steps.                                                      *)
(***************************************************************************)
EXTENDS ReviewQueue, TLAPS

USE QueueAssumption

-----------------------------------------------------------------------------
(***************************************************************************)
(* The inductive invariant.                                                *)
(***************************************************************************)
\* Only entries have rows, and while the leases hold one worker is alive.
RowsAndLease ==
    /\ \A i \in Items : row[i] # "none" => i \in stored
    /\ ~lapsed => \A w \in Workers : Alive(w) => lease = w

\* A run that has not been started has no row, so a new run cannot be one
\* that an evaluation names, and the run at hand has not succeeded yet.
RunsInOrder ==
    \A w \in Workers :
        /\ \A n \in 1 .. MaxRequests : run[<<w, n>>] # "none" => n <= requests[w]
        /\ pc[w] \in {"claim", "asked"} => run[ThisRun(w)] # "success"

\* LiveWorkIsKept, at all steps of a job, and with the age of the claims.
OpenWork ==
    ~lapsed => \A w \in Workers :
        /\ pc[w] \in {"loop", "claim", "asked", "compose"} => job[w] = "running"
        /\ pc[w] \in {"claim", "asked"} => run[ThisRun(w)] = "running"
        /\ pc[w] = "asked" => \A i \in batch[w] \cap stored :
            row[i] = "processing" /\ claim[i] = ThisRun(w) /\ ~old[i]

QueueInv == ReviewedIffEvaluated /\ RowsAndLease /\ RunsInOrder /\ OpenWork

-----------------------------------------------------------------------------
(***************************************************************************)
(* Every step keeps the type.                                              *)
(***************************************************************************)
\* The changes of entries keep the type.
LEMMA EntryType ==
    ASSUME TypeOK, EntryStep
    PROVE  TypeOK'
<1> USE DEF TypeOK, RowStates, JobStates, Pcs, Runs, Callers, ThisRun, Goto, Move,
      itemVars, queueVars, recordVars, leaseVars, pastVars, workerVars, planVars
<1>1. ASSUME NEW i \in Items, Discover(i)
      PROVE  TypeOK'
  BY <1>1 DEF Discover
<1>2. ASSUME NEW i \in Items, SetDisposition(i)
      PROVE  TypeOK'
  BY <1>2 DEF SetDisposition
<1>3. ASSUME NEW S \in SUBSET Items, Delete(S)
      PROVE  TypeOK'
  BY <1>3 DEF Delete
<1>4. ASSUME NEW S \in SUBSET Items, RestoreBaseline(S)
      PROVE  TypeOK'
  BY <1>4 DEF RestoreBaseline
<1> QED
  BY <1>1, <1>2, <1>3, <1>4 DEF EntryStep

\* So do the statements of sync_review_queue.
LEMMA ExecuteType ==
    ASSUME TypeOK, NEW k, Execute(k)
    PROVE  /\ row' \in [Items -> RowStates] /\ claim' \in [Items -> Runs \cup {None}]
           /\ old' \in [Items -> BOOLEAN] /\ delayed' \in [Items -> BOOLEAN]
<1>1. ASSUME NEW S, NEW state \in RowStates, Move(S, state)
      PROVE  /\ row' \in [Items -> RowStates] /\ claim' \in [Items -> Runs \cup {None}]
             /\ old' \in [Items -> BOOLEAN] /\ delayed' \in [Items -> BOOLEAN]
  BY <1>1 DEF TypeOK, Move
<1>2. CASE InsertRows
  BY <1>2 DEF TypeOK, RowStates, InsertRows
<1> QED
  BY <1>1, <1>2 DEF Execute, RowStates

\* So do the callers of sync_review_queue.
LEMMA SyncType ==
    ASSUME TypeOK, SyncStep
    PROVE  TypeOK'
<1> USE DEF TypeOK, RowStates, JobStates, Pcs, Runs, Callers, ThisRun, Goto, Move,
      itemVars, queueVars, recordVars, leaseVars, pastVars, workerVars, planVars
<1>1. ASSUME NEW c \in Callers, SyncStatement(c)
      PROVE  TypeOK'
  <2>1. Execute(statement[c])
    BY <1>1 DEF SyncStatement
  <2>2. /\ row' \in [Items -> RowStates] /\ claim' \in [Items -> Runs \cup {None}]
        /\ old' \in [Items -> BOOLEAN] /\ delayed' \in [Items -> BOOLEAN]
    BY <2>1, ExecuteType
  <2>3. statement' \in [Callers -> 0 .. 5]
    BY <1>1 DEF SyncStatement
  <2> QED
    BY <1>1, <2>2, <2>3 DEF SyncStatement
<1>2. ASSUME NEW p \in Pages, OpenPage(p)
      PROVE  TypeOK'
  BY <1>2 DEF OpenPage
<1>3. ASSUME NEW p \in Pages, NEW S \in SUBSET Items, Baseline(p, S)
      PROVE  TypeOK'
  BY <1>3 DEF Baseline
<1> QED
  BY <1>1, <1>2, <1>3 DEF SyncStep

\* So does a worker.
LEMMA WorkerType ==
    ASSUME TypeOK, NEW w \in Workers, WorkerStep(w)
    PROVE  TypeOK'
<1> USE DEF TypeOK, RowStates, JobStates, Pcs, Runs, Callers, ThisRun, Goto, Move,
      itemVars, queueVars, recordVars, leaseVars, pastVars, workerVars, planVars
<1>1. CASE Start(w)
  BY <1>1 DEF Start
<1>2. CASE Blocked(w)
  BY <1>2 DEF Blocked
<1>15. CASE PlanFails(w)
  BY <1>15 DEF PlanFails
<1>3. CASE Claim(w)
  BY <1>3 DEF Claim, Claimable
<1>4. CASE Answer(w)
  BY <1>4 DEF Answer, Remember
<1>5. CASE EndLoop(w)
  BY <1>5 DEF EndLoop
<1>6. CASE Stop(w)
  BY <1>6 DEF Stop
<1>7. CASE Throw(w)
  BY <1>7 DEF Throw, Forget
<1>8. CASE Raise(w)
  BY <1>8 DEF Raise
<1>16. CASE RaiseFails(w)
  BY <1>16 DEF RaiseFails
<1>9. CASE Release(w)
  BY <1>9 DEF Release, Forget
<1>10. CASE Crash(w)
  BY <1>10 DEF Crash, Forget
<1>11. ASSUME NEW S \in SUBSET Items, Plan(w, S)
      PROVE  TypeOK'
  BY <1>11 DEF Plan
<1>12. ASSUME NEW S \in SUBSET Items, StartBatch(w, S)
      PROVE  TypeOK'
  BY <1>12 DEF StartBatch
<1>13. ASSUME NEW b \in BOOLEAN, Fail(w, b)
      PROVE  TypeOK'
  <2>1. delayed' \in [Items -> BOOLEAN]
    <3>1. (w \in Automatic) \in BOOLEAN
      OBVIOUS
    <3> QED
      BY <1>13, <3>1, Zenon DEF Fail
  <2>2. old' \in [Items -> BOOLEAN]
    BY <1>13 DEF Fail
  <2>3. pc' \in [Workers -> Pcs] /\ run' \in [Runs -> {"none", "running", "success", "failed"}]
    BY <1>13 DEF Fail
  <2>4. row' \in [Items -> RowStates] /\ claim' \in [Items -> Runs \cup {None}]
    BY <1>13 DEF Fail
  <2>5. batch' \in [Workers -> SUBSET Items] /\ outcomes' \in [Workers -> SUBSET {"answered", "failed"}]
    BY <1>13 DEF Fail, Remember
  <2>6. \A v \in Workers : pc'[v] \in {"claim", "asked"} => requests'[v] > 0
    BY <1>13 DEF Fail
  <2> QED
    BY <1>13, <2>1, <2>2, <2>3, <2>4, <2>5, <2>6 DEF Fail
<1>14. ASSUME NEW b \in BOOLEAN, Compose(w, b)
      PROVE  TypeOK'
  BY <1>14 DEF Compose, Verdict
<1> QED
  BY <1>1, <1>2, <1>3, <1>4, <1>5, <1>6, <1>7, <1>8, <1>9, <1>10, <1>11, <1>12, <1>13, <1>14, <1>15, <1>16
  DEF WorkerStep

\* So do time and the recoveries.
LEMMA OutsideType ==
    ASSUME TypeOK, OutsideStep
    PROVE  TypeOK'
<1> USE DEF TypeOK, RowStates, JobStates, Pcs, Runs, Callers, ThisRun, Goto, Move,
      itemVars, queueVars, recordVars, leaseVars, pastVars, workerVars, planVars
<1>1. ASSUME NEW i \in Items, ClaimAges(i)
      PROVE  TypeOK'
  BY <1>1 DEF ClaimAges
<1>2. ASSUME NEW i \in Items, DelayEnds(i)
      PROVE  TypeOK'
  BY <1>2 DEF DelayEnds
<1>3. ASSUME NEW R \in SUBSET Runs, NEW W \in SUBSET Workers, Reconcile(R, W)
      PROVE  TypeOK'
  BY <1>3 DEF Reconcile, Interrupt, StaleRows
<1>4. CASE LeaseEnds
  BY <1>4 DEF LeaseEnds
<1>5. CASE RecoverLocally
  BY <1>5 DEF RecoverLocally, Interrupt, OpenRuns, OpenJobs
<1> QED
  BY <1>1, <1>2, <1>3, <1>4, <1>5 DEF OutsideStep

\* Every reachable state has its type.
THEOREM QueueTypeCorrect == Spec => []TypeOK
<1>1. Init => TypeOK
  <2> SUFFICES ASSUME Init
               PROVE  TypeOK
    OBVIOUS
  <2>1. /\ eligible \in [Items -> BOOLEAN] /\ excluded \in [Items -> BOOLEAN]
        /\ old \in [Items -> BOOLEAN] /\ delayed \in [Items -> BOOLEAN]
    BY Zenon DEF Init
  <2>2. /\ row \in [Items -> RowStates] /\ claim \in [Items -> Runs \cup {None}]
        /\ current \in [Items -> Runs \cup {None}]
        /\ run \in [Runs -> {"none", "running", "success", "failed"}]
    BY DEF Init, RowStates
  <2>3. /\ job \in [Workers -> JobStates] /\ pc \in [Workers -> Pcs]
        /\ statement \in [Callers -> 0 .. 5] /\ requests \in [Workers -> 0 .. MaxRequests]
    BY DEF Init, JobStates, Pcs
  <2>4. /\ todo \in [Workers -> SUBSET Items] /\ batch \in [Workers -> SUBSET Items]
        /\ outcomes \in [Workers -> SUBSET {"answered", "failed"}]
    BY DEF Init
  <2> QED
    BY <2>1, <2>2, <2>3, <2>4 DEF Init, TypeOK
<1>2. TypeOK /\ [Next]_vars => TypeOK'
  <2>1. ASSUME TypeOK, UNCHANGED vars
        PROVE  TypeOK'
    BY <2>1 DEF TypeOK, vars, itemVars, queueVars, recordVars, leaseVars, pastVars, workerVars, planVars
  <2> QED
    BY <2>1, EntryType, SyncType, WorkerType, OutsideType DEF Next
<1> QED
  BY <1>1, <1>2, PTL DEF Spec

-----------------------------------------------------------------------------
(***************************************************************************)
(* Every step keeps the invariant.                                         *)
(***************************************************************************)
\* The changes of entries keep the invariant.
LEMMA EntryInv ==
    ASSUME TypeOK, QueueInv, EntryStep
    PROVE  QueueInv'
<1> USE DEF TypeOK, QueueInv, ReviewedIffEvaluated, Evaluated, RowsAndLease, RunsInOrder, OpenWork,
      Alive, Runs, ThisRun, Goto, Move,
      itemVars, queueVars, recordVars, leaseVars, pastVars, workerVars, planVars
<1>1. ASSUME NEW i \in Items, Discover(i)
      PROVE  QueueInv'
  <2>1. ReviewedIffEvaluated'
    BY <1>1 DEF Discover
  <2>2. RowsAndLease'
    BY <1>1 DEF Discover
  <2>3. RunsInOrder'
    BY <1>1 DEF Discover
  <2>4. OpenWork'
    <3>1. ASSUME ~lapsed', NEW w \in Workers, pc[w] = "asked"
          PROVE  FALSE
      <4>1. ~lapsed /\ lease = None
        BY <1>1, <3>1, Zenon DEF Discover
      <4>2. lease = w
        BY <3>1, <4>1
      <4> QED
        BY <4>1, <4>2
    <3> QED
      BY <1>1, <3>1 DEF Discover
  <2> QED
    BY <2>1, <2>2, <2>3, <2>4 DEF QueueInv
<1>2. ASSUME NEW i \in Items, SetDisposition(i)
      PROVE  QueueInv'
  BY <1>2 DEF SetDisposition
<1>3. ASSUME NEW S \in SUBSET Items, Delete(S)
      PROVE  QueueInv'
  BY <1>3 DEF Delete
<1>4. ASSUME NEW S \in SUBSET Items, RestoreBaseline(S)
      PROVE  QueueInv'
  BY <1>4 DEF RestoreBaseline
<1> HIDE DEF TypeOK, QueueInv
<1> QED
  BY <1>1, <1>2, <1>3, <1>4 DEF EntryStep

\* So do the callers of sync_review_queue.
LEMMA SyncInv ==
    ASSUME TypeOK, QueueInv, SyncStep
    PROVE  QueueInv'
<1> USE DEF TypeOK, QueueInv, ReviewedIffEvaluated, Evaluated, RowsAndLease, RunsInOrder, OpenWork,
      Alive, Runs, ThisRun, Goto, Move,
      itemVars, queueVars, recordVars, leaseVars, pastVars, workerVars, planVars
<1>1. ASSUME NEW c \in Callers, SyncStatement(c)
      PROVE  QueueInv'
  <2>1. ReviewedIffEvaluated'
    BY <1>1 DEF SyncStatement, Execute, InsertRows, Unqueued, ReviewedRows, ArchivedRows, WaitingRows, StaleRows
  <2>2. RowsAndLease'
    BY <1>1 DEF SyncStatement, Execute, InsertRows, Unqueued, ReviewedRows, ArchivedRows, WaitingRows, StaleRows
  <2>3. RunsInOrder'
    BY <1>1 DEF SyncStatement, Execute, InsertRows, Unqueued, ReviewedRows, ArchivedRows, WaitingRows, StaleRows
  <2>4. OpenWork'
    <3>1. ASSUME ~lapsed, NEW w \in Workers, pc[w] = "asked", NEW i \in batch[w] \cap stored
          PROVE  row'[i] = row[i] /\ claim'[i] = claim[i] /\ old'[i] = old[i]
      <4>1. row[i] = "processing" /\ ~old[i] /\ ~Evaluated(i) /\ i \in Items
        BY <3>1
      <4>2. i \notin Unqueued \cup ReviewedRows \cup ArchivedRows \cup WaitingRows \cup StaleRows
        BY <4>1 DEF Unqueued, ReviewedRows, ArchivedRows, WaitingRows, StaleRows
      <4>3. Execute(statement[c])
        BY <1>1 DEF SyncStatement
      <4>4. ASSUME NEW S, NEW state, Move(S, state), i \notin S
            PROVE  row'[i] = row[i] /\ claim'[i] = claim[i] /\ old'[i] = old[i]
        BY <4>1, <4>4
      <4>5. ASSUME InsertRows
            PROVE  row'[i] = row[i] /\ claim'[i] = claim[i] /\ old'[i] = old[i]
        BY <4>1, <4>2, <4>5 DEF InsertRows
      <4> HIDE DEF Move
      <4> QED
        BY <4>2, <4>3, <4>4, <4>5 DEF Execute
    <3> QED
      BY <1>1, <3>1 DEF SyncStatement
  <2> QED
    BY <2>1, <2>2, <2>3, <2>4 DEF QueueInv
<1>2. ASSUME NEW p \in Pages, OpenPage(p)
      PROVE  QueueInv'
  BY <1>2 DEF OpenPage
<1>3. ASSUME NEW p \in Pages, NEW S \in SUBSET Items, Baseline(p, S)
      PROVE  QueueInv'
  BY <1>3 DEF Baseline
<1> HIDE DEF TypeOK, QueueInv
<1> QED
  BY <1>1, <1>2, <1>3 DEF SyncStep

\* So does a worker.
LEMMA WorkerInv ==
    ASSUME TypeOK, QueueInv, NEW w \in Workers, WorkerStep(w)
    PROVE  QueueInv'
<1> USE DEF TypeOK, QueueInv, ReviewedIffEvaluated, Evaluated, RowsAndLease, RunsInOrder, OpenWork,
      Alive, Runs, ThisRun, Goto, Move,
      itemVars, queueVars, recordVars, leaseVars, pastVars, workerVars, planVars
<1>1. CASE Start(w)
  BY <1>1 DEF Start
<1>2. CASE Blocked(w)
  BY <1>2 DEF Blocked
<1>15. CASE PlanFails(w)
  BY <1>15 DEF PlanFails
<1>3. CASE Claim(w)
  BY <1>3 DEF Claim, Claimable
<1>4. CASE Answer(w)
  BY <1>4 DEF Answer, Remember
<1>5. CASE EndLoop(w)
  BY <1>5 DEF EndLoop
<1>6. CASE Stop(w)
  BY <1>6 DEF Stop
<1>7. CASE Throw(w)
  <2>1. /\ UNCHANGED <<stored, row, claim, old, current, run, job, lease, lapsed, requests>>
        /\ pc'[w] = "raise" /\ pc[w] \in {"loop", "claim", "asked", "compose"}
        /\ \A v \in Workers \ {w} : pc'[v] = pc[v] /\ batch'[v] = batch[v]
    BY <1>7 DEF Throw, Forget
  <2>2. ReviewedIffEvaluated'
    BY <2>1
  <2>3. RowsAndLease' /\ RunsInOrder'
    BY <2>1
  <2>4. OpenWork'
    BY <2>1
  <2> QED
    BY <2>2, <2>3, <2>4 DEF QueueInv
<1>8. CASE Raise(w) \/ RaiseFails(w)
  BY <1>8 DEF Raise, RaiseFails
<1>9. CASE Release(w)
  BY <1>9 DEF Release, Forget
<1>10. CASE Crash(w)
  BY <1>10 DEF Crash, Forget
<1>11. ASSUME NEW S \in SUBSET Items, Plan(w, S)
      PROVE  QueueInv'
  BY <1>11 DEF Plan
<1>12. ASSUME NEW S \in SUBSET Items, StartBatch(w, S)
      PROVE  QueueInv'
  <2>1. ReviewedIffEvaluated'
    <3>1. run[<<w, requests[w] + 1>>] = "none"
      <4>1. requests[w] + 1 \in 1 .. MaxRequests /\ ~(requests[w] + 1 <= requests[w])
        BY <1>12 DEF StartBatch
      <4>2. \A n \in 1 .. MaxRequests : run[<<w, n>>] # "none" => n <= requests[w]
        OBVIOUS
      <4> HIDE DEF TypeOK, QueueInv, RunsInOrder
      <4> QED
        BY <4>1, <4>2
    <3>2. ASSUME NEW i \in Items, current[i] # None
          PROVE  run'[current[i]] = "success"
      <4>1. run[current[i]] = "success" /\ current[i] \in Runs
        BY <3>2
      <4>2. current[i] # <<w, requests[w] + 1>>
        BY <3>1, <4>1
      <4>3. run \in [Runs -> {"none", "running", "success", "failed"}]
        OBVIOUS
      <4> HIDE DEF TypeOK, QueueInv, Runs
      <4> QED
        BY <1>12, <4>1, <4>2, <4>3, Zenon DEF StartBatch
    <3> QED
      BY <1>12, <3>2 DEF StartBatch
  <2>2. RowsAndLease'
    BY <1>12 DEF StartBatch
  <2>3. RunsInOrder'
    BY <1>12 DEF StartBatch
  <2>4. OpenWork'
    BY <1>12 DEF StartBatch
  <2> QED
    BY <2>1, <2>2, <2>3, <2>4 DEF QueueInv
<1>13. ASSUME NEW b \in BOOLEAN, Fail(w, b)
      PROVE  QueueInv'
  BY <1>13 DEF Fail, Returned, Remember
<1>14. ASSUME NEW b \in BOOLEAN, Compose(w, b)
      PROVE  QueueInv'
  BY <1>14 DEF Compose, Verdict
<1> HIDE DEF TypeOK, QueueInv
<1> QED
  BY <1>1, <1>2, <1>3, <1>4, <1>5, <1>6, <1>7, <1>8, <1>9, <1>10, <1>11, <1>12, <1>13, <1>14, <1>15
  DEF WorkerStep

\* So do time and the recoveries.
LEMMA OutsideInv ==
    ASSUME TypeOK, QueueInv, OutsideStep
    PROVE  QueueInv'
<1> USE DEF TypeOK, QueueInv, ReviewedIffEvaluated, Evaluated, RowsAndLease, RunsInOrder, OpenWork,
      Alive, Runs, ThisRun, Goto, Move,
      itemVars, queueVars, recordVars, leaseVars, pastVars, workerVars, planVars
<1>1. ASSUME NEW i \in Items, ClaimAges(i)
      PROVE  QueueInv'
  <2>1. ReviewedIffEvaluated'
    BY <1>1 DEF ClaimAges
  <2>2. RowsAndLease'
    BY <1>1 DEF ClaimAges
  <2>3. RunsInOrder'
    BY <1>1 DEF ClaimAges
  <2>4. OpenWork'
    <3>1. ASSUME ~lapsed', NEW w \in Workers, pc[w] = "asked"
          PROVE  i \notin batch[w]
      BY <1>1, <3>1 DEF ClaimAges
    <3> QED
      BY <1>1, <3>1 DEF ClaimAges
  <2> QED
    BY <2>1, <2>2, <2>3, <2>4 DEF QueueInv
<1>2. ASSUME NEW i \in Items, DelayEnds(i)
      PROVE  QueueInv'
  BY <1>2 DEF DelayEnds
<1>3. ASSUME NEW R \in SUBSET Runs, NEW W \in SUBSET Workers, Reconcile(R, W)
      PROVE  QueueInv'
  <2>1. ReviewedIffEvaluated'
    BY <1>3 DEF Reconcile, Interrupt, StaleRows, Interruptible, OpenRuns, OpenJobs
  <2>2. RowsAndLease'
    BY <1>3 DEF Reconcile, Interrupt, StaleRows, Interruptible, OpenRuns, OpenJobs
  <2>3. RunsInOrder'
    BY <1>3 DEF Reconcile, Interrupt, StaleRows, Interruptible, OpenRuns, OpenJobs
  <2>4. OpenWork'
    <3>1. ASSUME ~lapsed, NEW w \in Workers, pc[w] \in {"loop", "claim", "asked", "compose"}
          PROVE  R = {} /\ W = {}
      <4>1. lease # None
        BY <3>1
      <4>2. Interruptible = <<{{}}, {{}}>>
        BY <4>1 DEF Interruptible
      <4> QED
        BY <1>3, <4>2 DEF Reconcile
    <3>2. ASSUME ~lapsed, NEW w \in Workers, pc[w] \in {"loop", "claim", "asked", "compose"}
          PROVE  job'[w] = job[w] /\ (pc[w] \in {"claim", "asked"} => run'[ThisRun(w)] = run[ThisRun(w)])
      BY <1>3, <3>1, <3>2 DEF Reconcile, Interrupt
    <3>3. ASSUME ~lapsed, NEW w \in Workers, pc[w] = "asked", NEW i \in batch[w] \cap stored
          PROVE  i \in Items /\ i \notin StaleRows
      BY <3>3 DEF StaleRows
    <3> QED
      BY <1>3, <3>1, <3>2, <3>3 DEF Reconcile, Interrupt
  <2> QED
    BY <2>1, <2>2, <2>3, <2>4 DEF QueueInv
<1>4. CASE LeaseEnds
  BY <1>4 DEF LeaseEnds
<1>5. CASE RecoverLocally
  <2>1. ReviewedIffEvaluated'
    BY <1>5 DEF RecoverLocally, Interrupt, OpenRuns, OpenJobs
  <2>2. RowsAndLease'
    BY <1>5 DEF RecoverLocally, Interrupt, OpenRuns, OpenJobs
  <2>3. RunsInOrder'
    BY <1>5 DEF RecoverLocally, Interrupt, OpenRuns, OpenJobs
  <2>4. OpenWork'
    BY <1>5 DEF RecoverLocally, Interrupt, OpenRuns, OpenJobs
  <2> QED
    BY <2>1, <2>2, <2>3, <2>4 DEF QueueInv
<1> HIDE DEF TypeOK, QueueInv
<1> QED
  BY <1>1, <1>2, <1>3, <1>4, <1>5 DEF OutsideStep

-----------------------------------------------------------------------------
(***************************************************************************)
(* The theorems.                                                           *)
(***************************************************************************)
\* The invariant holds at the start, and every step keeps it.
LEMMA QueueInvStep ==
    /\ Init => QueueInv
    /\ TypeOK /\ QueueInv /\ [Next]_vars => QueueInv'
<1>1. Init => QueueInv
  BY DEF Init, QueueInv, ReviewedIffEvaluated, Evaluated, RowsAndLease, RunsInOrder, OpenWork, Alive, Runs, ThisRun
<1>2. ASSUME TypeOK, QueueInv, UNCHANGED vars
      PROVE  QueueInv'
  BY <1>2 DEF QueueInv, ReviewedIffEvaluated, Evaluated, RowsAndLease, RunsInOrder, OpenWork, Alive, ThisRun,
     vars, itemVars, queueVars, recordVars, leaseVars, pastVars, workerVars, planVars
<1> QED
  BY <1>1, <1>2, EntryInv, SyncInv, WorkerInv, OutsideInv DEF Next

\* The invariant holds in every reachable state.
THEOREM QueueInvariant == Spec => [](TypeOK /\ QueueInv)
<1> QED
  BY QueueInvStep, QueueTypeCorrect, PTL DEF Spec

\* An evaluation and the state of its row agree, for any number of workers,
\* pages and entries.
THEOREM EvidenceIsKept == Spec => []ReviewedIffEvaluated
<1>1. QueueInv => ReviewedIffEvaluated
  BY DEF QueueInv
<1> QED
  BY <1>1, QueueInvariant, PTL

\* While the leases hold, a live request keeps its run, its job and its claims.
THEOREM LiveRequestsAreKept == Spec => []LiveWorkIsKept
<1>1. QueueInv => LiveWorkIsKept
  BY DEF QueueInv, OpenWork, LiveWorkIsKept
<1> QED
  BY <1>1, QueueInvariant, PTL

-----------------------------------------------------------------------------
(***************************************************************************)
(* Reviewed entries.                                                       *)
(***************************************************************************)
\* What a step does to reviewed rows.
ReviewKept == \A i \in Items : row[i] = "reviewed" /\ i \in stored' => row'[i] = "reviewed"

\* The changes of entries keep them.
LEMMA EntryStepReview ==
    ASSUME TypeOK, EntryStep
    PROVE  ReviewKept
<1> USE DEF ReviewKept, TypeOK, Move, itemVars, queueVars
<1>1. ASSUME NEW i \in Items, Discover(i)
      PROVE  ReviewKept
  BY <1>1 DEF Discover
<1>2. ASSUME NEW i \in Items, SetDisposition(i)
      PROVE  ReviewKept
  BY <1>2 DEF SetDisposition
<1>3. ASSUME NEW S \in SUBSET Items, Delete(S)
      PROVE  ReviewKept
  BY <1>3 DEF Delete
<1>4. ASSUME NEW S \in SUBSET Items, RestoreBaseline(S)
      PROVE  ReviewKept
  BY <1>4 DEF RestoreBaseline
<1> HIDE DEF TypeOK, ReviewKept
<1> QED
  BY <1>1, <1>2, <1>3, <1>4 DEF EntryStep

\* So do the callers of sync_review_queue.
LEMMA SyncReview ==
    ASSUME TypeOK, SyncStep
    PROVE  ReviewKept
<1> USE DEF ReviewKept, TypeOK, Move, itemVars, queueVars
<1>1. ASSUME NEW c \in Callers, SyncStatement(c)
      PROVE  ReviewKept
  BY <1>1 DEF SyncStatement, Execute, InsertRows, Unqueued, ReviewedRows, ArchivedRows, WaitingRows, StaleRows
<1>2. ASSUME NEW p \in Pages, OpenPage(p)
      PROVE  ReviewKept
  BY <1>2 DEF OpenPage
<1>3. ASSUME NEW p \in Pages, NEW S \in SUBSET Items, Baseline(p, S)
      PROVE  ReviewKept
  BY <1>3 DEF Baseline
<1> HIDE DEF TypeOK, ReviewKept
<1> QED
  BY <1>1, <1>2, <1>3 DEF SyncStep

\* So does a worker.
LEMMA WorkerReview ==
    ASSUME TypeOK, NEW w \in Workers, WorkerStep(w)
    PROVE  ReviewKept
<1> USE DEF ReviewKept, TypeOK, Move, itemVars, queueVars
<1>1. CASE Start(w)
  BY <1>1 DEF Start
<1>2. CASE Blocked(w) \/ PlanFails(w)
  BY <1>2 DEF Blocked, PlanFails
<1>3. CASE Claim(w)
  BY <1>3 DEF Claim, Claimable
<1>4. CASE Answer(w)
  BY <1>4 DEF Answer, Remember
<1>5. CASE EndLoop(w)
  BY <1>5 DEF EndLoop
<1>6. CASE Stop(w)
  BY <1>6 DEF Stop
<1>7. CASE Throw(w)
  BY <1>7 DEF Throw, Forget
<1>8. CASE Raise(w) \/ RaiseFails(w)
  BY <1>8 DEF Raise, RaiseFails
<1>9. CASE Release(w)
  BY <1>9 DEF Release, Forget
<1>10. CASE Crash(w)
  BY <1>10 DEF Crash, Forget
<1>11. ASSUME NEW S \in SUBSET Items, Plan(w, S)
      PROVE  ReviewKept
  BY <1>11 DEF Plan
<1>12. ASSUME NEW S \in SUBSET Items, StartBatch(w, S)
      PROVE  ReviewKept
  BY <1>12 DEF StartBatch
<1>13. ASSUME NEW b \in BOOLEAN, Fail(w, b)
      PROVE  ReviewKept
  BY <1>13 DEF Fail, Returned, Remember
<1>14. ASSUME NEW b \in BOOLEAN, Compose(w, b)
      PROVE  ReviewKept
  BY <1>14 DEF Compose, Verdict
<1> HIDE DEF TypeOK, ReviewKept
<1> QED
  BY <1>1, <1>2, <1>3, <1>4, <1>5, <1>6, <1>7, <1>8, <1>9, <1>10, <1>11, <1>12, <1>13, <1>14 DEF WorkerStep

\* So do time and the recoveries.
LEMMA OutsideReview ==
    ASSUME TypeOK, OutsideStep
    PROVE  ReviewKept
<1> USE DEF ReviewKept, TypeOK, Move, itemVars, queueVars
<1>1. ASSUME NEW i \in Items, ClaimAges(i)
      PROVE  ReviewKept
  BY <1>1 DEF ClaimAges
<1>2. ASSUME NEW i \in Items, DelayEnds(i)
      PROVE  ReviewKept
  BY <1>2 DEF DelayEnds
<1>3. ASSUME NEW R \in SUBSET Runs, NEW W \in SUBSET Workers, Reconcile(R, W)
      PROVE  ReviewKept
  BY <1>3 DEF Reconcile, Interrupt, StaleRows
<1>4. CASE LeaseEnds
  BY <1>4 DEF LeaseEnds
<1>5. CASE RecoverLocally
  BY <1>5 DEF RecoverLocally, Interrupt, OpenRuns, OpenJobs
<1> HIDE DEF TypeOK, ReviewKept
<1> QED
  BY <1>1, <1>2, <1>3, <1>4, <1>5 DEF OutsideStep

\* No failure of a request that lost its claim, and no page, undoes a review.
THEOREM ReviewsAreFinal == Spec => ReviewIsFinal
<1>1. TypeOK /\ [Next]_vars => [ReviewKept]_vars
  BY EntryStepReview, SyncReview, WorkerReview, OutsideReview DEF Next
<1> QED
  BY <1>1, QueueTypeCorrect, PTL DEF Spec, ReviewIsFinal, ReviewKept

-----------------------------------------------------------------------------
(***************************************************************************)
(* What is sent to the provider.                                           *)
(***************************************************************************)
\* What a step may send.
AskedRightly ==
    \A w \in Workers : pc[w] = "claim" /\ pc'[w] = "asked" =>
        \A i \in batch'[w] :
            /\ i \in stored /\ ~excluded[i]
            /\ ~lapsed => ~Evaluated(i)
            /\ ~lapsed => \A v \in Workers \ {w} : pc[v] = "asked" => i \notin batch[v]

\* Only a claim sends entries.
LEMMA OnlyClaimsAsk ==
    ASSUME TypeOK, Next, NEW w \in Workers, pc[w] = "claim", pc'[w] = "asked"
    PROVE  Claim(w)
<1> USE DEF TypeOK, Goto, itemVars, queueVars, recordVars, leaseVars, pastVars, workerVars, planVars
<1>1. ASSUME EntryStep \/ OutsideStep
      PROVE  FALSE
  <2>1. pc' = pc
    BY <1>1 DEF EntryStep, Discover, SetDisposition, Delete, RestoreBaseline, OutsideStep,
       ClaimAges, DelayEnds, Reconcile, LeaseEnds, RecoverLocally
  <2> QED
    BY <2>1
<1>2. ASSUME SyncStep
      PROVE  FALSE
  <2>1. pc' = pc
    BY <1>2 DEF SyncStep, SyncStatement, OpenPage, Baseline
  <2> QED
    BY <2>1
<1>3. ASSUME NEW v \in Workers, WorkerStep(v)
      PROVE  Claim(w)
  <2>1. PICK label : Goto(v, label)
    BY <1>3 DEF WorkerStep, Start, Blocked, PlanFails, Claim, Answer, EndLoop, Stop, Throw, Raise,
       RaiseFails, Release, Crash, Plan, StartBatch, Fail, Compose
  <2>2. v = w
    BY <2>1
  <2> QED
    BY <1>3, <2>2 DEF WorkerStep, Start, Blocked, PlanFails, Answer, EndLoop, Stop, Throw, Raise,
       RaiseFails, Release, Crash, Plan, StartBatch, Fail, Compose
<1> QED
  BY <1>1, <1>2, <1>3 DEF Next

\* No entry that is excluded, evaluated or already asked about is sent.
THEOREM NothingIsAskedTwice == Spec => AskedOnce
<1>1. TypeOK /\ QueueInv /\ [Next]_vars => [AskedRightly]_vars
  <2> SUFFICES ASSUME TypeOK, QueueInv, Next,
                      NEW w \in Workers, pc[w] = "claim", pc'[w] = "asked", NEW i \in batch'[w]
               PROVE  /\ i \in stored /\ ~excluded[i]
                      /\ ~lapsed => ~Evaluated(i)
                      /\ ~lapsed => \A v \in Workers \ {w} : pc[v] = "asked" => i \notin batch[v]
    BY DEF AskedRightly
  <2>1. Claim(w)
    BY OnlyClaimsAsk
  <2>2. i \in Claimable(batch[w]) /\ i \in Items
    BY <2>1 DEF Claim, Claimable, TypeOK
  <2>3. ~lapsed => ~Evaluated(i)
    BY <2>2 DEF Claimable, QueueInv, ReviewedIffEvaluated
  <2>4. ASSUME ~lapsed, NEW v \in Workers, pc[v] = "asked"
        PROVE  v = w
    BY <2>4 DEF QueueInv, RowsAndLease, Alive
  <2> QED
    BY <2>2, <2>3, <2>4 DEF Claimable
<1> QED
  BY <1>1, QueueInvariant, PTL DEF Spec, AskedOnce, AskedRightly
-----------------------------------------------------------------------------
(***************************************************************************)
(* Claims, open rows and verdicts: what every way through                  *)
(* execute_ai_update leaves behind.  No lease is needed for these.         *)
(***************************************************************************)
\* What a worker has done so far: nothing before its plan, no verdict before
\* its end; as long as it remembers them, every request before the one at
\* hand succeeded unless one is remembered as failed, and an evaluation is
\* remembered as an answer.
History(w) ==
    /\ pc[w] \in {"new", "sync"} => requests[w] = 0
    /\ job[w] \in {"success", "empty"} => pc[w] \in {"end", "done", "dead"}
    /\ pc[w] \in {"loop", "claim", "asked", "compose"} /\ "failed" \notin outcomes[w] =>
        \A n \in 1 .. requests[w] :
            n < requests[w] \/ pc[w] \in {"loop", "compose"} => run[<<w, n>>] = "success"
    /\ pc[w] \in {"new", "sync", "loop", "claim", "asked", "compose"} =>
        \A i \in Items, n \in 1 .. MaxRequests :
            current[i] = <<w, n>> => "answered" \in outcomes[w]

WorkerHistory == \A w \in Workers : History(w)

\* JobAgreesWithRuns, for one worker.
Agrees(w) ==
    /\ job[w] \in {"success", "empty"} =>
        \A n \in 1 .. requests[w] : run[<<w, n>>] = "success"
    /\ job[w] = "empty" => \A i \in Items, n \in 1 .. MaxRequests : current[i] # <<w, n>>

\* A job at work is open or failed, and an exception that leaves a run open
\* ends the work of its worker.
LeftOpen ==
    \A w \in Workers :
        /\ pc[w] \in {"loop", "claim", "asked", "compose", "raise"} =>
            job[w] \in {"running", "failed"}
        /\ \A n \in 1 .. MaxRequests : <<w, n>> \in unclosed =>
            n = requests[w] /\ pc[w] \in {"raise", "end", "done", "dead"}

BookInv ==
    NoClaimLeftBehind /\ OpenRowsHaveAWorker /\ LeftOpen /\ WorkerHistory /\ JobAgreesWithRuns

\* An empty queue keeps the books.
LEMMA BookInitial == Init => BookInv
  BY DEF Init, BookInv, NoClaimLeftBehind, OpenRowsHaveAWorker, LeftOpen, WorkerHistory,
     History, JobAgreesWithRuns, Runs

\* Steps that leave workers and records alone, and claim nothing.
LEMMA QueueKeepsBooks ==
    ASSUME TypeOK, BookInv, UNCHANGED <<run, job, pc, batch, requests, outcomes, unclosed>>,
           \A i \in Items : row'[i] = "processing" =>
               row[i] = "processing" /\ claim'[i] = claim[i],
           \A i \in Items : current'[i] \in {None, current[i]}
    PROVE  BookInv'
<1> USE DEF ThisRun, Runs
<1>1. NoClaimLeftBehind'
  BY DEF BookInv, NoClaimLeftBehind
<1>2. OpenRowsHaveAWorker'
  BY DEF BookInv, OpenRowsHaveAWorker
<1>6. LeftOpen'
  BY DEF BookInv, LeftOpen
<1>3. \A i \in Items, w \in Workers, n \in 1 .. MaxRequests :
         current'[i] = <<w, n>> => current[i] = <<w, n>>
  OBVIOUS
<1>4. WorkerHistory'
  BY <1>3 DEF BookInv, WorkerHistory, History
<1>5. JobAgreesWithRuns'
  BY <1>3 DEF BookInv, JobAgreesWithRuns
<1> QED
  BY <1>1, <1>2, <1>4, <1>5, <1>6 DEF BookInv

\* A move to a state other than "processing" claims nothing.
LEMMA MoveClaimsNothing ==
    ASSUME NEW S, NEW state, state # "processing", Move(S, state)
    PROVE  \A i \in Items : row'[i] = "processing" =>
              row[i] = "processing" /\ claim'[i] = claim[i]
  BY DEF Move

\* New entries, edits, deletions and a restored baseline keep the books.
LEMMA EntryBooks ==
    ASSUME TypeOK, BookInv, EntryStep
    PROVE  BookInv'
<1> USE DEF itemVars, queueVars, recordVars, leaseVars, pastVars, workerVars, planVars
<1>1. ASSUME NEW i \in Items, Discover(i) \/ SetDisposition(i)
      PROVE  BookInv'
  BY <1>1, QueueKeepsBooks DEF Discover, SetDisposition
<1>2. ASSUME NEW S \in SUBSET Items, Delete(S)
      PROVE  BookInv'
  BY <1>2, MoveClaimsNothing, QueueKeepsBooks DEF Delete
<1>3. ASSUME NEW S \in SUBSET Items, RestoreBaseline(S)
      PROVE  BookInv'
  BY <1>3, QueueKeepsBooks DEF RestoreBaseline
<1> QED
  BY <1>1, <1>2, <1>3 DEF EntryStep

\* The five statements of a synchronisation keep the books.
LEMMA SyncBooks ==
    ASSUME TypeOK, BookInv, SyncStep
    PROVE  BookInv'
<1> USE DEF itemVars, queueVars, recordVars, leaseVars, pastVars, workerVars, planVars
<1>1. ASSUME NEW c \in Callers, SyncStatement(c)
      PROVE  BookInv'
  <2>1. \A i \in Items : row'[i] = "processing" => row[i] = "processing" /\ claim'[i] = claim[i]
    BY <1>1, MoveClaimsNothing DEF SyncStatement, Execute, InsertRows
  <2> QED
    BY <1>1, <2>1, QueueKeepsBooks DEF SyncStatement
<1>2. ASSUME NEW p \in Pages, OpenPage(p)
      PROVE  BookInv'
  BY <1>2, QueueKeepsBooks DEF OpenPage
<1>3. ASSUME NEW p \in Pages, NEW S \in SUBSET Items, Baseline(p, S)
      PROVE  BookInv'
  BY <1>3, QueueKeepsBooks DEF Baseline
<1> QED
  BY <1>1, <1>2, <1>3 DEF SyncStep

\* A step of a worker that touches no row of the queue, and that does not leave
\* a request behind without a word.
LEMMA WorkerKeepsClaims ==
    ASSUME TypeOK, NoClaimLeftBehind, NEW w \in Workers, NEW label, Goto(w, label),
           UNCHANGED <<row, claim, requests>>, unclosed \subseteq unclosed',
           \A v \in Workers \ {w} : batch'[v] = batch[v],
           pc[w] \notin {"asked", "dead"} \/ label = "dead" \/ ThisRun(w) \in unclosed'
    PROVE  NoClaimLeftBehind'
  BY DEF NoClaimLeftBehind, TypeOK, Goto, ThisRun

\* A worker leaves no claim behind.
LEMMA WorkerClaims ==
    ASSUME TypeOK, NoClaimLeftBehind, LeftOpen, NEW w \in Workers, WorkerStep(w)
    PROVE  NoClaimLeftBehind'
<1> USE DEF itemVars, queueVars, recordVars, leaseVars, pastVars, workerVars, planVars
<1>1. CASE \/ Start(w) \/ Blocked(w) \/ PlanFails(w) \/ EndLoop(w) \/ Stop(w) \/ Raise(w)
           \/ RaiseFails(w)
  BY <1>1, WorkerKeepsClaims
     DEF Start, Blocked, PlanFails, EndLoop, Stop, Raise, RaiseFails
<1>2. CASE Throw(w) \/ Release(w) \/ Crash(w)
  <2>1. \A v \in Workers \ {w} : batch'[v] = batch[v]
    BY <1>2 DEF Throw, Release, Crash, Forget, TypeOK
  <2> QED
    BY <1>2, <2>1, WorkerKeepsClaims DEF Throw, Release, Crash
<1>3. CASE Claim(w)
  <2>1. /\ pc[w] = "claim" /\ requests' = requests /\ unclosed' = unclosed
        /\ \A v \in Workers \ {w} : pc'[v] = pc[v] /\ batch'[v] = batch[v]
    BY <1>3 DEF Claim, TypeOK, Goto
  <2>2. ASSUME NEW i \in Claimable(batch[w])
        PROVE  pc'[w] = "asked" /\ i \in batch'[w] /\ claim'[i] = ThisRun(w)'
    BY <1>3, <2>2 DEF Claim, Claimable, TypeOK, Goto, ThisRun
  <2>3. ASSUME NEW i \in Items \ Claimable(batch[w]), row'[i] = "processing"
        PROVE  row[i] = "processing" /\ claim'[i] = claim[i]
    BY <1>3, <2>3 DEF Claim
  <2>4. ASSUME NEW i \in Items, row'[i] = "processing"
        PROVE  \E v \in Workers :
                  /\ claim'[i] = ThisRun(v)'
                  /\ pc'[v] = "dead" \/ ThisRun(v)' \in unclosed'
                     \/ (pc'[v] = "asked" /\ i \in batch'[v])
    <3>1. CASE i \in Claimable(batch[w])
      BY <2>2, <3>1
    <3>2. CASE i \notin Claimable(batch[w])
      <4>1. row[i] = "processing" /\ claim'[i] = claim[i]
        BY <2>3, <2>4, <3>2
      <4>2. PICK v \in Workers :
                /\ claim[i] = ThisRun(v)
                /\ pc[v] = "dead" \/ ThisRun(v) \in unclosed \/ (pc[v] = "asked" /\ i \in batch[v])
        BY <4>1 DEF NoClaimLeftBehind
      <4>3. v = w => ThisRun(v) \in unclosed
        BY <2>1, <4>2
      <4> QED
        BY <2>1, <4>1, <4>2, <4>3 DEF ThisRun
    <3> QED
      BY <3>1, <3>2
  <2> QED
    BY <2>4 DEF NoClaimLeftBehind
<1>4. CASE Answer(w)
  BY <1>4 DEF Answer, NoClaimLeftBehind, TypeOK, Goto, ThisRun
<1>5. ASSUME NEW S \in SUBSET Items, Plan(w, S)
      PROVE  NoClaimLeftBehind'
  BY <1>5, WorkerKeepsClaims DEF Plan
<1>6. ASSUME NEW S \in SUBSET Items, StartBatch(w, S)
      PROVE  NoClaimLeftBehind'
  <2>1. ThisRun(w) \notin unclosed /\ pc[w] \notin {"dead", "asked"}
    <3>1. pc[w] = "loop" /\ requests[w] \in 0 .. MaxRequests /\ unclosed \subseteq Runs \cup Workers
      BY <1>6 DEF StartBatch, TypeOK
    <3>2. ASSUME ThisRun(w) \in unclosed
          PROVE  requests[w] \in 1 .. MaxRequests
      BY <3>1, <3>2 DEF ThisRun, Runs
    <3> QED
      BY <3>1, <3>2 DEF LeftOpen, ThisRun
  <2> QED
    BY <1>6, <2>1 DEF StartBatch, NoClaimLeftBehind, TypeOK, Goto, ThisRun
<1>7. ASSUME NEW b \in BOOLEAN, Fail(w, b)
      PROVE  NoClaimLeftBehind'
  BY <1>7 DEF Fail, Returned, NoClaimLeftBehind, TypeOK, Goto, ThisRun
<1>8. ASSUME NEW b \in BOOLEAN, Compose(w, b)
      PROVE  NoClaimLeftBehind'
  BY <1>8, WorkerKeepsClaims DEF Compose
<1> QED
  BY <1>1, <1>2, <1>3, <1>4, <1>5, <1>6, <1>7, <1>8 DEF WorkerStep

\* A worker leaves no open run or job behind without a word.
LEMMA WorkerOpenRows ==
    ASSUME TypeOK, OpenRowsHaveAWorker, LeftOpen, NEW w \in Workers, WorkerStep(w)
    PROVE  OpenRowsHaveAWorker'
<1> USE DEF TypeOK, OpenRowsHaveAWorker, LeftOpen, Runs, Goto, ThisRun, itemVars, queueVars, recordVars,
      leaseVars, pastVars, workerVars, planVars
<1>1. CASE Start(w) \/ Blocked(w) \/ EndLoop(w) \/ Release(w) \/ Crash(w)
  BY <1>1 DEF Start, Blocked, EndLoop, Release, Crash
<1>2. CASE Stop(w) \/ Raise(w)
  BY <1>2 DEF Stop, Raise
<1>9. CASE Throw(w)
  BY <1>9 DEF Throw
<1>10. CASE PlanFails(w) \/ RaiseFails(w)
  BY <1>10 DEF PlanFails, RaiseFails
<1>3. CASE Claim(w)
  BY <1>3 DEF Claim
<1>4. CASE Answer(w)
  BY <1>4 DEF Answer
<1>5. ASSUME NEW S \in SUBSET Items, Plan(w, S)
      PROVE  OpenRowsHaveAWorker'
  BY <1>5 DEF Plan
<1>6. ASSUME NEW S \in SUBSET Items, StartBatch(w, S)
      PROVE  OpenRowsHaveAWorker'
  BY <1>6 DEF StartBatch
<1>7. ASSUME NEW b \in BOOLEAN, Fail(w, b)
      PROVE  OpenRowsHaveAWorker'
  BY <1>7 DEF Fail
<1>8. ASSUME NEW b \in BOOLEAN, Compose(w, b)
      PROVE  OpenRowsHaveAWorker'
  BY <1>8 DEF Compose, Verdict
<1> HIDE DEF TypeOK, OpenRowsHaveAWorker, LeftOpen
<1> QED
  BY <1>1, <1>2, <1>3, <1>4, <1>5, <1>6, <1>7, <1>8, <1>9, <1>10 DEF WorkerStep

\* An exception that leaves a run open ends the work of its worker.
LEMMA WorkerLeftOpen ==
    ASSUME TypeOK, LeftOpen, NEW w \in Workers, WorkerStep(w)
    PROVE  LeftOpen'
<1> USE DEF TypeOK, LeftOpen, Runs, Goto, ThisRun, itemVars, queueVars, recordVars, leaseVars,
      pastVars, workerVars, planVars
<1>1. CASE Start(w) \/ Blocked(w) \/ EndLoop(w) \/ Release(w) \/ Crash(w)
  BY <1>1 DEF Start, Blocked, EndLoop, Release, Crash
<1>2. CASE Stop(w) \/ Raise(w)
  BY <1>2 DEF Stop, Raise
<1>3. CASE Throw(w)
  BY <1>3 DEF Throw
<1>4. CASE PlanFails(w) \/ RaiseFails(w)
  <2>1. \A v \in Workers, n \in 1 .. MaxRequests : <<v, n>> \in unclosed' => <<v, n>> \in unclosed
    BY <1>4 DEF PlanFails, RaiseFails
  <2> QED
    BY <1>4, <2>1 DEF PlanFails, RaiseFails
<1>5. CASE Claim(w) \/ Answer(w)
  BY <1>5 DEF Claim, Answer
<1>6. ASSUME NEW S \in SUBSET Items, Plan(w, S)
      PROVE  LeftOpen'
  BY <1>6 DEF Plan
<1>7. ASSUME NEW S \in SUBSET Items, StartBatch(w, S)
      PROVE  LeftOpen'
  BY <1>7 DEF StartBatch
<1>8. ASSUME NEW b \in BOOLEAN, Fail(w, b)
      PROVE  LeftOpen'
  BY <1>8 DEF Fail
<1>9. ASSUME NEW b \in BOOLEAN, Compose(w, b)
      PROVE  LeftOpen'
  BY <1>9 DEF Compose, Verdict
<1> HIDE DEF TypeOK, LeftOpen
<1> QED
  BY <1>1, <1>2, <1>3, <1>4, <1>5, <1>6, <1>7, <1>8, <1>9 DEF WorkerStep

\* What a step of one worker leaves to the others.
LEMMA OthersKeepRecords ==
    ASSUME TypeOK, NEW w \in Workers, WorkerStep(w), NEW v \in Workers \ {w}
    PROVE  /\ pc'[v] = pc[v] /\ requests'[v] = requests[v]
           /\ job'[v] = job[v] /\ outcomes'[v] = outcomes[v]
           /\ \A n \in 1 .. MaxRequests : run'[<<v, n>>] = run[<<v, n>>]
           /\ \A i \in Items, n \in 1 .. MaxRequests :
                current'[i] = <<v, n>> => current[i] = <<v, n>>
<1> USE DEF TypeOK, Runs, Goto, ThisRun, itemVars, queueVars, recordVars, leaseVars, pastVars, workerVars,
      planVars
<1>1. CASE Start(w) \/ Blocked(w) \/ EndLoop(w) \/ Throw(w) \/ Release(w) \/ Crash(w)
  BY <1>1 DEF Start, Blocked, EndLoop, Throw, Release, Crash, Forget
<1>2. CASE Stop(w) \/ Raise(w) \/ PlanFails(w) \/ RaiseFails(w) \/ Claim(w)
  BY <1>2 DEF Stop, Raise, PlanFails, RaiseFails, Claim
<1>3. CASE Answer(w)
  BY <1>3 DEF Answer, Remember
<1>4. CASE \E S \in SUBSET Items : Plan(w, S) \/ StartBatch(w, S)
  BY <1>4 DEF Plan, StartBatch
<1>5. CASE \E b \in BOOLEAN : Fail(w, b) \/ Compose(w, b)
  BY <1>5 DEF Fail, Remember, Compose
<1> HIDE DEF TypeOK
<1> QED
  BY <1>1, <1>2, <1>3, <1>4, <1>5 DEF WorkerStep

\* A worker's count of its batches agrees with the runs it left, and its
\* answer with that count.
LEMMA WorkerRecords ==
    ASSUME TypeOK, WorkerHistory, JobAgreesWithRuns, NEW w \in Workers, WorkerStep(w)
    PROVE  (\A v \in Workers : History(v))' /\ (\A v \in Workers : Agrees(v))'
<1>1. History(w) /\ Agrees(w)
  BY DEF WorkerHistory, JobAgreesWithRuns, Agrees
<1>2. ASSUME NEW v \in Workers \ {w}
      PROVE  History(v)' /\ Agrees(v)'
  <2>1. History(v) /\ Agrees(v) /\ requests[v] \in 0 .. MaxRequests
    BY DEF WorkerHistory, JobAgreesWithRuns, Agrees, TypeOK
  <2> QED
    BY <2>1, OthersKeepRecords DEF History, Agrees
<1>3. History(w)' /\ Agrees(w)'
  <2> USE <1>1 DEF TypeOK, History, Agrees, Runs, Goto, ThisRun, itemVars, queueVars,
        recordVars, leaseVars, pastVars, workerVars, planVars
  <2>1. CASE Start(w) \/ Blocked(w) \/ EndLoop(w)
    BY <2>1 DEF Start, Blocked, EndLoop
  <2>2. CASE Throw(w) \/ Release(w) \/ Crash(w)
    BY <2>2 DEF Throw, Release, Crash
  <2>3. CASE Stop(w) \/ Raise(w) \/ PlanFails(w) \/ RaiseFails(w)
    BY <2>3 DEF Stop, Raise, PlanFails, RaiseFails
  <2>4. CASE Claim(w)
    <3> USE <2>4 DEF Claim
    <3>1. job'[w] = job[w] /\ requests'[w] = requests[w] /\ requests[w] \in 1 .. MaxRequests
      OBVIOUS
    <3>2. job'[w] \notin {"success", "empty"} /\ pc'[w] \in {"loop", "asked"}
      BY <3>1
    <3>3. \A n \in 1 .. MaxRequests : n # requests[w] => run'[<<w, n>>] = run[<<w, n>>]
      OBVIOUS
    <3>4. pc'[w] = "loop" => run'[ThisRun(w)] = "success"
      OBVIOUS
    <3>5. current' = current /\ outcomes' = outcomes
      OBVIOUS
    <3>6. Agrees(w)'
      BY <3>2
    <3>7. ASSUME (pc[w] \in {"loop", "claim", "asked", "compose"} /\ "failed" \notin outcomes[w])'
          PROVE  (\A n \in 1 .. requests[w] :
                    n < requests[w] \/ pc[w] \in {"loop", "compose"} => run[<<w, n>>] = "success")'
      <4>1. \A n \in 1 .. requests[w] : n < requests[w] => run[<<w, n>>] = "success"
        BY <3>5, <3>7
      <4>2. \A n \in 1 .. requests[w] : n < requests[w] => run'[<<w, n>>] = "success"
        BY <3>1, <3>3, <4>1
      <4>3. \A n \in 1 .. requests[w] : n < requests[w] \/ n = requests[w]
        <5> HIDE DEF TypeOK, History, Agrees, Claim, Answer
        <5> HIDE <2>4
        <5> QED
          BY <3>1, SMTT(30)
      <4> HIDE DEF TypeOK, History, Agrees, Claim, Answer
      <4> QED
        BY <3>1, <3>2, <3>4, <4>2, <4>3 DEF ThisRun
    <3> QED
      BY <3>1, <3>2, <3>5, <3>6, <3>7
  <2>5. CASE Answer(w)
    <3> USE <2>5 DEF Answer, Remember
    <3>1. job'[w] = job[w] /\ requests'[w] = requests[w] /\ requests[w] \in 1 .. MaxRequests
      OBVIOUS
    <3>2. job'[w] \notin {"success", "empty"} /\ pc'[w] \in {"loop", "asked"}
      BY <3>1
    <3>3. \A n \in 1 .. MaxRequests : n # requests[w] => run'[<<w, n>>] = run[<<w, n>>]
      OBVIOUS
    <3>4. pc'[w] = "loop" => run'[ThisRun(w)] = "success"
      OBVIOUS
    <3>5. /\ "answered" \in outcomes'[w]
          /\ "failed" \notin outcomes'[w] => "failed" \notin outcomes[w]
      OBVIOUS
    <3>6. Agrees(w)'
      BY <3>2
    <3>7. ASSUME (pc[w] \in {"loop", "claim", "asked", "compose"} /\ "failed" \notin outcomes[w])'
          PROVE  (\A n \in 1 .. requests[w] :
                    n < requests[w] \/ pc[w] \in {"loop", "compose"} => run[<<w, n>>] = "success")'
      <4>1. \A n \in 1 .. requests[w] : n < requests[w] => run[<<w, n>>] = "success"
        BY <3>5, <3>7
      <4>2. \A n \in 1 .. requests[w] : n < requests[w] => run'[<<w, n>>] = "success"
        BY <3>1, <3>3, <4>1
      <4>3. \A n \in 1 .. requests[w] : n < requests[w] \/ n = requests[w]
        <5> HIDE DEF TypeOK, History, Agrees, Claim, Answer
        <5> HIDE <2>5
        <5> QED
          BY <3>1, SMTT(30)
      <4> HIDE DEF TypeOK, History, Agrees, Claim, Answer
      <4> QED
        BY <3>1, <3>2, <3>4, <4>2, <4>3 DEF ThisRun
    <3> QED
      BY <3>1, <3>2, <3>5, <3>6, <3>7
  <2>6. ASSUME NEW S \in SUBSET Items, Plan(w, S)
        PROVE  History(w)' /\ Agrees(w)'
    BY <2>6 DEF Plan
  <2>7. ASSUME NEW S \in SUBSET Items, StartBatch(w, S)
        PROVE  History(w)' /\ Agrees(w)'
    BY <2>7 DEF StartBatch
  <2>8. ASSUME NEW b \in BOOLEAN, Fail(w, b)
        PROVE  History(w)' /\ Agrees(w)'
    BY <2>8 DEF Fail, Remember
  <2>9. ASSUME NEW b \in BOOLEAN, Compose(w, b)
        PROVE  History(w)' /\ Agrees(w)'
    BY <2>9 DEF Compose, Verdict
  <2> HIDE DEF TypeOK, History, Agrees
  <2> QED
    BY <2>1, <2>2, <2>3, <2>4, <2>5, <2>6, <2>7, <2>8, <2>9 DEF WorkerStep
<1> QED
  BY <1>2, <1>3

\* A recovery closes open records only.
LEMMA InterruptKeepsBooks ==
    ASSUME TypeOK, BookInv, NEW R, NEW W, R \subseteq OpenRuns, W \subseteq OpenJobs,
           Interrupt(R, W), UNCHANGED <<current, pc, batch, requests, outcomes, unclosed>>,
           \A i \in Items : row'[i] = "processing" =>
               row[i] = "processing" /\ claim'[i] = claim[i]
    PROVE  BookInv'
<1> USE DEF ThisRun, Runs
<1>1. \A r \in Runs : (run'[r] = "success" <=> run[r] = "success")
                      /\ (run'[r] = "running" => run[r] = "running")
  BY DEF Interrupt, OpenRuns
<1>2. \A w \in Workers : /\ job'[w] = "running" => job[w] = "running"
                         /\ job'[w] = "success" <=> job[w] = "success"
                         /\ job'[w] = "empty" <=> job[w] = "empty"
                         /\ job[w] \in {"running", "failed"} => job'[w] \in {"running", "failed"}
  BY DEF Interrupt, OpenJobs
<1>3. NoClaimLeftBehind'
  BY DEF BookInv, NoClaimLeftBehind
<1>4. OpenRowsHaveAWorker'
  BY <1>1, <1>2 DEF BookInv, OpenRowsHaveAWorker
<1>8. LeftOpen'
  BY <1>2 DEF BookInv, LeftOpen
<1>5. \A w \in Workers : \A n \in 1 .. requests[w] : <<w, n>> \in Runs
  BY DEF TypeOK
<1>6. WorkerHistory'
  BY <1>1, <1>2, <1>5 DEF BookInv, WorkerHistory, History
<1>7. JobAgreesWithRuns'
  BY <1>1, <1>2, <1>5 DEF BookInv, JobAgreesWithRuns
<1> QED
  BY <1>3, <1>4, <1>6, <1>7, <1>8 DEF BookInv

\* The clock, the leases and both recoveries keep the books.
LEMMA OutsideBooks ==
    ASSUME TypeOK, BookInv, OutsideStep
    PROVE  BookInv'
<1> USE DEF itemVars, queueVars, recordVars, leaseVars, pastVars, workerVars, planVars
<1>1. ASSUME NEW i \in Items, ClaimAges(i) \/ DelayEnds(i)
      PROVE  BookInv'
  BY <1>1, QueueKeepsBooks DEF ClaimAges, DelayEnds
<1>2. ASSUME NEW R \in SUBSET Runs, NEW W \in SUBSET Workers, Reconcile(R, W)
      PROVE  BookInv'
  <2>1. R \subseteq OpenRuns /\ W \subseteq OpenJobs
    BY <1>2 DEF Reconcile, Interruptible
  <2> QED
    BY <1>2, <2>1, MoveClaimsNothing, InterruptKeepsBooks DEF Reconcile
<1>3. CASE LeaseEnds
  BY <1>3, QueueKeepsBooks DEF LeaseEnds
<1>4. CASE RecoverLocally
  BY <1>4, InterruptKeepsBooks DEF RecoverLocally
<1> QED
  BY <1>1, <1>2, <1>3, <1>4 DEF OutsideStep

\* Every step keeps the books.
LEMMA BookStep ==
    ASSUME TypeOK, BookInv, [Next]_vars
    PROVE  BookInv'
<1>1. ASSUME UNCHANGED vars
      PROVE  BookInv'
  BY <1>1, QueueKeepsBooks DEF vars, itemVars, queueVars, recordVars, leaseVars, pastVars, workerVars,
     planVars
<1>2. ASSUME NEW w \in Workers, WorkerStep(w)
      PROVE  BookInv'
  BY <1>2, WorkerClaims, WorkerOpenRows, WorkerLeftOpen, WorkerRecords
     DEF BookInv, WorkerHistory, JobAgreesWithRuns, Agrees
<1> QED
  BY <1>1, <1>2, EntryBooks, SyncBooks, OutsideBooks DEF Next

\* The books of the queue are in order.
LEMMA BookInvariant == Spec => []BookInv
<1>1. TypeOK /\ BookInv /\ [Next]_vars => BookInv'
  BY BookStep
<1> QED
  BY <1>1, BookInitial, QueueTypeCorrect, PTL DEF Spec

\* A claimed row has a worker that will settle it, or one that died or could
\* not even record that its request failed, for any number of workers, batches
\* and entries, also when leases lapse.
THEOREM ClaimsHaveAWorker == Spec => []NoClaimLeftBehind
<1>1. BookInv => NoClaimLeftBehind
  BY DEF BookInv
<1> QED
  BY <1>1, BookInvariant, PTL

\* A run or a job is open only while its worker is at it, after it died, or
\* when an exception left the row open that no handler closes: one between the
\* row of the job and the `try`, in the transaction of a claim, or in a handler.
\* Every other way out of execute_ai_update closes both.
THEOREM OpenRowsAreWorkedOn == Spec => []OpenRowsHaveAWorker
<1>1. BookInv => OpenRowsHaveAWorker
  BY DEF BookInv
<1> QED
  BY <1>1, BookInvariant, PTL

\* A job that reports success, or that there was nothing to do, had no request
\* that failed, and with nothing to do it has evaluated nothing.
THEOREM VerdictsAreTrue == Spec => []JobAgreesWithRuns
<1>1. BookInv => JobAgreesWithRuns
  BY DEF BookInv
<1> QED
  BY <1>1, BookInvariant, PTL

-----------------------------------------------------------------------------
(***************************************************************************)
(* The queue implements EntryReview.  Two more facts are needed: a claimed *)
(* row carries a run, and what a step does once a claim is overdue.        *)
(***************************************************************************)
\* A claimed row carries the run that claimed it.
ClaimsAreNamed == \A i \in Items : row[i] = "processing" => claim[i] \in Runs

\* What a step does to claims: it adds none, or it is a claim.
LEMMA ClaimsNamedStep ==
    ASSUME TypeOK, ClaimsAreNamed, [Next]_vars
    PROVE  ClaimsAreNamed'
<1> USE DEF itemVars, queueVars, recordVars, leaseVars, pastVars, workerVars, planVars
<1>1. ASSUME \A i \in Items : row'[i] = "processing" =>
                 row[i] = "processing" /\ claim'[i] = claim[i]
      PROVE  ClaimsAreNamed'
  BY <1>1 DEF ClaimsAreNamed
<1>2. CASE UNCHANGED vars
  BY <1>1, <1>2 DEF vars
<1>3. CASE EntryStep
  BY <1>1, <1>3, MoveClaimsNothing
  DEF EntryStep, Discover, SetDisposition, Delete, RestoreBaseline
<1>4. CASE SyncStep
  BY <1>1, <1>4, MoveClaimsNothing DEF SyncStep, SyncStatement, Execute, InsertRows, OpenPage, Baseline
<1>5. CASE OutsideStep
  BY <1>1, <1>5, MoveClaimsNothing
  DEF OutsideStep, ClaimAges, DelayEnds, Reconcile, LeaseEnds, RecoverLocally
<1>6. ASSUME NEW w \in Workers, WorkerStep(w)
      PROVE  ClaimsAreNamed'
  <2>1. CASE Claim(w)
    <3>1. ThisRun(w) \in Runs
      BY <2>1 DEF Claim, TypeOK, ThisRun, Runs
    <3> QED
      BY <2>1, <3>1 DEF Claim, ClaimsAreNamed
  <2>2. CASE Answer(w)
    BY <1>1, <2>2 DEF Answer
  <2>3. CASE \E b \in BOOLEAN : Fail(w, b)
    BY <1>1, <2>3 DEF Fail
  <2> QED
    BY <1>1, <1>6, <2>1, <2>2, <2>3 DEF WorkerStep, Start, Blocked, PlanFails, EndLoop, Stop,
       Throw, Raise, RaiseFails, Release, Crash, Plan, StartBatch, Compose
<1> QED
  BY <1>2, <1>3, <1>4, <1>5, <1>6 DEF Next

ReviewInv == TypeOK /\ QueueInv /\ BookInv /\ ClaimsAreNamed

\* All of it holds in every reachable state.
LEMMA ReviewInvariant == Spec => []ReviewInv
<1>1. Init => ClaimsAreNamed
  BY DEF Init, ClaimsAreNamed
<1>2. TypeOK /\ ClaimsAreNamed /\ [Next]_vars => ClaimsAreNamed'
  BY ClaimsNamedStep
<1> QED
  BY <1>1, <1>2, QueueInvariant, BookInvariant, PTL DEF Spec, ReviewInv

\* A row that stays as it is, or that is neither claimed nor reviewed before
\* and after the step, is the same entry to EntryReview.
LEMMA SameEntries ==
    ASSUME \A i \in Items :
              \/ row'[i] = row[i] /\ claim'[i] = claim[i] /\ current'[i] = current[i]
              \/ /\ row[i] \notin {"processing", "reviewed"}
                 /\ row'[i] \notin {"processing", "reviewed"}
    PROVE  held' = held /\ answer' = answer
  BY DEF held, answer

\* Requests end where workers leave the positions "claim" and "asked".
LEMMA SameRequests ==
    ASSUME UNCHANGED requests,
           \A w \in Workers : pc'[w] \in {"claim", "asked"} <=> pc[w] \in {"claim", "asked"}
    PROVE  ended' = ended
  BY DEF ended, Runs

\* The request at hand is not over.
LEMMA RequestAtHand ==
    ASSUME TypeOK, NEW w \in Workers, pc[w] \in {"claim", "asked"}
    PROVE  ThisRun(w) \in Runs /\ ThisRun(w) \notin ended
  BY DEF TypeOK, ThisRun, Runs, ended

\* A worker that leaves those positions ends its request, and no other.
LEMMA RequestEnds ==
    ASSUME TypeOK, NEW w \in Workers, pc[w] \in {"claim", "asked"}, UNCHANGED requests,
           NEW label, label \notin {"claim", "asked"}, Goto(w, label)
    PROVE  ended' = ended \cup {ThisRun(w)}
<1>1. requests[w] \in 1 .. MaxRequests
  BY DEF TypeOK
<1>2. ASSUME NEW r \in Runs
      PROVE  r \in ended' <=> r \in ended \/ r = ThisRun(w)
  <2>1. CASE r[1] = w
    <3>1. r = <<w, r[2]>> /\ r[2] \in 1 .. MaxRequests
      BY <2>1 DEF Runs
    <3>2. pc'[w] = label
      BY DEF Goto, TypeOK
    <3> QED
      BY <1>1, <2>1, <3>1, <3>2 DEF ended, ThisRun
  <2>2. CASE r[1] # w
    <3>1. pc'[r[1]] = pc[r[1]] /\ r # ThisRun(w)
      BY <2>2 DEF Goto, TypeOK, Runs, ThisRun
    <3> QED
      BY <3>1 DEF ended
  <2> QED
    BY <2>1, <2>2
<1>3. ended \subseteq Runs /\ ended' \subseteq Runs /\ ThisRun(w) \in Runs
  BY RequestAtHand DEF ended
<1> QED
  BY <1>2, <1>3

\* The request at hand has not been left open by an exception.
LEMMA OpenRequest ==
    ASSUME TypeOK, BookInv, NEW w \in Workers, pc[w] \in {"claim", "asked"}
    PROVE  ThisRun(w) \notin unclosed
  BY DEF TypeOK, BookInv, LeftOpen, ThisRun

\* While the leases hold, a request has taken what its worker has in hand.
LEMMA HeldByRequest ==
    ASSUME ReviewInv, ~lapsed, NEW w \in Workers, pc[w] = "asked"
    PROVE  Reviews!HeldBy(ThisRun(w)) = {i \in batch[w] : row[i] = "processing"}
<1>1. ASSUME NEW i \in Items, held[i] = ThisRun(w)
      PROVE  i \in batch[w] /\ row[i] = "processing"
  <2>1. ThisRun(w) # None
    BY RequestAtHand DEF ReviewInv
  <2>2. row[i] = "processing" /\ claim[i] = ThisRun(w)
    BY <1>1, <2>1 DEF held
  <2>3. PICK v \in Workers :
            /\ claim[i] = ThisRun(v)
            /\ pc[v] = "dead" \/ ThisRun(v) \in unclosed \/ (pc[v] = "asked" /\ i \in batch[v])
    BY <2>2 DEF ReviewInv, BookInv, NoClaimLeftBehind
  <2>4. v = w
    BY <2>2, <2>3 DEF ThisRun
  <2> QED
    BY <2>2, <2>3, <2>4, OpenRequest DEF ReviewInv
<1>2. ASSUME NEW i \in batch[w], row[i] = "processing"
      PROVE  i \in Items /\ held[i] = ThisRun(w)
  <2>1. i \in Items /\ i \in stored
    BY <1>2 DEF ReviewInv, TypeOK, QueueInv, RowsAndLease
  <2>2. claim[i] = ThisRun(w)
    BY <2>1 DEF ReviewInv, QueueInv, OpenWork
  <2> QED
    BY <1>2, <2>1, <2>2 DEF held
<1> QED
  BY <1>1, <1>2 DEF Reviews!HeldBy

\* While the leases hold, a stale claim is that of a request that is over.
LEMMA StaleAreOver ==
    ASSUME ReviewInv, ~lapsed, NEW i \in StaleRows
    PROVE  held[i] \in ended
<1>1. i \in Items /\ i \in stored /\ row[i] = "processing" /\ old[i]
  BY DEF StaleRows, ReviewInv, TypeOK
<1>2. PICK w \in Workers :
          /\ claim[i] = ThisRun(w)
          /\ pc[w] = "dead" \/ ThisRun(w) \in unclosed \/ (pc[w] = "asked" /\ i \in batch[w])
  BY <1>1 DEF ReviewInv, BookInv, NoClaimLeftBehind
<1>3. pc[w] \notin {"claim", "asked"}
  BY <1>1, <1>2, OpenRequest DEF ReviewInv, QueueInv, OpenWork
<1>4. ThisRun(w) \in Runs
  BY <1>1, <1>2 DEF ReviewInv, ClaimsAreNamed
<1> QED
  BY <1>1, <1>2, <1>3, <1>4 DEF held, ended, ThisRun

-----------------------------------------------------------------------------
(***************************************************************************)
(* The steps, while the leases hold.                                       *)
(***************************************************************************)
\* What a step in order is to EntryReview.
Orderly == Reviews!InOrder

\* A step that changes no entry and no request.
LEMMA Stutters ==
    ASSUME UNCHANGED <<stored, requests, pc>>, held' = held, answer' = answer
    PROVE  Orderly
  BY SameRequests DEF Orderly, Reviews!InOrder

\* The return of stale claims.
LEMMA StaleReturn ==
    ASSUME ReviewInv, ~lapsed, Move(StaleRows, "retry"), UNCHANGED <<stored, current, requests, pc>>
    PROVE  Orderly
<1>1. StaleRows \in SUBSET Items
  BY DEF StaleRows, ReviewInv, TypeOK
<1>2. held' = Reviews!Set(held, StaleRows, None)
  BY DEF Move, held, Reviews!Set
<1>3. answer' = answer
  BY DEF Move, answer, StaleRows
<1>4. Reviews!GiveBack(StaleRows)
  BY <1>2, <1>3, StaleAreOver, SameRequests DEF Reviews!GiveBack
<1> QED
  BY <1>1, <1>4 DEF Orderly, Reviews!InOrder

\* The changes of entries.
LEMMA EntryOrder ==
    ASSUME ReviewInv, EntryStep
    PROVE  Orderly
<1> USE DEF itemVars, queueVars, recordVars, leaseVars, pastVars, workerVars, planVars
<1>1. ASSUME NEW i \in Items, Discover(i)
      PROVE  Orderly
  <2>1. held' = held /\ answer' = answer /\ ended' = ended
    BY <1>1, SameEntries, SameRequests DEF Discover
  <2>2. Reviews!Arrive(i)
    BY <1>1, <2>1 DEF Discover, Reviews!Arrive
  <2> QED
    BY <2>2 DEF Orderly, Reviews!InOrder
<1>2. ASSUME NEW S \in SUBSET Items, Delete(S)
      PROVE  Orderly
  <2>1. held' = Reviews!Set(held, S, None) /\ answer' = Reviews!Set(answer, S, None)
    BY <1>2 DEF Delete, Move, held, answer, Reviews!Set
  <2>2. ended' = ended
    BY <1>2, SameRequests DEF Delete
  <2>3. Reviews!Depart(S)
    BY <1>2, <2>1, <2>2 DEF Delete, Reviews!Depart
  <2> QED
    BY <2>3 DEF Orderly, Reviews!InOrder
<1>3. ASSUME NEW i \in Items, SetDisposition(i)
      PROVE  Orderly
  BY <1>3, SameEntries, Stutters DEF SetDisposition
<1>4. ASSUME NEW S \in SUBSET Items, RestoreBaseline(S)
      PROVE  Orderly
  BY <1>4, SameEntries, Stutters DEF RestoreBaseline
<1> QED
  BY <1>1, <1>2, <1>3, <1>4 DEF EntryStep

\* The callers of sync_review_queue.
LEMMA SyncOrder ==
    ASSUME ReviewInv, ~lapsed, SyncStep
    PROVE  Orderly
<1> USE DEF itemVars, queueVars, recordVars, leaseVars, pastVars, workerVars, planVars
<1>1. ASSUME NEW c \in Callers, SyncStatement(c)
      PROVE  Orderly
  <2>1. UNCHANGED <<stored, current, requests, pc>>
    BY <1>1 DEF SyncStatement
  <2>2. ASSUME NEW S, NEW state \in {"archived", "waiting", "reviewed"}, Move(S, state),
               \A i \in Items \cap S : row[i] \notin {"processing", "reviewed"},
               state = "reviewed" => S = {}
        PROVE  Orderly
    BY <2>1, <2>2, SameEntries, Stutters DEF Move
  <2>3. ReviewedRows = {}
    BY DEF ReviewedRows, ReviewInv, TypeOK, QueueInv, ReviewedIffEvaluated
  <2>4. CASE InsertRows
    BY <2>1, <2>4, SameEntries, Stutters DEF InsertRows, Unqueued
  <2>5. CASE Move(ReviewedRows, "reviewed")
    BY <2>2, <2>3, <2>5
  <2>6. CASE Move(ArchivedRows, "archived")
    BY <2>2, <2>6 DEF ArchivedRows
  <2>7. CASE Move(WaitingRows, "waiting")
    BY <2>2, <2>7 DEF WaitingRows
  <2>8. CASE Move(StaleRows, "retry")
    BY <2>1, <2>8, StaleReturn
  <2> QED
    BY <1>1, <2>4, <2>5, <2>6, <2>7, <2>8 DEF SyncStatement, Execute
<1>2. ASSUME NEW p \in Pages, OpenPage(p)
      PROVE  Orderly
  BY <1>2, SameEntries, Stutters DEF OpenPage
<1>3. ASSUME NEW p \in Pages, NEW S \in SUBSET Items, Baseline(p, S)
      PROVE  Orderly
  BY <1>3, SameEntries, Stutters DEF Baseline
<1> QED
  BY <1>1, <1>2, <1>3 DEF SyncStep

\* Time and the recoveries.
LEMMA OutsideOrder ==
    ASSUME ReviewInv, ~lapsed, OutsideStep
    PROVE  Orderly
<1> USE DEF itemVars, queueVars, recordVars, leaseVars, pastVars, workerVars, planVars
<1>1. ASSUME NEW i \in Items, ClaimAges(i) \/ DelayEnds(i)
      PROVE  Orderly
  BY <1>1, SameEntries, Stutters DEF ClaimAges, DelayEnds
<1>2. ASSUME NEW R \in SUBSET Runs, NEW W \in SUBSET Workers, Reconcile(R, W)
      PROVE  Orderly
  BY <1>2, StaleReturn DEF Reconcile
<1>3. CASE LeaseEnds \/ RecoverLocally
  BY <1>3, SameEntries, Stutters DEF LeaseEnds, RecoverLocally
<1> QED
  BY <1>1, <1>2, <1>3 DEF OutsideStep

\* A claim.
LEMMA ClaimOrder ==
    ASSUME ReviewInv, ~lapsed, NEW w \in Workers, Claim(w)
    PROVE  Orderly
<1> DEFINE r == ThisRun(w)
           got == Claimable(batch[w])
<1> USE DEF itemVars, queueVars, recordVars, leaseVars, pastVars, workerVars, planVars
<1>1. r \in Runs /\ r # None /\ r \notin ended
  BY RequestAtHand DEF Claim, ReviewInv
<1>2. got \in SUBSET Items /\ got \subseteq stored
  BY DEF Claimable, ReviewInv, TypeOK
<1>3. CASE got = {}
  <2>1. held' = held /\ answer' = answer
    BY <1>3, SameEntries DEF Claim
  <2>2. ended' = ended \cup {r}
    BY <1>3, RequestEnds DEF Claim, ReviewInv
  <2>3. Reviews!End(r)
    BY <2>1, <2>2 DEF Claim, Reviews!End
  <2> QED
    BY <1>1, <2>3 DEF Orderly, Reviews!InOrder
<1>4. CASE got # {}
  <2>1. held' = Reviews!Set(held, got, r)
    BY DEF Claim, held, Reviews!Set
  <2>2. answer' = answer
    BY DEF Claim, Claimable, answer
  <2>3. ended' = ended
    <3>1. \A v \in Workers : pc'[v] \in {"claim", "asked"} <=> pc[v] \in {"claim", "asked"}
      BY <1>4 DEF Claim, Goto, ReviewInv, TypeOK
    <3> QED
      BY <3>1, SameRequests DEF Claim
  <2>4. ASSUME NEW e \in Items
        PROVE  held[e] # r
    <3>1. SUFFICES ASSUME row[e] = "processing", claim[e] = r
                   PROVE  FALSE
      BY <1>1 DEF held
    <3>2. PICK v \in Workers :
              /\ claim[e] = ThisRun(v)
              /\ pc[v] = "dead" \/ ThisRun(v) \in unclosed \/ (pc[v] = "asked" /\ e \in batch[v])
      BY <3>1 DEF ReviewInv, BookInv, NoClaimLeftBehind
    <3>3. v = w
      BY <3>1, <3>2 DEF ThisRun
    <3>4. pc[w] = "claim"
      BY DEF Claim
    <3> QED
      BY <3>2, <3>3, <3>4, OpenRequest DEF ReviewInv
  <2>5. ASSUME NEW e \in Items
        PROVE  answer[e] # r
    BY <1>1 DEF Claim, answer, ReviewInv, QueueInv, ReviewedIffEvaluated, Evaluated, RunsInOrder
  <2>6. \A e \in got : held[e] = None /\ answer[e] = None
    BY <1>2 DEF Claimable, held, answer
  <2>7. Reviews!Take(r, got)
    BY <1>1, <1>2, <1>4, <2>1, <2>2, <2>3, <2>4, <2>5, <2>6 DEF Claim, Reviews!Take
  <2> QED
    BY <1>1, <1>2, <2>7 DEF Orderly, Reviews!InOrder
<1> QED
  BY <1>3, <1>4

\* An answer settles what the request has taken.
LEMMA AnswerOrder ==
    ASSUME ReviewInv, ~lapsed, NEW w \in Workers, Answer(w)
    PROVE  Orderly
<1> DEFINE r == ThisRun(w)
<1> USE DEF itemVars, queueVars, recordVars, leaseVars, pastVars, workerVars, planVars
<1>1. r \in Runs /\ r \notin ended
  BY RequestAtHand DEF Answer, ReviewInv
<1>2. \A i \in batch[w] : i \in Items /\ row[i] = "processing"
  BY DEF Answer, ReviewInv, TypeOK, QueueInv, OpenWork
<1>3. Reviews!HeldBy(r) = batch[w]
  BY <1>2, HeldByRequest DEF Answer
<1>4. held' = Reviews!Set(held, batch[w], None)
  BY <1>2 DEF Answer, held, Reviews!Set
<1>5. answer' = Reviews!Set(answer, batch[w], r)
  BY <1>2 DEF Answer, answer, Reviews!Set
<1>6. ended' = ended \cup {r}
  BY RequestEnds DEF Answer, ReviewInv
<1>7. Reviews!Settle(r)
  BY <1>1, <1>3, <1>4, <1>5, <1>6 DEF Answer, Reviews!Settle
<1> QED
  BY <1>1, <1>7 DEF Orderly, Reviews!InOrder

\* A failure gives it back.
LEMMA FailOrder ==
    ASSUME ReviewInv, ~lapsed, NEW w \in Workers, NEW b \in BOOLEAN, Fail(w, b)
    PROVE  Orderly
<1> DEFINE r == ThisRun(w)
<1> USE DEF itemVars, queueVars, recordVars, leaseVars, pastVars, workerVars, planVars
<1>1. r \in Runs /\ r \notin ended
  BY RequestAtHand DEF Fail, ReviewInv
<1>2. Reviews!HeldBy(r) = Returned(batch[w])
  BY HeldByRequest DEF Fail, Returned
<1>3. held' = Reviews!Set(held, Returned(batch[w]), None)
  BY DEF Fail, held, Reviews!Set
<1>4. answer' = answer
  BY DEF Fail, Returned, answer
<1>5. ended' = ended \cup {r}
  BY RequestEnds DEF Fail, ReviewInv
<1>6. Reviews!Return(r)
  BY <1>1, <1>2, <1>3, <1>4, <1>5 DEF Fail, Reviews!Return
<1> QED
  BY <1>1, <1>6 DEF Orderly, Reviews!InOrder

\* The other steps of a worker touch no row; a crash ends a request, and so
\* does an exception.
LEMMA WorkerOrder ==
    ASSUME ReviewInv, ~lapsed, NEW w \in Workers, WorkerStep(w)
    PROVE  Orderly
<1> USE DEF itemVars, queueVars, recordVars, leaseVars, pastVars, workerVars, planVars
<1>1. ASSUME UNCHANGED <<stored, row, claim, current>>, ended' = ended
      PROVE  Orderly
  BY <1>1, SameEntries DEF Orderly, Reviews!InOrder
<1>2. ASSUME NEW label, Goto(w, label), {label, pc[w]} \cap {"claim", "asked"} = {},
             UNCHANGED requests
      PROVE  ended' = ended
  <2>1. \A v \in Workers : pc'[v] \in {"claim", "asked"} <=> pc[v] \in {"claim", "asked"}
    BY <1>2 DEF Goto, ReviewInv, TypeOK
  <2> QED
    BY <1>2, <2>1, SameRequests
<1>3. CASE \/ Start(w) \/ Blocked(w) \/ PlanFails(w) \/ EndLoop(w) \/ Stop(w) \/ Raise(w)
           \/ RaiseFails(w) \/ Release(w)
  BY <1>1, <1>2, <1>3
  DEF Start, Blocked, PlanFails, EndLoop, Stop, Raise, RaiseFails, Release
<1>4. CASE Throw(w) \/ Crash(w)
  <2>1. CASE pc[w] \in {"claim", "asked"}
    <3>1. ended' = ended \cup {ThisRun(w)}
      BY <1>4, <2>1, RequestEnds DEF Throw, Crash, ReviewInv
    <3>2. Reviews!End(ThisRun(w))
      BY <1>4, <3>1, SameEntries DEF Throw, Crash, Reviews!End
    <3> QED
      BY <2>1, <3>2, RequestAtHand DEF Orderly, Reviews!InOrder, ReviewInv
  <2>2. CASE pc[w] \notin {"claim", "asked"}
    BY <1>1, <1>2, <1>4, <2>2 DEF Throw, Crash
  <2> QED
    BY <2>1, <2>2
<1>5. ASSUME NEW S \in SUBSET Items, Plan(w, S)
      PROVE  Orderly
  BY <1>1, <1>2, <1>5 DEF Plan
<1>6. ASSUME NEW S \in SUBSET Items, StartBatch(w, S)
      PROVE  Orderly
  <2>1. ASSUME NEW r \in Runs
        PROVE  r \in ended' <=> r \in ended
    <3>1. CASE r[1] = w
      <4>1. /\ requests[w] \in Nat /\ requests'[w] = requests[w] + 1 /\ r[2] \in Nat
            /\ pc[w] = "loop" /\ pc'[w] = "claim"
        BY <1>6 DEF StartBatch, Goto, ReviewInv, TypeOK, Runs
      <4> QED
        BY <3>1, <4>1 DEF ended
    <3>2. CASE r[1] # w
      <4>1. requests'[r[1]] = requests[r[1]] /\ pc'[r[1]] = pc[r[1]]
        BY <1>6, <3>2 DEF StartBatch, Goto, ReviewInv, TypeOK, Runs
      <4> QED
        BY <4>1 DEF ended
    <3> QED
      BY <3>1, <3>2
  <2>2. ended' = ended
    BY <2>1 DEF ended
  <2> QED
    BY <1>1, <1>6, <2>2 DEF StartBatch
<1>7. ASSUME NEW b \in BOOLEAN, Compose(w, b)
      PROVE  Orderly
  BY <1>1, <1>2, <1>7 DEF Compose
<1> QED
  BY <1>3, <1>4, <1>5, <1>6, <1>7, ClaimOrder, AnswerOrder, FailOrder DEF WorkerStep

-----------------------------------------------------------------------------
(***************************************************************************)
(* The steps once a claim is overdue, and the theorem.                     *)
(***************************************************************************)
\* A request that is over stays so, and a job that has outlived its lease has.
LEMMA EndedGrows ==
    ASSUME TypeOK, [Next]_vars
    PROVE  ended \subseteq ended' /\ (lapsed => lapsed')
<1> USE DEF itemVars, queueVars, recordVars, leaseVars, pastVars, workerVars, planVars
<1>1. ASSUME UNCHANGED <<requests, pc>>
      PROVE  ended \subseteq ended'
  BY <1>1 DEF ended
<1>2. ASSUME NEW w \in Workers, NEW label, Goto(w, label),
             \/ UNCHANGED requests /\ (label \notin {"claim", "asked"}
                                        \/ pc[w] \in {"claim", "asked"})
             \/ requests' = [requests EXCEPT ![w] = @ + 1]
      PROVE  ended \subseteq ended'
  <2>1. ASSUME NEW r \in ended
        PROVE  r \in ended'
    <3>1. r \in Runs /\ r[1] \in Workers /\ r[2] \in Nat /\ requests[r[1]] \in Nat
      BY DEF ended, Runs, TypeOK
    <3>2. CASE r[1] = w
      <4>1. pc'[w] = label
        BY <1>2 DEF Goto, TypeOK
      <4>2. CASE UNCHANGED requests
        <5>1. requests'[w] = requests[w]
          BY <4>2
        <5>2. r[2] < requests[w] \/ (r[2] = requests[w] /\ pc[w] \notin {"claim", "asked"})
          BY <3>2 DEF ended
        <5>3. r[2] < requests'[w] \/ (r[2] = requests'[w] /\ pc'[w] \notin {"claim", "asked"})
          <6>1. CASE r[2] < requests[w]
            BY <5>1, <6>1
          <6>2. CASE r[2] = requests[w] /\ pc[w] \notin {"claim", "asked"}
            <7>1. requests'[w] # requests[w] + 1
              BY <3>1, <3>2, <5>1
            <7>2. label \notin {"claim", "asked"}
              BY <1>2, <3>1, <3>2, <6>2, <7>1 DEF TypeOK
            <7> QED
              BY <4>1, <5>1, <6>2, <7>2
          <6> QED
            BY <5>2, <6>1, <6>2
        <5> QED
          BY <3>1, <3>2, <5>3 DEF ended
      <4>3. CASE requests' = [requests EXCEPT ![w] = @ + 1]
        <5>1. requests'[w] = requests[w] + 1 /\ r[2] <= requests[w]
          BY <3>1, <3>2, <4>3 DEF ended, TypeOK
        <5> QED
          BY <3>1, <3>2, <5>1 DEF ended
      <4> QED
        BY <1>2, <4>2, <4>3
    <3>3. CASE r[1] # w
      <4>1. requests'[r[1]] = requests[r[1]] /\ pc'[r[1]] = pc[r[1]]
        BY <1>2, <3>1, <3>3 DEF Goto, TypeOK
      <4> QED
        BY <4>1 DEF ended
    <3> QED
      BY <3>2, <3>3
  <2> QED
    BY <2>1
<1>3. CASE UNCHANGED vars
  BY <1>1, <1>3 DEF vars
<1>4. CASE EntryStep
  <2>1. UNCHANGED <<requests, pc>>
    BY <1>4 DEF EntryStep, Discover, SetDisposition, Delete, RestoreBaseline
  <2>2. lapsed => lapsed'
    BY <1>4, Zenon DEF EntryStep, Discover, SetDisposition, Delete, RestoreBaseline
  <2> QED
    BY <1>1, <2>1, <2>2
<1>5. CASE SyncStep
  BY <1>1, <1>5 DEF SyncStep, SyncStatement, OpenPage, Baseline
<1>6. CASE OutsideStep
  <2>1. UNCHANGED <<requests, pc>>
    BY <1>6 DEF OutsideStep, ClaimAges, DelayEnds, Reconcile, LeaseEnds, RecoverLocally
  <2>2. lapsed => lapsed'
    BY <1>6, Zenon DEF OutsideStep, ClaimAges, DelayEnds, Reconcile, LeaseEnds, RecoverLocally
  <2> QED
    BY <1>1, <2>1, <2>2
<1>7. ASSUME NEW w \in Workers, WorkerStep(w)
      PROVE  ended \subseteq ended' /\ lapsed' = lapsed
  BY <1>2, <1>7 DEF WorkerStep, Start, Blocked, PlanFails, Claim, Answer, EndLoop, Stop, Throw,
     Raise, RaiseFails, Release, Crash, Plan, StartBatch, Fail, Compose
<1> QED
  BY <1>3, <1>4, <1>5, <1>6, <1>7 DEF Next

\* An entry with an answer keeps one until it is deleted.
LEMMA AnswersStay ==
    ASSUME ReviewInv, ReviewInv', ReviewKept
    PROVE  \A i \in stored' : answer[i] # None => answer'[i] # None
<1>1. SUFFICES ASSUME NEW i \in stored', answer[i] # None
               PROVE  answer'[i] # None
  OBVIOUS
<1>2. i \in Items /\ row[i] = "reviewed"
  BY <1>1 DEF ReviewInv, TypeOK, answer
<1>3. row'[i] = "reviewed"
  BY <1>1, <1>2 DEF ReviewKept
<1>4. current'[i] # None
  BY <1>2, <1>3 DEF ReviewInv, QueueInv, ReviewedIffEvaluated, Evaluated
<1> QED
  BY <1>2, <1>3, <1>4 DEF answer

\* The queue implements EntryReview, for any number of entries, workers, pages
\* and requests: until a claim is overdue an entry has one request at a time
\* and is answered once, and an answer is never lost, whatever pages,
\* baselines, deletions, crashes and recoveries do.
THEOREM QueueImplementsReview == Spec => ReviewsInOrder
<1>1. Init => Reviews!ReviewInit
  <2> SUFFICES ASSUME Init
               PROVE  Reviews!ReviewInit
    OBVIOUS
  <2>1. held = [e \in Items |-> None] /\ answer = [e \in Items |-> None]
    BY DEF Init, held, answer
  <2>2. ended = {}
    BY DEF Init, ended, Runs
  <2> QED
    BY <2>1, <2>2 DEF Init, Reviews!ReviewInit
<1>2. ASSUME ReviewInv, ReviewInv', Next
      PROVE  Reviews!ReviewNext
  <2>1. ended \subseteq ended' /\ (lapsed => lapsed')
    BY <1>2, EndedGrows DEF ReviewInv
  <2>2. CASE lapsed'
    <3>1. ReviewKept
      BY <1>2, EntryStepReview, SyncReview, WorkerReview, OutsideReview DEF Next, ReviewInv
    <3>2. \A i \in stored' : answer[i] # None => answer'[i] # None
      BY <1>2, <3>1, AnswersStay
    <3> QED
      BY <2>1, <2>2, <3>2 DEF Reviews!ReviewNext, Reviews!OutOfOrder
  <2>3. CASE ~lapsed'
    <3>1. ~lapsed
      BY <2>1, <2>3
    <3>2. Orderly
      BY <1>2, <3>1, EntryOrder, SyncOrder, WorkerOrder, OutsideOrder DEF Next
    <3> QED
      BY <3>1, <3>2 DEF Reviews!ReviewNext, Orderly
  <2> QED
    BY <2>2, <2>3
<1>3. UNCHANGED vars => UNCHANGED Reviews!reviewVars
  BY DEF vars, itemVars, queueVars, leaseVars, pastVars, recordVars, workerVars, planVars, held, answer,
     ended, Reviews!reviewVars
<1>4. ReviewInv /\ ReviewInv' /\ [Next]_vars => [Reviews!ReviewNext]_Reviews!reviewVars
  BY <1>2, <1>3
<1> QED
  BY <1>1, <1>4, ReviewInvariant, PTL DEF Spec, ReviewsInOrder, Reviews!ReviewSpec

-----------------------------------------------------------------------------
(***************************************************************************)
(* Executions end: the safety half of ClaimsReturn.  What is left of one   *)
(* is counted down by its own steps, and no page, edit, recovery or other  *)
(* worker adds to it.                                                      *)
(***************************************************************************)
\* The positions that lie ahead at most; a round of the loop is three.
Ahead(label) ==
    CASE label = "new" -> 7
      [] label = "sync" -> 6
      [] label = "loop" -> 5
      [] label = "claim" -> 7
      [] label = "asked" -> 6
      [] label = "compose" -> 3
      [] label = "raise" -> 2
      [] label = "end" -> 1
      [] OTHER -> 0

Rounds(label, sent) ==
    CASE label \in {"new", "sync"} -> 3 * MaxRequests
      [] label \in {"loop", "claim", "asked"} -> 3 * (MaxRequests - sent)
      [] OTHER -> 0

\* The statements of its synchronisation.
Statements(label, next) ==
    IF label = "new" THEN 6 ELSE IF next = 0 THEN 0 ELSE 6 - next

Remaining(w) ==
    Ahead(pc[w]) + Rounds(pc[w], requests[w]) + Statements(pc[w], statement[w])

CountsDown ==
    \A w \in Workers :
        /\ Remaining(w)' <= Remaining(w)
        /\ WorkerStep(w) \/ SyncStatement(w) => Remaining(w)' < Remaining(w)

\* A worker synchronises before its plan, and never after.
SyncedFirst == \A w \in Workers : pc[w] # "sync" => statement[w] = 0

\* What is left is a number, and there is a bound for it.
LEMMA LeftIsBounded ==
    ASSUME NEW label, NEW sent \in 0 .. MaxRequests, NEW next \in 0 .. 5
    PROVE  /\ Ahead(label) \in 0 .. 7
           /\ Rounds(label, sent) \in 0 .. 3 * MaxRequests
           /\ Statements(label, next) \in 0 .. 6
<1>1. Ahead(label) \in 0 .. 7
  BY DEF Ahead
<1>2. Rounds(label, sent) \in 0 .. 3 * MaxRequests
  BY DEF Rounds
<1>3. Statements(label, next) \in 0 .. 6
  BY DEF Statements
<1> QED
  BY <1>1, <1>2, <1>3

\* A step that leaves a worker where it is uses nothing up.
LEMMA SamePlace ==
    ASSUME TypeOK, NEW w \in Workers, pc'[w] = pc[w], requests'[w] = requests[w],
           statement'[w] = statement[w]
    PROVE  Remaining(w)' = Remaining(w)
  BY DEF Remaining

\* A step of a worker that sends no request leads to a later position.
LEMMA MovesOn ==
    ASSUME TypeOK, NEW w \in Workers, NEW label, Goto(w, label), Ahead(label) < Ahead(pc[w]),
           label \notin {"new", "sync", "claim"}, pc[w] # "new",
           requests' = requests, statement'[w] = 0
    PROVE  Remaining(w)' < Remaining(w)
<1>1. pc'[w] = label /\ requests'[w] = requests[w]
  BY DEF TypeOK, Goto
<1>2. requests[w] \in 0 .. MaxRequests /\ statement[w] \in 0 .. 5 /\ pc[w] \in Pcs
  BY DEF TypeOK, Callers
<1>3. Rounds(label, requests[w]) <= Rounds(pc[w], requests[w])
  BY <1>2 DEF Rounds, Ahead, Pcs
<1>4. Statements(label, 0) <= Statements(pc[w], statement[w])
  BY <1>2 DEF Statements
<1>5. /\ Ahead(label) \in Nat /\ Rounds(label, requests[w]) \in Nat
      /\ Ahead(pc[w]) \in Nat /\ Rounds(pc[w], requests[w]) \in Nat
      /\ Statements(label, 0) \in Nat /\ Statements(pc[w], statement[w]) \in Nat
  BY <1>2, LeftIsBounded
<1> QED
  BY <1>1, <1>3, <1>4, <1>5 DEF Remaining

\* Each step of a worker uses up at least one.
LEMMA WorkerCountsDown ==
    ASSUME TypeOK, SyncedFirst, NEW w \in Workers, WorkerStep(w) \/ SyncStatement(w)
    PROVE  Remaining(w)' < Remaining(w)
<1>1. requests[w] \in 0 .. MaxRequests /\ statement[w] \in 0 .. 5 /\ w \in Callers
  BY DEF TypeOK, Callers
<1>2. ASSUME NEW label, Goto(w, label), Ahead(label) < Ahead(pc[w]),
             label \notin {"new", "sync", "claim"}, pc[w] # "new",
             requests' = requests, statement' = statement, statement[w] = 0
      PROVE  Remaining(w)' < Remaining(w)
  BY <1>2, MovesOn
<1>3. CASE SyncStatement(w)
  <2>1. pc[w] = "sync" /\ pc' = pc /\ requests' = requests
    BY <1>3 DEF SyncStatement, SyncedFirst, planVars
  <2>2. statement[w] \in 1 .. 5 /\ statement'[w] = IF statement[w] = 5 THEN 0 ELSE statement[w] + 1
    BY <1>1, <1>3 DEF SyncStatement, TypeOK
  <2>3. Statements("sync", statement'[w]) < Statements("sync", statement[w])
    BY <2>2 DEF Statements
  <2>4. /\ Ahead("sync") \in Nat /\ Rounds("sync", requests[w]) \in Nat
        /\ Statements("sync", statement'[w]) \in Nat /\ Statements("sync", statement[w]) \in Nat
    BY <1>1, <2>2, LeftIsBounded
  <2> QED
    BY <2>1, <2>3, <2>4 DEF Remaining
<1>4. CASE Start(w)
  <2>1. /\ pc[w] = "new" /\ pc'[w] = "sync" /\ requests'[w] = requests[w]
        /\ statement'[w] = 1
    BY <1>1, <1>4 DEF Start, Goto, TypeOK, planVars
  <2>2. Remaining(w) = 13 + 3 * MaxRequests
    BY <2>1 DEF Remaining, Ahead, Rounds, Statements
  <2>3. Remaining(w)' = 11 + 3 * MaxRequests
    BY <2>1 DEF Remaining, Ahead, Rounds, Statements
  <2> QED
    BY <2>2, <2>3
<1>5. CASE \E S \in SUBSET Items : Plan(w, S)
  BY <1>2, <1>5 DEF Plan, Ahead
<1>6. CASE Blocked(w) \/ PlanFails(w)
  <2>1. Goto(w, "end") /\ pc[w] = "sync" /\ requests' = requests /\ statement'[w] = 0
    BY <1>1, <1>6 DEF Blocked, PlanFails, TypeOK, planVars
  <2> QED
    BY <2>1, MovesOn DEF Ahead
<1>7. CASE \E B \in SUBSET Items : StartBatch(w, B)
  <2>1. /\ pc[w] = "loop" /\ pc'[w] = "claim" /\ requests[w] < MaxRequests
        /\ requests'[w] = requests[w] + 1 /\ statement'[w] = statement[w]
    BY <1>1, <1>7 DEF StartBatch, Goto, TypeOK
  <2>2. statement[w] = 0
    BY <2>1 DEF SyncedFirst
  <2>3. Remaining(w) = 5 + 3 * (MaxRequests - requests[w])
    BY <1>1, <2>1, <2>2 DEF Remaining, Ahead, Rounds, Statements
  <2>4. Remaining(w)' = 7 + 3 * (MaxRequests - (requests[w] + 1))
    BY <1>1, <2>1, <2>2 DEF Remaining, Ahead, Rounds, Statements
  <2> QED
    BY <1>1, <2>3, <2>4
<1>8. CASE Claim(w)
  <2>1. PICK label \in {"loop", "asked"} : Goto(w, label)
    BY <1>8 DEF Claim
  <2>2. pc[w] = "claim" /\ requests' = requests /\ statement' = statement
    BY <1>8 DEF Claim
  <2> QED
    BY <1>2, <2>1, <2>2 DEF Ahead, SyncedFirst
<1>9. CASE Answer(w)
  BY <1>2, <1>9 DEF Answer, Ahead, SyncedFirst
<1>10. CASE \E b \in BOOLEAN : Fail(w, b)
  <2>1. PICK label \in {"loop", "raise"} : Goto(w, label)
    BY <1>10 DEF Fail
  <2>2. pc[w] = "asked" /\ requests' = requests /\ statement' = statement
    BY <1>10 DEF Fail
  <2> QED
    BY <1>2, <2>1, <2>2 DEF Ahead, SyncedFirst
<1>11. CASE EndLoop(w)
  BY <1>2, <1>11 DEF EndLoop, Ahead, SyncedFirst, planVars
<1>12. CASE Stop(w)
  BY <1>2, <1>12 DEF Stop, Ahead, SyncedFirst, planVars
<1>13. CASE \E b \in BOOLEAN : Compose(w, b)
  BY <1>2, <1>13 DEF Compose, Ahead, SyncedFirst, planVars
<1>14. CASE Throw(w)
  BY <1>2, <1>14 DEF Throw, Ahead, SyncedFirst
<1>15. CASE Raise(w) \/ RaiseFails(w)
  BY <1>2, <1>15 DEF Raise, RaiseFails, Ahead, SyncedFirst, planVars
<1>16. CASE Release(w)
  BY <1>2, <1>16 DEF Release, Ahead, SyncedFirst, planVars
<1>17. CASE Crash(w)
  <2>1. Goto(w, "dead") /\ statement'[w] = 0 /\ requests' = requests /\ Alive(w)
    BY <1>1, <1>17 DEF Crash, TypeOK, planVars
  <2>2. Ahead("dead") < Ahead(pc[w]) /\ pc[w] # "new"
    BY <2>1 DEF Ahead, Alive, TypeOK, Pcs
  <2> QED
    BY <2>1, <2>2, MovesOn
<1> QED
  BY <1>3, <1>4, <1>5, <1>6, <1>7, <1>8, <1>9, <1>10, <1>11, <1>12, <1>13, <1>14, <1>15, <1>16, <1>17
  DEF WorkerStep

\* A worker changes its own position and statements only.
LEMMA WorkerKeepsOthers ==
    ASSUME TypeOK, NEW v \in Workers, WorkerStep(v), NEW w \in Workers \ {v}
    PROVE  pc'[w] = pc[w] /\ requests'[w] = requests[w] /\ statement'[w] = statement[w]
<1>1. ASSUME NEW label, Goto(v, label)
      PROVE  pc'[w] = pc[w]
  BY <1>1 DEF Goto, TypeOK
<1>2. CASE Start(v) \/ Blocked(v) \/ Crash(v)
  <2>1. \E label : Goto(v, label)
    BY <1>2 DEF Start, Blocked, Crash
  <2>2. requests' = requests /\ statement'[w] = statement[w]
    BY <1>2 DEF Start, Blocked, Crash, TypeOK, Callers, planVars
  <2> QED
    BY <1>1, <2>1, <2>2
<1>3. CASE \E S \in SUBSET Items : Plan(v, S) \/ StartBatch(v, S)
  <2>1. \E label : Goto(v, label)
    BY <1>3 DEF Plan, StartBatch
  <2>2. requests'[w] = requests[w] /\ statement' = statement
    BY <1>3 DEF Plan, StartBatch, TypeOK
  <2> QED
    BY <1>1, <2>1, <2>2
<1>4. CASE \E b \in BOOLEAN : Fail(v, b) \/ Compose(v, b)
  <2>1. \E label : Goto(v, label)
    BY <1>4 DEF Fail, Compose
  <2>2. requests' = requests /\ statement' = statement
    BY <1>4 DEF Fail, Compose, planVars
  <2> QED
    BY <1>1, <2>1, <2>2
<1>5. CASE \/ PlanFails(v) \/ Claim(v) \/ Answer(v) \/ EndLoop(v) \/ Stop(v)
           \/ Throw(v) \/ Raise(v) \/ RaiseFails(v) \/ Release(v)
  <2>1. \E label : Goto(v, label)
    BY <1>5 DEF PlanFails, Claim, Answer, EndLoop, Stop, Throw, Raise, RaiseFails, Release
  <2>2. requests' = requests /\ statement' = statement
    BY <1>5 DEF PlanFails, Claim, Answer, EndLoop, Stop, Throw, Raise, RaiseFails, Release, planVars
  <2> QED
    BY <1>1, <2>1, <2>2
<1> QED
  BY <1>2, <1>3, <1>4, <1>5 DEF WorkerStep

\* What everybody else does leaves a worker where it is.
LEMMA OthersKeepPlace ==
    ASSUME TypeOK, NEW w \in Workers, [Next]_vars, ~WorkerStep(w), ~SyncStatement(w)
    PROVE  pc'[w] = pc[w] /\ requests'[w] = requests[w] /\ statement'[w] = statement[w]
<1> USE DEF itemVars, queueVars, leaseVars, pastVars, recordVars, workerVars, planVars
<1>1. CASE UNCHANGED vars
  BY <1>1 DEF vars
<1>2. CASE EntryStep
  BY <1>2 DEF EntryStep, Discover, SetDisposition, Delete, RestoreBaseline
<1>3. CASE SyncStep
  <2>1. ASSUME NEW c \in Callers, SyncStatement(c)
        PROVE  pc' = pc /\ requests' = requests /\ statement'[w] = statement[w]
    BY <2>1 DEF SyncStatement, TypeOK, Callers
  <2>2. ASSUME NEW p \in Pages, OpenPage(p) \/ \E S \in SUBSET Items : Baseline(p, S)
        PROVE  pc' = pc /\ requests' = requests /\ statement'[w] = statement[w]
    BY <2>2, QueueAssumption DEF OpenPage, Baseline, TypeOK, Callers
  <2> QED
    BY <1>3, <2>1, <2>2 DEF SyncStep
<1>4. CASE \E v \in Workers : WorkerStep(v)
  BY <1>4, WorkerKeepsOthers
<1>5. CASE OutsideStep
  BY <1>5 DEF OutsideStep, ClaimAges, DelayEnds, Reconcile, LeaseEnds, RecoverLocally
<1> QED
  BY <1>1, <1>2, <1>3, <1>4, <1>5 DEF Next

\* A worker synchronises first.
LEMMA SyncedFirstStep ==
    ASSUME TypeOK, SyncedFirst, [Next]_vars
    PROVE  SyncedFirst'
<1> SUFFICES ASSUME NEW w \in Workers, pc'[w] # "sync"
             PROVE  statement'[w] = 0
  BY DEF SyncedFirst
<1>1. CASE WorkerStep(w)
  <2>1. CASE Start(w) \/ Blocked(w) \/ Crash(w)
    BY <1>1, <2>1 DEF Start, Blocked, Crash, Goto, TypeOK, Callers
  <2>2. CASE ~Start(w) /\ ~Blocked(w) /\ ~Crash(w)
    <3>1. statement' = statement /\ (pc[w] = "sync" => statement[w] = 0)
      <4>1. CASE \E S \in SUBSET Items : Plan(w, S) \/ StartBatch(w, S)
        BY <4>1 DEF Plan, StartBatch
      <4>2. CASE \E b \in BOOLEAN : Fail(w, b) \/ Compose(w, b)
        BY <4>2 DEF Fail, Compose
      <4>3. CASE \/ PlanFails(w) \/ Claim(w) \/ Answer(w) \/ EndLoop(w) \/ Stop(w) \/ Throw(w)
                 \/ Raise(w) \/ RaiseFails(w) \/ Release(w)
        BY <4>3 DEF PlanFails, Claim, Answer, EndLoop, Stop, Throw, Raise, RaiseFails, Release
      <4> QED
        BY <1>1, <2>2, <4>1, <4>2, <4>3 DEF WorkerStep
    <3> QED
      BY <3>1 DEF SyncedFirst
  <2> QED
    BY <2>1, <2>2
<1>2. CASE SyncStatement(w)
  BY <1>2 DEF SyncStatement, SyncedFirst
<1>3. CASE ~WorkerStep(w) /\ ~SyncStatement(w)
  BY <1>3, OthersKeepPlace DEF SyncedFirst
<1> QED
  BY <1>1, <1>2, <1>3

\* An execution of execute_ai_update has at most 13 + 3 * MaxRequests steps
\* left, its synchronisation included; each of its steps uses one up and
\* nobody gives one back: it ends, whatever the provider, the pages and the
\* recoveries do.
THEOREM ExecutionsRunOut ==
    Spec => /\ [](\A w \in Workers : Remaining(w) \in 0 .. 13 + 3 * MaxRequests)
            /\ [][CountsDown]_vars
<1>1. Init => SyncedFirst
  BY DEF Init, SyncedFirst, Callers
<1>2. TypeOK /\ SyncedFirst /\ [Next]_vars => SyncedFirst'
  BY SyncedFirstStep
<1>3. TypeOK /\ SyncedFirst /\ [Next]_vars => [CountsDown]_vars
  <2> SUFFICES ASSUME TypeOK, SyncedFirst, [Next]_vars, NEW w \in Workers
               PROVE  /\ Remaining(w)' <= Remaining(w)
                      /\ WorkerStep(w) \/ SyncStatement(w) => Remaining(w)' < Remaining(w)
    BY DEF CountsDown
  <2>1. requests[w] \in 0 .. MaxRequests /\ statement[w] \in 0 .. 5
    BY DEF TypeOK, Callers
  <2>2. Remaining(w) \in Nat
    BY <2>1, LeftIsBounded DEF Remaining
  <2>3. CASE WorkerStep(w) \/ SyncStatement(w)
    <3>1. Remaining(w)' < Remaining(w)
      BY <2>3, WorkerCountsDown
    <3>2. TypeOK'
      BY <2>3, SyncType, WorkerType DEF SyncStep, Callers
    <3>3. Remaining(w)' \in Nat
      <4>1. requests'[w] \in 0 .. MaxRequests /\ statement'[w] \in 0 .. 5
        BY <3>2 DEF TypeOK, Callers
      <4> QED
        BY <4>1, LeftIsBounded DEF Remaining
    <3> QED
      BY <2>2, <3>1, <3>3
  <2>4. CASE ~WorkerStep(w) /\ ~SyncStatement(w)
    BY <2>2, <2>4, OthersKeepPlace, SamePlace
  <2> QED
    BY <2>3, <2>4
<1>4. TypeOK => \A w \in Workers : Remaining(w) \in 0 .. 13 + 3 * MaxRequests
  <2> SUFFICES ASSUME TypeOK, NEW w \in Workers
               PROVE  Remaining(w) \in 0 .. 13 + 3 * MaxRequests
    OBVIOUS
  <2>1. requests[w] \in 0 .. MaxRequests /\ statement[w] \in 0 .. 5
    BY DEF TypeOK, Callers
  <2> QED
    BY <2>1, LeftIsBounded DEF Remaining
<1> QED
  BY <1>1, <1>2, <1>3, <1>4, QueueTypeCorrect, PTL DEF Spec
=============================================================================
