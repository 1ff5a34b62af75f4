--------------------------- MODULE ExclusionProofs ---------------------------
(***************************************************************************)
(* The proofs that jobs never work at once, that a browser job works only  *)
(* under a running record, that nobody else ends the lease of a live job,  *)
(* and that the coordination implements UpdateTurn, for any set of jobs    *)
(* and any lease lengths. They rest on LeaseInv, and on the two            *)
(* assumptions that the runs make: no host sleeps through a lease of a     *)
(* live job, and no local restart meets a job of another process.          *)
(***************************************************************************)
EXTENDS UpdateJobsProofs

USE LeaseAssumption, JobsAssumption

-----------------------------------------------------------------------------
(***************************************************************************)
(* The steps of a worker.                                                  *)
(***************************************************************************)
\* An exclusive grant finds no live lease, and leaves one.
LEMMA ExclusiveGrant ==
    ASSUME TypeOK, LeaseInv, NEW n \in LockNames, NEW j \in Jobs, NEW ticks \in Nat \ {0},
           AcquireLock(n, j, ticks, TRUE)
    PROVE  /\ \A i \in Jobs : Needed(i) = {}
           /\ LiveNames' = {n} /\ holder'[n] = j
<1>1. LiveNames = {}
  BY DEF AcquireLock, Grantable
<1>2. \A i \in Jobs : Needed(i) = {}
  BY <1>1 DEF LeaseInv, LeasesHeld, Holds, Needed, LiveNames
<1>3. left'[n] = ticks /\ \A m \in LockNames \ {n} : left'[m] = left[m]
  BY DEF AcquireLock, TypeOK, LockTypeOK
<1>4. LiveNames' = {n}
  BY <1>1, <1>3 DEF LiveNames, Live
<1>5. holder'[n] = j
  BY DEF AcquireLock
<1> QED
  BY <1>2, <1>4, <1>5

\* One live lease, and no other job that relies on any.
LEMMA SoleOwner ==
    ASSUME NEW n \in LockNames, NEW j \in Jobs, LiveNames' = {n}, holder'[n] = j,
           \A i \in Jobs : Needed(i)' \subseteq IF i = j THEN {n} ELSE {}
    PROVE  LeasesHeld' /\ OneOwner'
<1>1. ASSUME NEW i \in Jobs, NEW m \in Needed(i)'
      PROVE  Owns(i, m)' /\ Live(m)'
  <2>1. i = j /\ m = n
    BY <1>1
  <2> QED
    BY <2>1 DEF Owns, LiveNames
<1>2. OneOwner'
  BY DEF OneOwner
<1> QED
  BY <1>1, <1>2 DEF LeasesHeld, Holds

\* A worker without a reservation takes its own lease.
LEMMA AcquireOwnLeases ==
    ASSUME TypeOK, LeaseInv, NEW j \in Jobs, AcquireOwn(j)
    PROVE  LeaseInv'
<1>a. kind[j] \in Updates /\ ~reserved[j] /\ pc[j] = "acquire"
  BY DEF AcquireOwn, At, LeaseInv, KindFits
<1>b. UNCHANGED <<serverUp, kind, reserved, op>>
  BY DEF AcquireOwn, At, records
<1>1. CASE AcquireLock(Outer(kind[j]), j, TTL[Outer(kind[j])], TRUE)
            /\ Goto(j, FirstStep(j))
  <2> DEFINE n == Outer(kind[j])
  <2>1. n \in LockNames /\ TTL[n] \in Nat \ {0}
    BY OuterIsName, TicksArePositive
  <2>2. (\A i \in Jobs : Needed(i) = {}) /\ LiveNames' = {n} /\ holder'[n] = j
    BY <1>1, <2>1, ExclusiveGrant
  <2>3. pc' = [pc EXCEPT ![j] = FirstStep(j)] /\ FirstStep(j) \in {"r_begin", "r_acquire"}
    BY <1>1 DEF Goto, FirstStep
  <2>4. ASSUME NEW i \in Jobs, i # j
        PROVE  Needed(i)' = {} /\ pc'[i] = pc[i]
    BY <2>2, <2>3, <2>4, <1>b DEF Needed, Renewed, TypeOK, JobTypeOK
  <2>5. Needed(j)' \subseteq {n}
    BY <1>a, <1>b, <2>3 DEF Needed, Renewed, TypeOK, JobTypeOK, Outer, FirstStep, Updates,
       UpdatePcs, FeedPcs, AiPcs, ReservedPcs
  <2>6. LeasesHeld' /\ OneOwner'
    BY <2>1, <2>2, <2>4, <2>5, SoleOwner
  <2>7. DownMeansDead'
    BY <1>a, <1>b, <2>3 DEF LeaseInv, DownMeansDead, Alive, TypeOK, JobTypeOK
  <2>8. KindFits'
    BY <1>a, <1>b, <2>3 DEF LeaseInv, KindFits, TypeOK, JobTypeOK, FirstStep, Updates,
       SharedPcs, UpdatePcs, FeedPcs, AiPcs, ReservedPcs
  <2>9. RecordFits'
    BY <1>a, <1>b, <2>4 DEF RecordFits
  <2> QED
    BY <2>6, <2>7, <2>8, <2>9 DEF LeaseInv
<1>2. CASE RefuseLock(Outer(kind[j]), TRUE) /\ Goto(j, "done")
  BY <1>2, <1>a, <1>b DEF RefuseLock, DeleteExpired, KeepOnly, Goto,
     LeaseInv, LeasesHeld, Holds, OneOwner, DownMeansDead, KindFits, RecordFits, Needed,
      Renewed, Alive, Owns, Live, LiveNames, TypeOK, LockTypeOK, JobTypeOK,
      ReservedPcs, SharedPcs, UpdatePcs, FeedPcs, AiPcs, Updates
<1> QED
  BY <1>1, <1>2 DEF AcquireOwn
\* A worker on its way from the request to its first lease keeps the invariant.
LEMMA RequestLeases ==
    ASSUME TypeOK, LeaseInv, NEW j \in Jobs, RequestStep(j)
    PROVE  LeaseInv'
<1> USE DEF LeaseInv, LeasesHeld, Holds, OneOwner, DownMeansDead, KindFits, RecordFits, Needed,
      Renewed, Alive, Owns, Live, LiveNames, LockNames, Outer, TypeOK, LockTypeOK, JobTypeOK,
      At, Goto, lockVars, records, ReservedPcs, SharedPcs, UpdatePcs, FeedPcs, AiPcs, Updates
<1>1. CASE CreateOperation(j)
  BY <1>1 DEF CreateOperation
<1>2. CASE CreateOperationFails(j)
  BY <1>2 DEF CreateOperationFails
<1>3. CASE ThreadFails(j)
  BY <1>3 DEF ThreadFails
<1>4. CASE StartOperation(j)
  BY <1>4 DEF StartOperation
<1>5. CASE SetPhase(j)
  BY <1>5 DEF SetPhase
<1>6. CASE EnterReserved(j)
  BY <1>6 DEF EnterReserved, FirstStep
<1>7. CASE EnterUnreserved(j)
  BY <1>7 DEF EnterUnreserved
<1>8. CASE AcquireOwn(j)
  BY <1>8, AcquireOwnLeases
<1> QED
  BY <1>1, <1>2, <1>3, <1>4, <1>5, <1>6, <1>7, <1>8 DEF RequestStep

\* So does a worker in run_refresh.
LEMMA RefreshLeases ==
    ASSUME TypeOK, LeaseInv, NEW j \in Jobs, RefreshStep(j)
    PROVE  LeaseInv'
<1> USE DEF LeaseInv, LeasesHeld, Holds, OneOwner, DownMeansDead, KindFits, RecordFits, Needed,
      Renewed, Alive, Owns, Live, LiveNames, LockNames, Outer, TypeOK, LockTypeOK, JobTypeOK,
      At, Goto, lockVars, records, ReservedPcs, SharedPcs, UpdatePcs, FeedPcs, AiPcs, Updates
<1>1. CASE RAcquire(j)
  BY <1>1 DEF RAcquire, AcquireLock, Grantable, RefuseLock, DeleteExpired, KeepOnly
<1>2. CASE RFresh(j)
  BY <1>2 DEF RFresh
<1>3. CASE RBegin(j)
  BY <1>3 DEF RBegin
<1>4. CASE RFail(j)
  BY <1>4 DEF RFail
<1>5. CASE RFetch(j)
  BY <1>5 DEF RFetch
<1>6. CASE RRecord(j)
  BY <1>6 DEF RRecord
<1>7. CASE RRecheck(j)
  BY <1>7 DEF RRecheck
<1>8. CASE RRelease(j)
  <2>1. CASE kind[j] = "refresh"
    <3>1. CASE reserved[j]
      BY <1>8, <2>1, <3>1 DEF RRelease, ReleaseLock, KeepOnly, Report, ReturnToUpdate
    <3>2. CASE ~reserved[j]
      BY <1>8, <2>1, <3>2 DEF RRelease, ReleaseLock, KeepOnly, Report, ReturnToUpdate
    <3> QED
      BY <3>1, <3>2
  <2>2. CASE kind[j] # "refresh"
    BY <1>8, <2>2 DEF RRelease, ReleaseLock, KeepOnly, ReturnToUpdate
  <2> QED
    BY <2>1, <2>2
<1> QED
  BY <1>1, <1>2, <1>3, <1>4, <1>5, <1>6, <1>7, <1>8 DEF RefreshStep

\* So does a worker in run_summary or at the end of run_update_summaries.
LEMMA SummaryLeases ==
    ASSUME TypeOK, LeaseInv, NEW j \in Jobs, SummaryStep(j)
    PROVE  LeaseInv'
<1> USE DEF LeaseInv, LeasesHeld, Holds, OneOwner, DownMeansDead, KindFits, RecordFits, Needed,
      Renewed, Alive, Owns, Live, LiveNames, LockNames, Outer, TypeOK, LockTypeOK, JobTypeOK,
      At, Goto, lockVars, records, ReservedPcs, SharedPcs, UpdatePcs, FeedPcs, AiPcs, Updates
<1>1. CASE UStop(j)
  BY <1>1 DEF UStop
<1>2. CASE SAcquire(j)
  BY <1>2 DEF SAcquire, AcquireLock, Grantable, RefuseLock, DeleteExpired, KeepOnly
<1>3. CASE SStop(j)
  BY <1>3 DEF SStop
<1>4. CASE SPlugin(j)
  BY <1>4 DEF SPlugin
<1>5. CASE SPlugged(j)
  BY <1>5 DEF SPlugged
<1>6. CASE SRefused(j)
  BY <1>6 DEF SRefused
<1>7. CASE SBegin(j)
  BY <1>7 DEF SBegin
<1>8. CASE EvaluationStage(j)
  BY <1>8 DEF EvaluationStage, CheckBatch, SendBatch, RequestFails, Evaluated, EndCancelled
<1>9. CASE CompositionStage(j)
  BY <1>9 DEF CompositionStage, CheckBatch, SendBatch, RequestFails, Composed, EndCancelled
<1>10. CASE SRelease(j)
  BY <1>10 DEF SRelease, ReleaseLock, KeepOnly
<1>11. CASE URelease(j)
  BY <1>11 DEF URelease, ReleaseLock, KeepOnly, Report
<1> QED
  BY <1>1, <1>2, <1>3, <1>4, <1>5, <1>6, <1>7, <1>8, <1>9, <1>10, <1>11 DEF SummaryStep

\* So does a worker that reports, and a restore.
LEMMA EndLeases ==
    ASSUME TypeOK, LeaseInv, NEW j \in Jobs, EndStep(j)
    PROVE  LeaseInv'
<1> USE DEF LeaseInv, LeasesHeld, Holds, OneOwner, DownMeansDead, KindFits, RecordFits, Needed,
      Renewed, Alive, Owns, Live, LiveNames, LockNames, Outer, TypeOK, LockTypeOK, JobTypeOK,
      At, Goto, lockVars, records, ReservedPcs, SharedPcs, UpdatePcs, FeedPcs, AiPcs, Updates
<1>1. CASE Finish(j)
  BY <1>1 DEF Finish
<1>2. CASE FailOperation(j)
  BY <1>2 DEF FailOperation
<1>3. CASE Unreserve(j)
  BY <1>3 DEF Unreserve, ReleaseLock, KeepOnly
<1>4. CASE RestoreRefused(j)
  BY <1>4 DEF RestoreRefused
<1>5. CASE RestoreReplaces(j)
  BY <1>5 DEF RestoreReplaces, KeepOnly
<1>6. CASE RestoreEnds(j)
  BY <1>6 DEF RestoreEnds, ReleaseLock, KeepOnly
<1> QED
  BY <1>1, <1>2, <1>3, <1>4, <1>5, <1>6 DEF EndStep

-----------------------------------------------------------------------------
(***************************************************************************)
(* The steps of everybody else.                                            *)
(***************************************************************************)
\* A request that takes an exclusive lease keeps the invariant.
LEMMA EnrolLeases ==
    ASSUME TypeOK, LeaseInv, NEW j \in Jobs, NEW k \in Kinds, NEW label,
           NEW fromBrowser \in BOOLEAN, NEW ticks \in Nat \ {0},
           Enrol(j, k, label, fromBrowser), AcquireLock(Outer(k), j, ticks, TRUE),
           \/ label = "reserved" /\ fromBrowser /\ k \in Updates /\ j \notin Standalone
           \/ label = "m_work" /\ ~fromBrowser /\ k = "restore"
    PROVE  LeaseInv'
<1> DEFINE n == Outer(k)
<1>1. n \in LockNames
  BY OuterIsName
<1>2. (\A i \in Jobs : Needed(i) = {}) /\ LiveNames' = {n} /\ holder'[n] = j
  BY <1>1, ExclusiveGrant
<1>3. /\ pc' = [pc EXCEPT ![j] = label] /\ kind' = [kind EXCEPT ![j] = k]
      /\ reserved' = [reserved EXCEPT ![j] = fromBrowser]
      /\ UNCHANGED <<serverUp, op>> /\ CanRun(j)
  BY DEF Enrol, Goto, records
<1>4. ASSUME NEW i \in Jobs, i # j
      PROVE  Needed(i)' = {}
  BY <1>2, <1>3, <1>4 DEF Needed, Renewed, TypeOK, JobTypeOK
<1>5. Needed(j)' \subseteq {n}
  BY <1>3 DEF Needed, Renewed, TypeOK, JobTypeOK, Outer, UpdatePcs, FeedPcs, AiPcs
<1>6. LeasesHeld' /\ OneOwner'
  BY <1>1, <1>2, <1>4, <1>5, SoleOwner
<1>7. DownMeansDead'
  BY <1>3 DEF LeaseInv, DownMeansDead, Alive, CanRun, TypeOK, JobTypeOK
<1>8. KindFits'
  BY <1>3 DEF LeaseInv, KindFits, TypeOK, JobTypeOK, Updates, SharedPcs, UpdatePcs,
     FeedPcs, AiPcs, ReservedPcs
<1>9. RecordFits'
  BY <1>3, <1>4 DEF RecordFits, TypeOK, JobTypeOK
<1> QED
  BY <1>6, <1>7, <1>8, <1>9 DEF LeaseInv

\* So does every other request.
LEMMA NewLeases ==
    ASSUME TypeOK, LeaseInv, NEW j \in Jobs, NewStep(j)
    PROVE  LeaseInv'
<1>1. ASSUME NEW k \in Kinds, Reserve(j, k)
      PROVE  LeaseInv'
  BY <1>1, EnrolLeases, TicksArePositive DEF Reserve
<1>2. ASSUME NEW k \in Kinds, StartUnattended(j, k)
      PROVE  LeaseInv'
  BY <1>2 DEF StartUnattended, Enrol, CanRun, Goto, lockVars, records, LeaseInv, LeasesHeld, Holds,
     OneOwner, DownMeansDead, KindFits, RecordFits, Needed, Renewed, Alive, Owns, Live,
     LiveNames, TypeOK, LockTypeOK, JobTypeOK, ReservedPcs, SharedPcs, UpdatePcs, FeedPcs,
     AiPcs, Updates
<1>3. CASE StartRestore(j)
  <2>1. "restore" \in Kinds /\ Outer("restore") = "maintenance"
    BY <1>3 DEF StartRestore, Enrol, Outer
  <2>2. TTL["maintenance"] \in Nat \ {0}
    BY <2>1, TicksArePositive
  <2>3. /\ Enrol(j, "restore", "m_work", FALSE)
        /\ AcquireLock(Outer("restore"), j, TTL["maintenance"], TRUE)
    BY <1>3, <2>1 DEF StartRestore
  <2>4. FALSE \in BOOLEAN
    OBVIOUS
  <2> QED
    BY <2>1, <2>2, <2>3, <2>4, EnrolLeases
<1>4. CASE RefuseRequest(j)
  BY <1>4 DEF RefuseRequest, RefuseLock, DeleteExpired, KeepOnly, locals, records, LeaseInv,
     LeasesHeld, Holds, OneOwner, DownMeansDead, KindFits, RecordFits, Needed, Renewed, Alive, Owns,
     Live, LiveNames, TypeOK, LockTypeOK, JobTypeOK
<1> QED
  BY <1>1, <1>2, <1>3, <1>4 DEF NewStep

\* A job that relies on a lease is alive.
LEMMA NeedyIsAlive ==
    ASSUME TypeOK, NEW j \in Jobs, Needed(j) # {}
    PROVE  Alive(j)
  BY DEF Needed, Renewed, Alive, ReservedPcs, UpdatePcs, FeedPcs, AiPcs

\* Recovery that deletes expired rows spares what a job relies on: its lease,
\* and hence its record.
LEMMA ReconcileLeases ==
    ASSUME TypeOK, LeaseInv, NEW aged \in SUBSET Orphans, ReconcileRows(aged),
           serverUp' = serverUp \/ serverUp' = TRUE
    PROVE  LeaseInv'
<1>1. UNCHANGED <<pc, kind, reserved>>
  BY DEF ReconcileRows, locals
<1>2. \A n \in LiveNames : holder'[n] = holder[n] /\ left'[n] = left[n]
  BY DEF ReconcileRows, DeleteExpired, KeepOnly, LiveNames
<1>3. \A n \in LockNames : left'[n] > 0 => n \in LiveNames
  BY DEF ReconcileRows, DeleteExpired, KeepOnly, LiveNames
<1>4. ASSUME NEW j \in Jobs, Outer(kind[j]) \in Needed(j)
      PROVE  op'[j] = op[j]
  <2>1. Owns(j, Outer(kind[j])) /\ Live(Outer(kind[j]))
    BY <1>4 DEF LeaseInv, LeasesHeld, Holds
  <2>2. <<"op", j>> \notin Orphans
    BY <2>1 DEF Orphans, OrphanOp
  <2> QED
    BY <2>2 DEF ReconcileRows, FailRows, TypeOK, JobTypeOK
<1>5. \A j \in Jobs : Needed(j)' = Needed(j)
  BY <1>1 DEF Needed, Renewed
<1>6. LeasesHeld' /\ OneOwner'
  BY <1>2, <1>3, <1>5 DEF LeaseInv, LeasesHeld, Holds, OneOwner, Owns, Live, LiveNames, Needed
<1>7. DownMeansDead' /\ KindFits'
  BY <1>1 DEF LeaseInv, DownMeansDead, KindFits, Alive
<1>8. RecordFits'
  BY <1>1, <1>4, <1>5 DEF LeaseInv, RecordFits
<1> QED
  BY <1>6, <1>7, <1>8 DEF LeaseInv

\* A dead server and no other process: nobody relies on what a local restart
\* deletes.
LEMMA LocalLeases ==
    ASSUME TypeOK, LeaseInv, ~serverUp, Standalone = {}, RecoverLocally, serverUp' = TRUE
    PROVE  LeaseInv'
<1>1. UNCHANGED <<pc, kind, reserved>>
  BY DEF RecoverLocally, locals
<1>2. \A j \in Jobs : Needed(j) = {}
  BY NeedyIsAlive DEF LeaseInv, DownMeansDead
<1>3. \A j \in Jobs : Needed(j)' = {}
  BY <1>1, <1>2 DEF Needed, Renewed
<1>4. LiveNames' = {}
  BY DEF RecoverLocally, KeepOnly, LiveNames, Live
<1> QED
  BY <1>1, <1>3, <1>4 DEF LeaseInv, LeasesHeld, Holds, OneOwner, DownMeansDead, KindFits, RecordFits

\* An hour ends the leases of the dead only.
LEMMA TickLeases ==
    ASSUME TypeOK, LeaseInv, ~HostSuspends, Tick
    PROVE  LeaseInv'
<1>1. UNCHANGED <<serverUp, pc, kind, reserved, op, holder>>
  BY DEF Tick, Elapse, locals, records
<1>2. \A j \in Jobs : Needed(j)' = Needed(j)
  BY <1>1 DEF Needed, Renewed
<1>3. \A n \in LockNames : left'[n] > 0 => left[n] > 0
  BY DEF Tick, Elapse, Live, TypeOK, LockTypeOK
<1>4. ASSUME NEW j \in Jobs, NEW n \in Needed(j)
      PROVE  Owns(j, n)' /\ Live(n)'
  <2>1. n \in LockNames /\ Owns(j, n) /\ Live(n) /\ Alive(j)
    BY <1>4, NeedyIsAlive DEF LeaseInv, LeasesHeld, Holds, Needed
  <2>2. left[n] > 1
    BY <2>1 DEF Tick, LiveNames, Owns
  <2> QED
    BY <1>1, <2>1, <2>2 DEF Tick, Elapse, Owns, Live, TypeOK, LockTypeOK
<1>5. LeasesHeld'
  BY <1>2, <1>4 DEF LeasesHeld, Holds
<1>6. OneOwner'
  BY <1>1, <1>3 DEF LeaseInv, OneOwner, LiveNames, Live
<1>7. DownMeansDead' /\ KindFits'
  BY <1>1 DEF LeaseInv, DownMeansDead, KindFits, Alive
<1>8. RecordFits'
  BY <1>1, <1>2 DEF LeaseInv, RecordFits
<1> QED
  BY <1>5, <1>6, <1>7, <1>8 DEF LeaseInv

\* The dead rely on nothing.
LEMMA DeathLeases ==
    ASSUME TypeOK, LeaseInv, NEW S, Dies(S),
           serverUp' = serverUp \/ \A j \in Jobs \ Standalone : Alive(j) => j \in S
    PROVE  LeaseInv'
  BY DEF Dies, LeaseInv, LeasesHeld, Holds, OneOwner, DownMeansDead, KindFits, RecordFits, Needed,
     Renewed, Alive, Owns, Live, LiveNames, TypeOK, LockTypeOK, JobTypeOK, lockVars, records,
     ReservedPcs, SharedPcs, UpdatePcs, FeedPcs, AiPcs, Updates

-----------------------------------------------------------------------------
\* LeaseInv holds at the start.
LEMMA InitLeases == Init => LeaseInv
  BY DEF Init, LockInit, LeaseInv, LeasesHeld, Holds, OneOwner, DownMeansDead, KindFits, RecordFits,
     Needed, Renewed, Alive, LiveNames, Live, ReservedPcs, SharedPcs, UpdatePcs, FeedPcs, AiPcs

\* Every step keeps LeaseInv.
LEMMA NextLeases ==
    ASSUME TypeOK, LeaseInv, [Next]_vars, ~HostSuspends,
           "local" \in Launchers => Standalone = {}
    PROVE  LeaseInv'
<1>1. ASSUME NEW j \in Jobs, NewStep(j) \/ WorkerStep(j)
      PROVE  LeaseInv'
  BY <1>1, NewLeases, RequestLeases, RefreshLeases, SummaryLeases, EndLeases DEF WorkerStep
<1>2. ASSUME NEW j \in Jobs, Heartbeat(j)
      PROVE  LeaseInv'
  BY <1>2 DEF Heartbeat, RenewLock, locals, records, LeaseInv, LeasesHeld, Holds, OneOwner,
     DownMeansDead, KindFits, RecordFits, Needed, Renewed, Alive, Owns, Live, LiveNames,
     TypeOK, LockTypeOK, JobTypeOK, LockNames
<1>3. ASSUME NEW j \in Jobs, CrashStandalone(j)
      PROVE  LeaseInv'
  BY <1>3, DeathLeases DEF CrashStandalone
<1>4. ASSUME NEW names \in CancelRequests, RequestCancellation(names)
      PROVE  LeaseInv'
  BY <1>4 DEF RequestCancellation, FlagRows, locals, records, LeaseInv, LeasesHeld, Holds, OneOwner,
     DownMeansDead, KindFits, RecordFits, Needed, Renewed, Alive, Owns, Live, LiveNames
<1>5. CASE CrashServer
  BY <1>5, DeathLeases DEF CrashServer
<1>6. CASE Restart
  BY <1>6, LocalLeases, ReconcileLeases DEF Restart
<1>7. CASE Reconcile
  BY <1>7, ReconcileLeases DEF Reconcile
<1>8. CASE Tick
  BY <1>8, TickLeases
<1>9. CASE UNCHANGED vars
  BY <1>9 DEF vars, lockVars, locals, records, LeaseInv, LeasesHeld, Holds, OneOwner,
     DownMeansDead, KindFits, RecordFits, Needed, Renewed, Alive, Owns, Live, LiveNames
<1> QED
  BY <1>1, <1>2, <1>3, <1>4, <1>5, <1>6, <1>7, <1>8, <1>9 DEF Next

\* A job at work relies on a lease.
LEMMA WorkNeedsLease ==
    ASSUME TypeOK, LeaseInv, NEW j \in Jobs, Working(j)
    PROVE  \E n \in LiveNames : Owns(j, n)
<1>1. \E n \in LockNames : n \in Needed(j)
  BY DEF Working, LeaseInv, KindFits, Needed, Renewed, LockNames
<1> QED
  BY <1>1 DEF LeaseInv, LeasesHeld, Holds, LiveNames

\* The leases and records are consistent with the positions of the workers.
THEOREM LeasesAreKept ==
    ASSUME ~HostSuspends, "local" \in Launchers => Standalone = {}
    PROVE  Spec => []LeaseInv
<1>1. TypeOK /\ LeaseInv /\ [Next]_vars => LeaseInv'
  BY NextLeases
<1> QED
  BY InitLeases, <1>1, TypeCorrect, PTL DEF Spec

\* No two jobs read feeds, send to the AI provider or replace the database at
\* once, in whatever threads and processes they run.
THEOREM MutualExclusion ==
    ASSUME ~HostSuspends, "local" \in Launchers => Standalone = {}
    PROVE  Spec => []Exclusion
<1>1. TypeOK /\ LeaseInv => Exclusion
  BY WorkNeedsLease DEF Exclusion, LeaseInv, OneOwner, Owns
<1> QED
  BY <1>1, TypeCorrect, LeasesAreKept, PTL

\* While a browser job is at work its record says so.
THEOREM WorkIsOnRecord ==
    ASSUME ~HostSuspends, "local" \in Launchers => Standalone = {}
    PROVE  Spec => []WorkingRecordRuns
<1>1. LeaseInv => WorkingRecordRuns
  BY DEF LeaseInv, RecordFits, KindFits, WorkingRecordRuns, Working, Needed, Renewed, Outer,
     LockNames, Updates, SharedPcs, UpdatePcs, FeedPcs, AiPcs
<1> QED
  BY <1>1, LeasesAreKept, PTL

-----------------------------------------------------------------------------
(***************************************************************************)
(* Nobody but its owner ends the live lease of a living job.               *)
(***************************************************************************)
\* What a step of job i does to the live leases of all jobs.
Spares(i) ==
    \/ \A n \in LiveNames : holder'[n] = holder[n] \/ (holder[n] = i /\ pc'[i] # pc[i])
    \/ RestoreReplaces(i)

\* A grant leaves the owner of every live lease in place.
LEMMA GrantSpares ==
    ASSUME NEW n \in LockNames, NEW i, NEW ticks, NEW exclusive,
           AcquireLock(n, i, ticks, exclusive)
    PROVE  \A m \in LiveNames : holder'[m] = holder[m]
<1>1. ~Live(n)
  BY DEF AcquireLock, Grantable, LiveNames
<1> QED
  BY <1>1 DEF AcquireLock, LiveNames

\* A job takes no live lease from another.
LEMMA WorkerSpares ==
    ASSUME JobTypeOK, NEW i \in Jobs, NewStep(i) \/ WorkerStep(i)
    PROVE  Spares(i)
<1>1. UNCHANGED lockVars => Spares(i)
  BY DEF lockVars, Spares
<1>2. ASSUME NEW n, NEW exclusive, RefuseLock(n, exclusive)
      PROVE  Spares(i)
  BY <1>2 DEF RefuseLock, DeleteExpired, KeepOnly, LiveNames, Spares
<1>3. ASSUME NEW n, ReleaseLock(n, i), pc'[i] # pc[i]
      PROVE  Spares(i)
  BY <1>3 DEF ReleaseLock, KeepOnly, LiveNames, Owns, Spares
<1>4. ASSUME NEW n \in LockNames, NEW ticks, NEW exclusive, AcquireLock(n, i, ticks, exclusive)
      PROVE  Spares(i)
  BY <1>4, GrantSpares DEF Spares
<1>5. {"feed-refresh", "llm-summary", "summary-update", "maintenance"} \subseteq LockNames
  BY DEF LockNames
<1>6. CASE NewStep(i)
  BY <1>1, <1>2, <1>4, <1>5, <1>6, OuterIsName
  DEF NewStep, Reserve, StartUnattended, StartRestore, RefuseRequest
<1>7. CASE RequestStep(i)
  BY <1>1, <1>2, <1>4, <1>7, OuterIsName DEF RequestStep, CreateOperation, CreateOperationFails,
     ThreadFails, StartOperation, SetPhase, EnterReserved, EnterUnreserved, AcquireOwn
<1>8. CASE RefreshStep(i)
  <2>1. RRelease(i) => pc'[i] # pc[i]
    BY DEF RRelease, Report, ReturnToUpdate, At, Goto, JobTypeOK
  <2> QED
    BY <1>1, <1>2, <1>3, <1>4, <1>5, <1>8, <2>1
    DEF RefreshStep, RAcquire, RFresh, RBegin, RFail, RFetch, RRecord, RRecheck, RRelease
<1>9. CASE SummaryStep(i)
  <2>1. SRelease(i) \/ URelease(i) => pc'[i] # pc[i]
    BY DEF SRelease, URelease, Report, At, Goto, JobTypeOK
  <2> QED
    BY <1>1, <1>2, <1>3, <1>4, <1>5, <1>9, <2>1 DEF SummaryStep, UStop, SAcquire, SStop, SPlugin,
       SPlugged, SRefused, SBegin, EvaluationStage, CompositionStage, CheckBatch, SendBatch,
       RequestFails, Evaluated, Composed, SRelease, URelease
<1>10. CASE EndStep(i)
  <2>1. Unreserve(i) \/ RestoreEnds(i) => pc'[i] # pc[i]
    BY DEF Unreserve, RestoreEnds, At, Goto, JobTypeOK
  <2>2. RestoreReplaces(i) => Spares(i)
    BY DEF Spares
  <2> QED
    BY <1>1, <1>3, <1>10, <2>1, <2>2
    DEF EndStep, Finish, FailOperation, Unreserve, RestoreRefused, RestoreEnds
<1> QED
  BY <1>6, <1>7, <1>8, <1>9, <1>10 DEF WorkerStep

\* The maintenance lease of a restore is the only live one.
LEMMA RestoreIsAlone ==
    ASSUME LeaseInv, NEW i \in Jobs, RestoreReplaces(i)
    PROVE  /\ "maintenance" \in LiveNames
           /\ \A n \in LiveNames : holder[n] = i
<1>1. "maintenance" \in Needed(i)
  BY DEF RestoreReplaces, At, Needed, LockNames
<1>2. Owns(i, "maintenance") /\ Live("maintenance")
  BY <1>1 DEF LeaseInv, LeasesHeld, Holds
<1> QED
  BY <1>2 DEF LeaseInv, OneOwner, LiveNames, LockNames, Owns

\* A live lease of a living job changes hands only in a step of that job.
LEMMA LiveLeaseKept ==
    ASSUME TypeOK, LeaseInv, [Next]_vars, "local" \in Launchers => Standalone = {},
           NEW j \in Jobs, NEW n \in LockNames,
           Owns(j, n), left[n] > 0, Alive(j), holder'[n] # j
    PROVE  pc'[j] # pc[j]
<1>1. n \in LiveNames /\ holder[n] = j
  BY DEF LiveNames, Live, Owns
<1>2. ASSUME NEW i \in Jobs, NewStep(i) \/ WorkerStep(i)
      PROVE  pc'[j] # pc[j]
  <2>1. CASE RestoreReplaces(i)
    <3>1. i = j
      BY <1>1, <2>1, RestoreIsAlone
    <3> QED
      BY <2>1, <3>1 DEF RestoreReplaces, At, Goto, TypeOK, JobTypeOK
  <2> QED
    BY <1>1, <1>2, <2>1, WorkerSpares DEF Spares, TypeOK
<1>3. CASE UNCHANGED holder
  BY <1>1, <1>3
<1>4. CASE DeleteExpired
  BY <1>1, <1>4 DEF DeleteExpired, KeepOnly
<1>5. CASE Restart
  <2>1. CASE "local" \in Launchers /\ ~serverUp
    BY <2>1 DEF LeaseInv, DownMeansDead
  <2> QED
    BY <1>4, <1>5, <2>1 DEF Restart, ReconcileRows
<1> QED
  BY <1>2, <1>3, <1>4, <1>5 DEF Next, Heartbeat, RenewLock, CrashStandalone, CrashServer, Dies,
     RequestCancellation, FlagRows, Tick, Elapse, Reconcile, ReconcileRows, vars, lockVars

\* A live lease of a living job disappears only by that job's own hand.
THEOREM LeasesEndByTheirOwner ==
    ASSUME ~HostSuspends, "local" \in Launchers => Standalone = {}
    PROVE  Spec => LiveLeaseEndsByOwner
<1> DEFINE Kept == \A j \in Jobs, n \in LockNames :
          Owns(j, n) /\ left[n] > 0 /\ Alive(j) /\ ~(holder'[n] = j) => pc'[j] # pc[j]
<1>1. TypeOK /\ LeaseInv /\ [Next]_vars => [Kept]_vars
  BY LiveLeaseKept
<1> QED
  BY <1>1, TypeCorrect, LeasesAreKept, PTL DEF Spec, LiveLeaseEndsByOwner

-----------------------------------------------------------------------------
(***************************************************************************)
(* The coordination implements UpdateTurn: every step maps to a step of it *)
(* or to a stutter.                                                        *)
(***************************************************************************)
\* The turn is the owner of the live leases, if there are any.
LEMMA TurnFacts ==
    ASSUME TypeOK, OneOwner
    PROVE  /\ LiveNames = {} => turn = None
           /\ \A n \in LiveNames : turn = holder[n] /\ turn \in Jobs
           /\ \A j \in Jobs : turn = j <=> \E n \in LiveNames : holder[n] = j
<1>1. \A n \in LiveNames : holder[n] \in Jobs
  BY DEF TypeOK, LockTypeOK, LiveNames, Live
<1>2. ASSUME NEW n \in LiveNames
      PROVE  turn = holder[n]
  BY <1>1, <1>2 DEF turn, OneOwner, Owns
<1>3. LiveNames = {} => turn = None
  BY DEF turn
<1>4. ASSUME NEW j \in Jobs, turn = j
      PROVE  \E n \in LiveNames : holder[n] = j
  <2>1. PICK n \in LiveNames : TRUE
    BY <1>3, <1>4
  <2> QED
    BY <1>2, <1>4, <2>1
<1> QED
  BY <1>1, <1>2, <1>3, <1>4

\* The same facts about the turn after a step.
LEMMA NextTurnFacts ==
    ASSUME TypeOK', OneOwner'
    PROVE  /\ LiveNames' = {} => turn' = None
           /\ \A n \in LiveNames' : turn' = holder'[n] /\ turn' \in Jobs
           /\ \A j \in Jobs : turn' = j <=> \E n \in LiveNames' : holder'[n] = j
<1>1. \A n \in LiveNames' : holder'[n] \in Jobs
  BY DEF TypeOK, LockTypeOK, LiveNames, Live
<1>2. ASSUME NEW n \in LiveNames'
      PROVE  turn' = holder'[n]
  BY <1>1, <1>2 DEF turn, OneOwner, Owns
<1>3. LiveNames' = {} => turn' = None
  BY DEF turn
<1>4. ASSUME NEW j \in Jobs, turn' = j
      PROVE  \E n \in LiveNames' : holder'[n] = j
  <2>1. PICK n \in LiveNames' : TRUE
    BY <1>3, <1>4
  <2> QED
    BY <1>2, <1>4, <2>1
<1> QED
  BY <1>1, <1>2, <1>3, <1>4

\* What the invariants say of a state, for the mapping.
TurnInv == TypeOK /\ LeaseInv /\ OwnLeases /\ (\A i \in Jobs : Books(i))

\* Live leases that keep their owners keep the turn, and when some go the turn
\* may end; an exclusive grant begins one.
LEMMA SameTurn ==
    ASSUME TurnInv, TurnInv', LiveNames' = LiveNames, \A n \in LiveNames : holder'[n] = holder[n]
    PROVE  turn' = turn
<1>1. CASE LiveNames = {}
  BY <1>1, TurnFacts, NextTurnFacts DEF TurnInv, LeaseInv
<1>2. ASSUME NEW n \in LiveNames
      PROVE  turn' = turn
  BY <1>2, TurnFacts, NextTurnFacts DEF TurnInv, LeaseInv
<1> QED
  BY <1>1, <1>2

\* A step that only ends leases keeps the turn or gives it up.
LEMMA LessTurn ==
    ASSUME TurnInv, TurnInv', LiveNames' \subseteq LiveNames,
           \A n \in LiveNames' : holder'[n] = holder[n]
    PROVE  turn' = turn \/ (turn # None /\ turn' = None)
<1>1. CASE LiveNames = {}
  BY <1>1, SameTurn
<1>2. CASE LiveNames # {} /\ LiveNames' = {}
  BY <1>2, TurnFacts, NextTurnFacts DEF TurnInv, LeaseInv, TypeOK, LockTypeOK
<1>3. ASSUME NEW n \in LiveNames'
      PROVE  turn' = turn
  BY <1>3, TurnFacts, NextTurnFacts DEF TurnInv, LeaseInv
<1> QED
  BY <1>1, <1>2, <1>3

\* An exclusive grant begins a turn.
LEMMA TurnTaken ==
    ASSUME TurnInv, TurnInv', NEW n \in LockNames, NEW j \in Jobs, NEW ticks \in Nat \ {0},
           AcquireLock(n, j, ticks, TRUE)
    PROVE  turn = None /\ turn' = j
<1>1. LiveNames = {} /\ LiveNames' = {n} /\ holder'[n] = j
  BY ExclusiveGrant DEF AcquireLock, Grantable, TurnInv
<1> QED
  BY <1>1, TurnFacts, NextTurnFacts DEF TurnInv, LeaseInv

\* A shared grant to the job that has the turn keeps it.
LEMMA TurnKept ==
    ASSUME TurnInv, TurnInv', NEW n \in LockNames, NEW j \in Jobs, NEW ticks \in Nat \ {0},
           AcquireLock(n, j, ticks, FALSE), turn = j
    PROVE  turn' = j
<1>1. n \in LiveNames' /\ holder'[n] = j
  BY DEF AcquireLock, LiveNames, Live, TurnInv, TypeOK, LockTypeOK
<1> QED
  BY <1>1, NextTurnFacts DEF TurnInv, LeaseInv

\* The deletions of rows.
LEMMA DeletionTurn ==
    ASSUME TurnInv, TurnInv', NEW Kept, KeepOnly(Kept)
    PROVE  turn' = turn \/ (turn # None /\ turn' = None)
<1>1. LiveNames' \subseteq LiveNames /\ \A n \in LiveNames' : holder'[n] = holder[n]
  BY DEF KeepOnly, LiveNames, Live
<1> QED
  BY <1>1, LessTurn

\* Deleting the expired rows leaves the turn alone.
LEMMA CollectionTurn ==
    ASSUME TurnInv, TurnInv', DeleteExpired
    PROVE  turn' = turn
<1>1. LiveNames' = LiveNames /\ \A n \in LiveNames : holder'[n] = holder[n]
  BY DEF DeleteExpired, KeepOnly, LiveNames, Live
<1> QED
  BY <1>1, SameTurn

\* A job that needs a lease has the turn.
LEMMA NeedyHasTurn ==
    ASSUME TurnInv, NEW j \in Jobs, NEW n \in Needed(j)
    PROVE  turn = j
<1>1. n \in LiveNames /\ holder[n] = j
  BY DEF TurnInv, LeaseInv, LeasesHeld, Holds, Needed, LiveNames, Owns
<1> QED
  BY <1>1, TurnFacts DEF TurnInv, LeaseInv

\* A living job that has the turn has its own lease.
LEMMA TurnHasOuter ==
    ASSUME TurnInv, NEW j \in Jobs, turn = j, pc[j] # "dead"
    PROVE  /\ Alive(j)
           /\ Owns(j, Outer(kind[j])) /\ Live(Outer(kind[j]))
<1>1. PICK n \in LiveNames : holder[n] = j
  BY TurnFacts DEF TurnInv, LeaseInv
<1>2. MayOwn(j, n) /\ n \in LockNames /\ Live(n)
  BY <1>1 DEF TurnInv, OwnLeases, Owns, LiveNames
<1>3. Alive(j)
  BY <1>2 DEF MayOwn, Alive, FeedPcs, AiPcs
<1>4. CASE n = Outer(kind[j])
  BY <1>1, <1>2, <1>3, <1>4 DEF Owns
<1>5. CASE n # Outer(kind[j])
  <2>1. pc[j] \in UpdatePcs /\ kind[j] # "refresh"
    <3>1. CASE n = "feed-refresh" /\ pc[j] \in FeedPcs \cup {"r_release"}
      BY <1>5, <3>1 DEF Outer, UpdatePcs
    <3>2. CASE n = "llm-summary" /\ pc[j] \in AiPcs \cup {"s_release"}
      <4>1. pc[j] \in UpdateOnlyPcs
        BY <3>2 DEF UpdateOnlyPcs, UpdatePcs, SharedPcs, FeedPcs, AiPcs
      <4> QED
        BY <3>2, <4>1 DEF TurnInv, Books, Placed, UpdatePcs
    <3> QED
      BY <1>2, <1>5, <3>1, <3>2 DEF MayOwn
  <2>2. kind[j] \in Updates
    BY <2>1 DEF TurnInv, Books, Placed, UpdateOnlyPcs, Updates
  <2>3. Outer(kind[j]) = "summary-update" /\ "summary-update" \in Needed(j)
    BY <2>1, <2>2 DEF Outer, Updates, Needed, Renewed, LockNames
  <2> QED
    BY <1>3, <2>3 DEF TurnInv, LeaseInv, LeasesHeld, Holds
<1> QED
  BY <1>3, <1>4, <1>5

\* A step of the code that is a step of UpdateTurn, or none.
Maps == Turns!TurnNext \/ UNCHANGED <<turn, gone, op>>

\* A job that moves on is not gone.
LEMMA MovesOn ==
    ASSUME JobTypeOK, NEW j \in Jobs, NEW label, Goto(j, label), label # "dead", pc[j] # "dead"
    PROVE  gone' = gone
  BY DEF Goto, gone, JobTypeOK

\* The turn may end at any step that leaves the records alone.
LEMMA LeavingMaps ==
    ASSUME turn' = turn \/ (turn # None /\ turn' = None), gone' = gone, op' = op
    PROVE  Maps
  BY DEF Maps, Turns!TurnNext, Turns!Leave

\* A step on the way that leaves leases and records alone.
LEMMA QuietMaps ==
    ASSUME TurnInv, TurnInv', UNCHANGED lockVars, UNCHANGED op, gone' = gone
    PROVE  Maps
<1>1. LiveNames' = LiveNames /\ \A n \in LiveNames : holder'[n] = holder[n]
  BY DEF lockVars, LiveNames, Live
<1> QED
  BY <1>1, SameTurn DEF Maps

\* The lease that a job takes first is its turn.
LEMMA TakingMaps ==
    ASSUME TurnInv, TurnInv', NEW j \in Jobs, NEW n \in LockNames, NEW ticks \in Nat \ {0},
           AcquireLock(n, j, ticks, TRUE), pc[j] # "dead", gone' = gone, op' = op
    PROVE  Maps
<1>1. turn = None /\ turn' = j
  BY TurnTaken
<1>2. j \notin gone
  BY DEF gone
<1> QED
  BY <1>1, <1>2 DEF Maps, Turns!TurnNext, Turns!Take

\* The requests and the way to the first lease.
LEMMA NewMaps ==
    ASSUME TurnInv, TurnInv', NEW j \in Jobs, NewStep(j)
    PROVE  Maps
<1> USE DEF TurnInv, TypeOK, records
<1>1. ASSUME NEW k, NEW label \in {"reserved", "enter", "m_work"}, NEW fromBrowser,
             Enrol(j, k, label, fromBrowser)
      PROVE  gone' = gone /\ op' = op /\ pc[j] # "dead"
  BY <1>1, MovesOn DEF Enrol
<1>2. ASSUME NEW k \in Kinds, Reserve(j, k)
      PROVE  Maps
  BY <1>1, <1>2, TakingMaps, OuterIsName, TicksArePositive DEF Reserve
<1>3. ASSUME NEW k \in Kinds, StartUnattended(j, k)
      PROVE  Maps
  BY <1>1, <1>3, QuietMaps DEF StartUnattended
<1>4. CASE StartRestore(j)
  <2>1. "maintenance" \in LockNames /\ TTL["maintenance"] \in Nat \ {0}
    BY DEF LockNames
  <2> QED
    BY <1>1, <1>4, <2>1, TakingMaps DEF StartRestore
<1>5. CASE RefuseRequest(j)
  BY <1>5, CollectionTurn DEF RefuseRequest, RefuseLock, Maps, gone
<1> QED
  BY <1>2, <1>3, <1>4, <1>5 DEF NewStep

\* The steps of a request map to steps of the abstract specification, or to
\* none.
LEMMA RequestMaps ==
    ASSUME TurnInv, TurnInv', NEW j \in Jobs, RequestStep(j)
    PROVE  Maps
<1> USE DEF TurnInv, TypeOK, records, At
<1>1. CASE CreateOperation(j)
  <2>1. Outer(kind[j]) \in Needed(j)
    BY <1>1, OuterIsName DEF CreateOperation, Needed, ReservedPcs, Books, Placed
  <2>2. turn = j /\ turn' = turn /\ gone' = gone /\ j \notin gone
    BY <1>1, <2>1, NeedyHasTurn, SameTurn, MovesOn DEF CreateOperation, gone, lockVars, LiveNames,
       Live
  <2>3. op[j] = "none"
    BY <1>1 DEF CreateOperation, Books, Recorded
  <2> QED
    BY <1>1, <2>2, <2>3 DEF CreateOperation, Maps, Turns!TurnNext, Turns!Accept
<1>2. CASE CreateOperationFails(j)
  <2>1. turn' = turn
    BY <1>2, SameTurn DEF CreateOperationFails, lockVars, LiveNames, Live
  <2>2. gone' = gone \cup {j}
    BY <1>2 DEF CreateOperationFails, Goto, gone, JobTypeOK
  <2>3. Turns!Vanish({j})
    BY <1>2, <2>1, <2>2 DEF CreateOperationFails, Turns!Vanish
  <2> QED
    BY <2>3 DEF Maps, Turns!TurnNext
<1>3. CASE ThreadFails(j) \/ SetPhase(j)
  BY <1>3, QuietMaps, MovesOn DEF ThreadFails, SetPhase
<1>4. CASE StartOperation(j)
  <2>1. Outer(kind[j]) \in Needed(j) /\ reserved[j]
    BY <1>4, OuterIsName DEF StartOperation, Needed, ReservedPcs, Books, Placed
  <2>2. turn = j /\ turn' = turn /\ gone' = gone /\ j \notin gone
    BY <1>4, <2>1, NeedyHasTurn, SameTurn, MovesOn DEF StartOperation, gone, lockVars, LiveNames,
       Live
  <2>3. op[j] = "queued"
    BY <1>4, <2>1 DEF StartOperation, LeaseInv, RecordFits
  <2> QED
    BY <1>4, <2>2, <2>3 DEF StartOperation, Maps, Turns!TurnNext, Turns!Begin
<1>5. CASE EnterReserved(j) \/ EnterUnreserved(j)
  BY <1>5, QuietMaps, MovesOn DEF EnterReserved, EnterUnreserved, FirstStep
<1>6. CASE AcquireOwn(j)
  <2>1. gone' = gone /\ op' = op /\ pc[j] # "dead"
    <3>1. PICK label : label \in {"r_begin", "r_acquire", "done"} /\ Goto(j, label)
      BY <1>6 DEF AcquireOwn, FirstStep
    <3> QED
      BY <1>6, <3>1, MovesOn DEF AcquireOwn
  <2>2. CASE AcquireLock(Outer(kind[j]), j, TTL[Outer(kind[j])], TRUE)
    BY <2>1, <2>2, TakingMaps, OuterIsName, TicksArePositive
  <2>3. CASE RefuseLock(Outer(kind[j]), TRUE)
    BY <2>1, <2>3, CollectionTurn DEF RefuseLock, Maps
  <2> QED
    BY <1>6, <2>2, <2>3 DEF AcquireOwn
<1> QED
  BY <1>1, <1>2, <1>3, <1>4, <1>5, <1>6 DEF RequestStep

\* The feed check and the AI stage take their leases inside the turn.
LEMMA SharedMaps ==
    ASSUME TurnInv, TurnInv', NEW j \in Jobs, NEW n \in {"feed-refresh", "llm-summary"},
           pc[j] \in {"r_acquire", "s_acquire"}, gone' = gone, op' = op,
           AcquireLock(n, j, TTL[n], FALSE) \/ RefuseLock(n, FALSE)
    PROVE  Maps
<1>1. CASE RefuseLock(n, FALSE)
  BY <1>1, CollectionTurn DEF RefuseLock, Maps
<1>2. CASE AcquireLock(n, j, TTL[n], FALSE)
  <2>1. "summary-update" \in Needed(j)
    BY DEF TurnInv, Books, Placed, Needed, Renewed, UpdateOnlyPcs, UpdatePcs, SharedPcs, FeedPcs,
       LockNames
  <2>2. n \in LockNames /\ TTL[n] \in Nat \ {0}
    BY DEF LockNames
  <2>3. turn = j /\ turn' = j
    BY <1>2, <2>1, <2>2, NeedyHasTurn, TurnKept
  <2> QED
    BY <2>3 DEF Maps
<1> QED
  BY <1>1, <1>2

\* A release maps to the end of a turn, or to nothing.
LEMMA ReleaseMaps ==
    ASSUME TurnInv, TurnInv', NEW n, NEW j, ReleaseLock(n, j), gone' = gone, op' = op
    PROVE  Maps
  BY DeletionTurn, LeavingMaps DEF ReleaseLock

\* The steps of a feed check map to abstract steps, or to none.
LEMMA RefreshMaps ==
    ASSUME TurnInv, TurnInv', NEW j \in Jobs, RefreshStep(j)
    PROVE  Maps
<1> USE DEF TurnInv, TypeOK, records, At
<1>1. CASE RAcquire(j)
  <2>1. PICK label \in {"r_begin", "u_release"} : Goto(j, label)
    BY <1>1 DEF RAcquire
  <2>2. gone' = gone
    BY <1>1, <2>1, MovesOn DEF RAcquire
  <2> QED
    BY <1>1, <2>2, SharedMaps DEF RAcquire
<1>2. CASE RFresh(j) \/ RBegin(j) \/ RFail(j) \/ RFetch(j) \/ RRecord(j) \/ RRecheck(j)
  <2>1. PICK label \in {"r_release", "r_fetch", "r_record", "r_recheck"} : Goto(j, label)
    BY <1>2 DEF RFresh, RBegin, RFail, RFetch, RRecord, RRecheck
  <2>2. UNCHANGED lockVars /\ op' = op /\ pc[j] # "dead"
    BY <1>2 DEF RFresh, RBegin, RFail, RFetch, RRecord, RRecheck
  <2> QED
    BY <2>1, <2>2, QuietMaps, MovesOn
<1>3. CASE RRelease(j)
  <2>1. PICK label \in {"finish", "failing", "done", "u_release", "u_stop"} : Goto(j, label)
    BY <1>3 DEF RRelease, Report, ReturnToUpdate
  <2>2. gone' = gone
    BY <1>3, <2>1, MovesOn DEF RRelease
  <2> QED
    BY <1>3, <2>2, ReleaseMaps DEF RRelease
<1> QED
  BY <1>1, <1>2, <1>3 DEF RefreshStep

\* The steps of an AI stage map to abstract steps, or to none.
LEMMA SummaryMaps ==
    ASSUME TurnInv, TurnInv', NEW j \in Jobs, SummaryStep(j)
    PROVE  Maps
<1> USE DEF TurnInv, TypeOK, records, At
<1>1. CASE SAcquire(j)
  <2>1. PICK label \in {"s_stop", "u_release"} : Goto(j, label)
    BY <1>1 DEF SAcquire
  <2>2. gone' = gone
    BY <1>1, <2>1, MovesOn DEF SAcquire
  <2> QED
    BY <1>1, <2>2, SharedMaps DEF SAcquire
<1>2. ASSUME UNCHANGED lockVars, op' = op,
             pc[j] # "dead", NEW label, Goto(j, label), label # "dead"
      PROVE  Maps
  BY <1>2, QuietMaps, MovesOn
<1>3. CASE UStop(j) \/ SStop(j) \/ SPlugin(j) \/ SPlugged(j) \/ SRefused(j) \/ SBegin(j)
  BY <1>2, <1>3 DEF UStop, SStop, SPlugin, SPlugged, SRefused, SBegin
<1>4. CASE EvaluationStage(j)
  BY <1>2, <1>4 DEF EvaluationStage, CheckBatch, SendBatch, RequestFails, Evaluated, EndCancelled
<1>5. CASE CompositionStage(j)
  BY <1>2, <1>5 DEF CompositionStage, CheckBatch, SendBatch, RequestFails, Composed, EndCancelled
<1>6. CASE SRelease(j) \/ URelease(j)
  <2>1. PICK label \in {"finish", "failing", "done", "u_release"} : Goto(j, label)
    BY <1>6 DEF SRelease, URelease, Report
  <2>2. gone' = gone
    BY <1>6, <2>1, MovesOn DEF SRelease, URelease
  <2> QED
    BY <1>6, <2>2, ReleaseMaps DEF SRelease, URelease
<1> QED
  BY <1>1, <1>3, <1>4, <1>5, <1>6 DEF SummaryStep

\* The end: the worker concludes its record, or a restore replaces them all.
LEMMA EndMaps ==
    ASSUME TurnInv, TurnInv', NEW j \in Jobs, EndStep(j)
    PROVE  Maps
<1> USE DEF TurnInv, TypeOK, records, At
<1>1. CASE Finish(j) \/ FailOperation(j)
  <2>1. gone' = gone /\ j \notin gone /\ turn' = turn
    BY <1>1, MovesOn, SameTurn DEF Finish, FailOperation, gone, lockVars, LiveNames, Live
  <2>2. \/ op' = op
        \/ op[j] = "running" /\ \E s \in Turns!Closed : op' = [op EXCEPT ![j] = s]
        \/ op[j] = "queued" /\ op' = [op EXCEPT ![j] = "failed"]
    <3>1. TerminalState(result[j]) \in Turns!Closed
      BY DEF TerminalState, Turns!Closed
    <3> QED
      BY <1>1, <3>1 DEF Finish, FailOperation, Active, Turns!Closed, JobTypeOK
  <2>3. op' = op \/ Turns!Conclude(j)
    BY <2>1, <2>2 DEF Turns!Conclude
  <2> QED
    BY <2>1, <2>3 DEF Maps, Turns!TurnNext
<1>2. CASE RestoreRefused(j)
  BY <1>2, QuietMaps, MovesOn DEF RestoreRefused
<1>3. CASE Unreserve(j) \/ RestoreEnds(j)
  BY <1>3, ReleaseMaps, MovesOn DEF Unreserve, RestoreEnds
<1>4. CASE RestoreReplaces(j)
  <2>1. "maintenance" \in Needed(j) /\ "maintenance" \in LockNames
    BY <1>4 DEF RestoreReplaces, Needed, LockNames
  <2>2. turn = j /\ j \notin gone /\ gone' = gone
    BY <1>4, <2>1, NeedyHasTurn, MovesOn DEF RestoreReplaces, gone
  <2>3. "maintenance" \in LiveNames' /\ holder'["maintenance"] = j
    BY <1>4, <2>1 DEF RestoreReplaces, KeepOnly, LeaseInv, LeasesHeld, Holds, LiveNames, Live, Owns
  <2>4. turn' = j
    BY <2>3, NextTurnFacts DEF LeaseInv
  <2>5. j # None
    OBVIOUS
  <2> QED
    BY <1>4, <2>2, <2>4, <2>5 DEF RestoreReplaces, Maps, Turns!TurnNext, Turns!Replace
<1> QED
  BY <1>1, <1>2, <1>3, <1>4 DEF EndStep

\* A recovery fails the records of jobs that are gone or have left the turn.
LEMMA RecoveryMaps ==
    ASSUME TurnInv, TurnInv', NEW aged \in SUBSET Orphans, ReconcileRows(aged)
    PROVE  Maps
<1> DEFINE S == {j \in Jobs : <<"op", j>> \in aged}
<1>1. turn' = turn /\ gone' = gone
  BY CollectionTurn DEF ReconcileRows, gone
<1>2. ASSUME NEW j \in S
      PROVE  op[j] \in Turns!Open /\ (j \in gone \/ turn # j)
  <2>1. OrphanOp(j)
    BY <1>2 DEF Orphans
  <2> QED
    BY <2>1, TurnHasOuter DEF OrphanOp, gone, Active, Turns!Open
<1>3. op' = [j \in Jobs |-> IF j \in S THEN "failed" ELSE op[j]]
  BY DEF ReconcileRows, FailRows
<1>4. Turns!FailOrphans(S)
  BY <1>1, <1>2, <1>3 DEF Turns!FailOrphans, Turns!Failed
<1> QED
  BY <1>4 DEF Maps, Turns!TurnNext

\* The launcher's recovery maps to the end of a turn of a job that is gone,
\* and to the failure of its records.
LEMMA LocalMaps ==
    ASSUME TurnInv, TurnInv', ~serverUp, Standalone = {}, RecoverLocally
    PROVE  Maps
<1>1. gone' = gone
  BY DEF RecoverLocally, gone
<1>2. turn' = None
  <2>1. LiveNames' = {}
    BY DEF RecoverLocally, KeepOnly, LiveNames, Live
  <2> QED
    BY <2>1, NextTurnFacts DEF TurnInv, LeaseInv
<1>3. turn \in gone \cup {None}
  <2>1. CASE LiveNames = {}
    BY <2>1, TurnFacts DEF TurnInv, LeaseInv
  <2>2. ASSUME NEW n \in LiveNames
        PROVE  turn \in gone
    <3>1. turn \in Jobs
      BY <2>2, TurnFacts DEF TurnInv, LeaseInv
    <3>2. \A j \in Jobs : ~Alive(j)
      BY DEF TurnInv, LeaseInv, DownMeansDead
    <3> QED
      BY <3>1, <3>2, TurnHasOuter DEF gone
  <2> QED
    BY <2>1, <2>2
<1>4. op' = Turns!Failed({j \in Jobs : op[j] \in Turns!Open})
  BY DEF RecoverLocally, FailRows, OpenRows, Active, Turns!Failed, Turns!Open
<1>5. Turns!StartAfresh
  BY <1>1, <1>2, <1>3, <1>4 DEF Turns!StartAfresh
<1> QED
  BY <1>5 DEF Maps, Turns!TurnNext

\* Every step maps to an abstract step, or to none.
LEMMA NextMaps ==
    ASSUME TurnInv, TurnInv', [Next]_vars, "local" \in Launchers => Standalone = {}
    PROVE  Maps
<1>1. ASSUME NEW j \in Jobs, NewStep(j) \/ WorkerStep(j)
      PROVE  Maps
  BY <1>1, NewMaps, RequestMaps, RefreshMaps, SummaryMaps, EndMaps DEF WorkerStep
<1>2. ASSUME UNCHANGED holder, UNCHANGED <<pc, op>>, \A n \in LockNames : Live(n)' => Live(n)
      PROVE  Maps
  <2>1. LiveNames' \subseteq LiveNames /\ \A n \in LiveNames' : holder'[n] = holder[n]
    BY <1>2 DEF LiveNames
  <2>2. gone' = gone
    BY <1>2 DEF gone
  <2> QED
    BY <1>2, <2>1, <2>2, LessTurn, LeavingMaps
<1>3. ASSUME NEW j \in Jobs, Heartbeat(j)
      PROVE  Maps
  BY <1>2, <1>3 DEF Heartbeat, RenewLock, Live, records, TurnInv, TypeOK, LockTypeOK
<1>4. ASSUME NEW names \in CancelRequests, RequestCancellation(names)
      PROVE  Maps
  BY <1>2, <1>4 DEF RequestCancellation, FlagRows, Live, records
<1>5. CASE Tick \/ UNCHANGED vars
  BY <1>2, <1>5 DEF Tick, Elapse, Live, records, vars, lockVars
<1>6. ASSUME NEW D \in SUBSET Jobs, Dies(D)
      PROVE  Maps
  <2>1. turn' = turn
    BY <1>6, SameTurn DEF Dies, lockVars, LiveNames, Live
  <2>2. gone' = gone \cup D
    BY <1>6 DEF Dies, gone
  <2>3. Turns!Vanish(D)
    BY <1>6, <2>1, <2>2 DEF Dies, records, Turns!Vanish
  <2> QED
    BY <2>3 DEF Maps, Turns!TurnNext
<1>7. CASE Restart \/ Reconcile
  BY <1>7, RecoveryMaps, LocalMaps DEF Restart, Reconcile
<1>8. ASSUME NEW j \in Jobs, CrashStandalone(j)
      PROVE  Maps
  BY <1>6, <1>8 DEF CrashStandalone
<1>9. CASE CrashServer
  BY <1>6, <1>9 DEF CrashServer
<1> QED
  BY <1>1, <1>3, <1>4, <1>5, <1>7, <1>8, <1>9 DEF Next

\* Leases, positions, clocks and recoveries implement turns: records are
\* accepted and begun by the job whose turn it is, and nobody else fails the
\* record of a job that has its turn and lives.
THEOREM UpdatesTakeTurns ==
    ASSUME ~HostSuspends, "local" \in Launchers => Standalone = {}
    PROVE  Spec => TakesTurns
<1>1. Init => Turns!TurnInit
  BY DEF Init, LockInit, Turns!TurnInit, turn, gone, LiveNames, Live
<1>2. TurnInv /\ TurnInv' /\ [Next]_vars => [Turns!TurnNext]_Turns!turnVars
  BY NextMaps DEF Maps, Turns!turnVars
<1>3. Spec => []TurnInv
  <2>1. Init => OwnLeases
    BY DEF Init, LockInit, OwnLeases, Owns
  <2>2. TypeOK /\ (\A i \in Jobs : Books(i)) /\ OwnLeases /\ [Next]_vars => OwnLeases'
    BY NextOwns
  <2> QED
    BY <2>1, <2>2, TypeCorrect, LeasesAreKept, BooksInvariant, PTL DEF Spec, TurnInv
<1> QED
  BY <1>1, <1>2, <1>3, PTL DEF Spec, TakesTurns, Turns!TurnSpec
=============================================================================
