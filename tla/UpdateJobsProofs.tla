-------------------------- MODULE UpdateJobsProofs --------------------------
(***************************************************************************)
(* Proofs about UpdateJobs, for any set of jobs, any lease lengths and any *)
(* number of requests: the types, and what holds on every host, suspended  *)
(* or not, with any launcher.  Two action properties: an expired lease is  *)
(* never renewed, and a closed operation record is never written over.     *)
(* What is left of exclusion: the jobs that still hold their leases exclude*)
(* each other.  Four invariants about how a job ends: the record of a feed *)
(* check agrees with its run, a failed feed shows in the answer, nobody is *)
(* cancelled who was not asked to stop, and a job that ended leaves no open*)
(* row and no lease behind.  And that it ends: a job has a bounded number  *)
(* of steps left, which only its own steps use up.                         *)
(***************************************************************************)
EXTENDS UpdateJobs, TLAPS

USE LeaseAssumption, JobsAssumption

-----------------------------------------------------------------------------
(***************************************************************************)
(* The operations on the lease table keep its type.                        *)
(***************************************************************************)
\* A deletion of rows keeps the type of the table.
LEMMA KeepOnlyType ==
    ASSUME LockTypeOK, NEW Kept, KeepOnly(Kept)
    PROVE  LockTypeOK'
  BY DEF LockTypeOK, KeepOnly

\* An acquisition keeps it.
LEMMA AcquireType ==
    ASSUME LockTypeOK, NEW n \in LockNames, NEW j \in Jobs, NEW ticks \in Nat \ {0},
           NEW exclusive, AcquireLock(n, j, ticks, exclusive)
    PROVE  LockTypeOK'
<1>1. holder' \in [LockNames -> Jobs \cup {None}]
  BY DEF LockTypeOK, AcquireLock
<1>2. left' \in [LockNames -> Nat]
  BY DEF LockTypeOK, AcquireLock
<1>3. stop' \in [LockNames -> BOOLEAN]
  BY DEF LockTypeOK, AcquireLock
<1>4. ASSUME NEW m \in LockNames, holder'[m] = None
      PROVE  left'[m] = 0 /\ ~stop'[m]
  <2>1. m # n /\ ~Live(m)
    BY <1>4, j # None DEF LockTypeOK, AcquireLock, Live
  <2>2. left'[m] = left[m] /\ ~stop'[m]
    BY <2>1 DEF LockTypeOK, AcquireLock
  <2> QED
    BY <2>1, <2>2 DEF LockTypeOK, Live
<1> QED
  BY <1>1, <1>2, <1>3, <1>4 DEF LockTypeOK

\* A renewal keeps it.
LEMMA RenewType ==
    ASSUME LockTypeOK, NEW n \in LockNames, NEW j \in Jobs, RenewLock(n, j)
    PROVE  LockTypeOK'
  BY DEF LockTypeOK, RenewLock, Owns, Live

\* A stop request keeps it.
LEMMA FlagType ==
    ASSUME LockTypeOK, NEW names, FlagRows(names)
    PROVE  LockTypeOK'
  BY DEF LockTypeOK, FlagRows, Flagged, LiveNames, Live

\* An hour that passes keeps it.
LEMMA ElapseType ==
    ASSUME LockTypeOK, Elapse
    PROVE  LockTypeOK'
  BY DEF LockTypeOK, Elapse, Live

\* So does a step that leaves the table alone.
LEMMA SameLocksType ==
    ASSUME LockTypeOK, UNCHANGED lockVars
    PROVE  LockTypeOK'
  BY DEF LockTypeOK, lockVars

-----------------------------------------------------------------------------
(***************************************************************************)
(* Every step keeps the type of the jobs.                                  *)
(***************************************************************************)
\* A worker on its way from the request to its first lease keeps the type.
LEMMA RequestJobType ==
    ASSUME JobTypeOK, NEW j \in Jobs, RequestStep(j)
    PROVE  JobTypeOK'
<1>1. CASE CreateOperation(j)
  BY <1>1 DEF CreateOperation, JobTypeOK, At, Goto, Return, SetStatus, records, Pcs,
     UpdatePcs, FeedPcs, AiPcs, Statuses, Active, Terminal
<1>2. CASE CreateOperationFails(j)
  BY <1>2 DEF CreateOperationFails, JobTypeOK, At, Goto, Return, SetStatus, records, Pcs,
     UpdatePcs, FeedPcs, AiPcs, Statuses, Active, Terminal
<1>3. CASE ThreadFails(j)
  BY <1>3 DEF ThreadFails, JobTypeOK, At, Goto, Return, SetStatus, records, Pcs,
     UpdatePcs, FeedPcs, AiPcs, Statuses, Active, Terminal
<1>4. CASE StartOperation(j)
  BY <1>4 DEF StartOperation, JobTypeOK, At, Goto, Return, SetStatus, records, Pcs,
     UpdatePcs, FeedPcs, AiPcs, Statuses, Active, Terminal
<1>5. CASE SetPhase(j)
  BY <1>5 DEF SetPhase, JobTypeOK, At, Goto, Return, SetStatus, records, Pcs,
     UpdatePcs, FeedPcs, AiPcs, Statuses, Active, Terminal
<1>6. CASE EnterReserved(j)
  BY <1>6 DEF EnterReserved, FirstStep, JobTypeOK, At, Goto, Return, SetStatus, records, Pcs,
     UpdatePcs, FeedPcs, AiPcs, Statuses, Active, Terminal
<1>7. CASE EnterUnreserved(j)
  BY <1>7 DEF EnterUnreserved, JobTypeOK, At, Goto, Return, SetStatus, records, Pcs,
     UpdatePcs, FeedPcs, AiPcs, Statuses, Active, Terminal
<1>8. CASE AcquireOwn(j)
  BY <1>8 DEF AcquireOwn, FirstStep, JobTypeOK, At, Goto, Return, SetStatus, records, Pcs,
     UpdatePcs, FeedPcs, AiPcs, Statuses, Active, Terminal
<1> QED
  BY <1>1, <1>2, <1>3, <1>4, <1>5, <1>6, <1>7, <1>8 DEF RequestStep

\* So does a worker in run_refresh.
LEMMA RefreshJobType ==
    ASSUME JobTypeOK, NEW j \in Jobs, RefreshStep(j)
    PROVE  JobTypeOK'
<1>1. CASE RAcquire(j)
  BY <1>1 DEF RAcquire, JobTypeOK, At, Goto, Return, SetStatus, records, Pcs,
     UpdatePcs, FeedPcs, AiPcs, Statuses, Active, Terminal
<1>2. CASE RFresh(j)
  BY <1>2 DEF RFresh, JobTypeOK, At, Goto, Return, SetStatus, records, Pcs,
     UpdatePcs, FeedPcs, AiPcs, Statuses, Active, Terminal
<1>3. CASE RBegin(j)
  BY <1>3 DEF RBegin, JobTypeOK, At, Goto, Return, SetStatus, records, Pcs,
     UpdatePcs, FeedPcs, AiPcs, Statuses, Active, Terminal
<1>4. CASE RFail(j)
  BY <1>4 DEF RFail, JobTypeOK, At, Goto, Return, SetStatus, records, Pcs,
     UpdatePcs, FeedPcs, AiPcs, Statuses, Active, Terminal
<1>5. CASE RFetch(j)
  <2>1. result' \in [Jobs -> Statuses \cup {"none"}]
    BY <1>5 DEF JobTypeOK, RFetch, Return, Statuses, Terminal
  <2>2. pc' \in [Jobs -> Pcs]
    BY <1>5 DEF JobTypeOK, RFetch, Goto, Pcs, UpdatePcs, FeedPcs
  <2>3. UNCHANGED <<serverUp, kind, reserved, checked, batch, op, run, aiJob, asked>>
    BY <1>5 DEF RFetch, At, records
  <2> QED
    BY <2>1, <2>2, <2>3 DEF JobTypeOK
<1>6. CASE RRecord(j)
  BY <1>6 DEF RRecord, JobTypeOK, At, Goto, Return, SetStatus, records, Pcs,
     UpdatePcs, FeedPcs, AiPcs, Statuses, Active, Terminal
<1>7. CASE RRecheck(j)
  BY <1>7 DEF RRecheck, JobTypeOK, At, Goto, Return, SetStatus, records, Pcs,
     UpdatePcs, FeedPcs, AiPcs, Statuses, Active, Terminal
<1>8. CASE RRelease(j)
  BY <1>8 DEF RRelease, Report, ReturnToUpdate, Forget, JobTypeOK, At, Goto, Return, SetStatus, records, Pcs,
     UpdatePcs, FeedPcs, AiPcs, Statuses, Active, Terminal
<1> QED
  BY <1>1, <1>2, <1>3, <1>4, <1>5, <1>6, <1>7, <1>8 DEF RefreshStep

\* So does the head of a batch loop.
LEMMA CheckType ==
    ASSUME JobTypeOK, NEW j \in Jobs, NEW here, NEW send \in Pcs, NEW end \in Pcs,
           CheckBatch(j, here, send, end)
    PROVE  JobTypeOK'
  BY DEF JobTypeOK, CheckBatch, At, Goto, records

\* So does a provider request.
LEMMA SendType ==
    ASSUME JobTypeOK, NEW j \in Jobs, NEW here, NEW back \in Pcs,
           SendBatch(j, here, back)
    PROVE  JobTypeOK'
  BY DEF JobTypeOK, SendBatch, At, Goto, records

\* So does a provider request that fails.
LEMMA RequestFailsType ==
    ASSUME JobTypeOK, NEW j \in Jobs, NEW here, RequestFails(j, here)
    PROVE  JobTypeOK'
  BY DEF JobTypeOK, RequestFails, At, Goto, Return, SetStatus, Pcs, UpdatePcs,
     Statuses, Terminal

\* So does the end of the composition.
LEMMA ComposedType ==
    ASSUME JobTypeOK, NEW j \in Jobs, Composed(j)
    PROVE  JobTypeOK'
<1>1. CASE Stopped(j)
  BY <1>1 DEF JobTypeOK, Composed, EndCancelled, At, Goto, Return, SetStatus, Pcs,
     UpdatePcs, Statuses, Terminal
<1>2. CASE ~Stopped(j)
  <2>1. PICK status \in AiOutcomes :
            aiJob' = SetStatus(aiJob, j, status) /\ Return(j, status)
    BY <1>2 DEF Composed
  <2> QED
    BY <1>2, <2>1 DEF JobTypeOK, Composed, At, Goto, Return, SetStatus, Pcs,
       UpdatePcs, Statuses, Terminal
<1> QED
  BY <1>1, <1>2

\* So does a worker in run_summary.
LEMMA SummaryJobType ==
    ASSUME JobTypeOK, NEW j \in Jobs, SummaryStep(j)
    PROVE  JobTypeOK'
<1>1. CASE UStop(j)
  BY <1>1 DEF UStop, JobTypeOK, At, Goto, Return, SetStatus, records, Pcs,
     UpdatePcs, FeedPcs, AiPcs, Statuses, Active, Terminal
<1>2. CASE SAcquire(j)
  BY <1>2 DEF SAcquire, JobTypeOK, At, Goto, Return, SetStatus, records, Pcs,
     UpdatePcs, FeedPcs, AiPcs, Statuses, Active, Terminal
<1>3. CASE SStop(j)
  BY <1>3 DEF SStop, JobTypeOK, At, Goto, Return, SetStatus, records, Pcs,
     UpdatePcs, FeedPcs, AiPcs, Statuses, Active, Terminal
<1>4. CASE SPlugin(j)
  BY <1>4 DEF SPlugin, JobTypeOK, At, Goto, Return, SetStatus, records, Pcs,
     UpdatePcs, FeedPcs, AiPcs, Statuses, Active, Terminal
<1>5. CASE SPlugged(j)
  BY <1>5 DEF SPlugged, JobTypeOK, At, Goto, Return, SetStatus, records, Pcs,
     UpdatePcs, FeedPcs, AiPcs, Statuses, Active, Terminal
<1>6. CASE SRefused(j)
  BY <1>6 DEF SRefused, JobTypeOK, At, Goto, Return, SetStatus, records, Pcs,
     UpdatePcs, FeedPcs, AiPcs, Statuses, Active, Terminal
<1>7. CASE SBegin(j)
  BY <1>7 DEF SBegin, JobTypeOK, At, Goto, Return, SetStatus, records, Pcs,
     UpdatePcs, FeedPcs, AiPcs, Statuses, Active, Terminal
<1>8. CASE EvaluationStage(j)
  <2>1. CASE CheckBatch(j, "s_check", "s_request", "s_evaluated")
    BY <2>1, CheckType DEF Pcs, UpdatePcs, AiPcs
  <2>2. CASE SendBatch(j, "s_request", "s_check")
    BY <2>2, SendType DEF Pcs, UpdatePcs, AiPcs
  <2>3. CASE RequestFails(j, "s_request")
    BY <2>3, RequestFailsType
  <2>4. CASE Evaluated(j)
    BY <2>4 DEF Evaluated, EndCancelled, JobTypeOK, At, Goto, Return, SetStatus,
       Pcs, UpdatePcs, AiPcs, Statuses, Terminal
  <2> QED
    BY <1>8, <2>1, <2>2, <2>3, <2>4 DEF EvaluationStage
<1>9. CASE CompositionStage(j)
  <2>1. CASE CheckBatch(j, "c_check", "c_request", "c_composed")
    BY <2>1, CheckType DEF Pcs, UpdatePcs, AiPcs
  <2>2. CASE SendBatch(j, "c_request", "c_check")
    BY <2>2, SendType DEF Pcs, UpdatePcs, AiPcs
  <2>3. CASE RequestFails(j, "c_request")
    BY <2>3, RequestFailsType
  <2>4. CASE Composed(j)
    BY <2>4, ComposedType
  <2> QED
    BY <1>9, <2>1, <2>2, <2>3, <2>4 DEF CompositionStage
<1>10. CASE SRelease(j)
  BY <1>10 DEF SRelease, Combined, JobTypeOK, At, Goto, Return, SetStatus, records, Pcs,
     UpdatePcs, FeedPcs, AiPcs, Statuses, Active, Terminal
<1>11. CASE URelease(j)
  BY <1>11 DEF URelease, Report, Forget, JobTypeOK, At, Goto, Return, SetStatus, records, Pcs,
     UpdatePcs, FeedPcs, AiPcs, Statuses, Active, Terminal
<1> QED
  BY <1>1, <1>2, <1>3, <1>4, <1>5, <1>6, <1>7, <1>8, <1>9, <1>10, <1>11 DEF SummaryStep

\* So does a worker that reports, and a restore.
LEMMA EndJobType ==
    ASSUME JobTypeOK, NEW j \in Jobs, EndStep(j)
    PROVE  JobTypeOK'
<1>1. CASE Finish(j)
  BY <1>1 DEF Finish, TerminalState, JobTypeOK, At, Goto, Return, SetStatus, records, Pcs,
     UpdatePcs, FeedPcs, AiPcs, Statuses, Active, Terminal
<1>2. CASE FailOperation(j)
  BY <1>2 DEF FailOperation, JobTypeOK, At, Goto, Return, SetStatus, records, Pcs,
     UpdatePcs, FeedPcs, AiPcs, Statuses, Active, Terminal
<1>3. CASE Unreserve(j)
  BY <1>3 DEF Unreserve, Forget, JobTypeOK, At, Goto, Return, SetStatus, records, Pcs,
     UpdatePcs, FeedPcs, AiPcs, Statuses, Active, Terminal
<1>4. CASE RestoreRefused(j)
  BY <1>4 DEF RestoreRefused, JobTypeOK, At, Goto, Return, SetStatus, records, Pcs,
     UpdatePcs, FeedPcs, AiPcs, Statuses, Active, Terminal
<1>5. CASE RestoreReplaces(j)
  BY <1>5 DEF RestoreReplaces, JobTypeOK, At, Goto, Return, SetStatus, records, Pcs,
     UpdatePcs, FeedPcs, AiPcs, Statuses, Active, Terminal
<1>6. CASE RestoreEnds(j)
  BY <1>6 DEF RestoreEnds, JobTypeOK, At, Goto, Return, SetStatus, records, Pcs,
     UpdatePcs, FeedPcs, AiPcs, Statuses, Active, Terminal
<1> QED
  BY <1>1, <1>2, <1>3, <1>4, <1>5, <1>6 DEF EndStep

\* So does a new request.
LEMMA NewJobType ==
    ASSUME JobTypeOK, NEW j \in Jobs, NewStep(j)
    PROVE  JobTypeOK'
<1>1. ASSUME NEW k \in Kinds, NEW label \in {"reserved", "enter", "m_work"},
             NEW fromBrowser \in BOOLEAN, Enrol(j, k, label, fromBrowser)
      PROVE  JobTypeOK'
  BY <1>1 DEF Enrol, JobTypeOK, Goto, records, Pcs, Updates
<1>2. ASSUME NEW k \in Kinds, Reserve(j, k)
      PROVE  JobTypeOK'
  BY <1>1, <1>2 DEF Reserve
<1>3. ASSUME NEW k \in Kinds, StartUnattended(j, k)
      PROVE  JobTypeOK'
  BY <1>1, <1>3 DEF StartUnattended
<1>4. CASE StartRestore(j)
  <2>1. "restore" \in Kinds
    BY <1>4 DEF StartRestore, Enrol
  <2> QED
    BY <1>1, <1>4, <2>1 DEF StartRestore
<1>5. CASE RefuseRequest(j)
  BY <1>5 DEF RefuseRequest, JobTypeOK, locals, records
<1> QED
  BY <1>2, <1>3, <1>4, <1>5 DEF NewStep

\* So does a crash.
LEMMA DiesType ==
    ASSUME JobTypeOK, NEW S, Dies(S), serverUp' \in BOOLEAN
    PROVE  JobTypeOK'
  BY DEF Dies, Forget, JobTypeOK, records, Pcs

\* So does a recovery.
LEMMA FailRowsType ==
    ASSUME JobTypeOK, NEW rows, FailRows(rows), serverUp' \in BOOLEAN,
           UNCHANGED <<pc, locals, asked>>
    PROVE  JobTypeOK'
  BY DEF FailRows, JobTypeOK, locals, Active, Terminal, Statuses

\* So does every step.
LEMMA NextJobType ==
    ASSUME JobTypeOK, [Next]_vars
    PROVE  JobTypeOK'
<1>1. ASSUME NEW j \in Jobs, NewStep(j) \/ WorkerStep(j)
      PROVE  JobTypeOK'
  BY <1>1, NewJobType, RequestJobType, RefreshJobType, SummaryJobType, EndJobType
  DEF WorkerStep
<1>2. ASSUME NEW j \in Jobs, Heartbeat(j)
      PROVE  JobTypeOK'
  BY <1>2 DEF Heartbeat, JobTypeOK, locals, records
<1>3. ASSUME NEW j \in Jobs, CrashStandalone(j)
      PROVE  JobTypeOK'
  BY <1>3, DiesType DEF CrashStandalone, JobTypeOK
<1>4. ASSUME NEW names \in CancelRequests, RequestCancellation(names)
      PROVE  JobTypeOK'
  BY <1>4 DEF RequestCancellation, JobTypeOK, locals, records
<1>5. CASE CrashServer
  BY <1>5, DiesType DEF CrashServer
<1>6. CASE Restart
  BY <1>6, FailRowsType DEF Restart, RecoverLocally, ReconcileRows
<1>7. CASE Reconcile
  BY <1>7, FailRowsType DEF Reconcile, ReconcileRows, JobTypeOK
<1>8. CASE Tick
  BY <1>8 DEF Tick, JobTypeOK, locals, records
<1>9. CASE UNCHANGED vars
  BY <1>9 DEF vars, JobTypeOK, locals, records
<1> QED
  BY <1>1, <1>2, <1>3, <1>4, <1>5, <1>6, <1>7, <1>8, <1>9 DEF Next

-----------------------------------------------------------------------------
(***************************************************************************)
(* Every step keeps the type of the lease table, since it leaves it alone  *)
(* or changes it by one of its operations.                                 *)
(***************************************************************************)
\* Every kind of job has a lease of its own.
LEMMA OuterIsName ==
    ASSUME NEW k
    PROVE  Outer(k) \in LockNames
  BY DEF Outer, LockNames

\* Every lease is granted some time.
LEMMA TicksArePositive ==
    ASSUME NEW k
    PROVE  ReservedTicks(k) \in Nat \ {0} /\ TTL[Outer(k)] \in Nat \ {0}
  BY OuterIsName DEF ReservedTicks

\* Releases, refusals and the collection of expired rows keep the type.
LEMMA DeletionType ==
    ASSUME LockTypeOK,
           \/ \E n \in LockNames, j \in Jobs : ReleaseLock(n, j)
           \/ \E n \in LockNames, exclusive \in BOOLEAN : RefuseLock(n, exclusive)
           \/ DeleteExpired
    PROVE  LockTypeOK'
  BY KeepOnlyType DEF ReleaseLock, RefuseLock, DeleteExpired

\* A worker on its way to its first lease keeps the type of the table.
LEMMA RequestLockType ==
    ASSUME LockTypeOK, NEW j \in Jobs, RequestStep(j)
    PROVE  LockTypeOK'
<1>1. CASE UNCHANGED lockVars
  BY <1>1, SameLocksType
<1>2. CASE AcquireOwn(j)
  BY <1>2, AcquireType, DeletionType, OuterIsName, TicksArePositive DEF AcquireOwn
<1> QED
  BY <1>1, <1>2 DEF RequestStep, CreateOperation, CreateOperationFails, ThreadFails,
     StartOperation, SetPhase, EnterReserved, EnterUnreserved

\* So does a worker in run_refresh.
LEMMA RefreshLockType ==
    ASSUME LockTypeOK, NEW j \in Jobs, RefreshStep(j)
    PROVE  LockTypeOK'
<1>1. CASE UNCHANGED lockVars
  BY <1>1, SameLocksType
<1>2. CASE RAcquire(j)
  BY <1>2, AcquireType, DeletionType DEF RAcquire, LockNames
<1>3. CASE RRelease(j)
  BY <1>3, DeletionType DEF RRelease, LockNames
<1> QED
  BY <1>1, <1>2, <1>3 DEF RefreshStep, RFresh, RBegin, RFail, RFetch, RRecord, RRecheck

\* So does a worker in run_summary.
LEMMA SummaryLockType ==
    ASSUME LockTypeOK, NEW j \in Jobs, SummaryStep(j)
    PROVE  LockTypeOK'
<1>1. CASE UNCHANGED lockVars
  BY <1>1, SameLocksType
<1>2. CASE SAcquire(j)
  BY <1>2, AcquireType, DeletionType DEF SAcquire, LockNames
<1>3. CASE SRelease(j) \/ URelease(j)
  BY <1>3, DeletionType DEF SRelease, URelease, LockNames
<1> QED
  BY <1>1, <1>2, <1>3 DEF SummaryStep, UStop, SStop, SPlugin, SPlugged, SRefused,
     SBegin, EvaluationStage, CompositionStage, CheckBatch, SendBatch, RequestFails,
     Evaluated, Composed

\* So does a worker that reports, and a restore.
LEMMA EndLockType ==
    ASSUME LockTypeOK, NEW j \in Jobs, EndStep(j)
    PROVE  LockTypeOK'
<1>1. CASE UNCHANGED lockVars
  BY <1>1, SameLocksType
<1>2. CASE Unreserve(j) \/ RestoreEnds(j)
  BY <1>2, DeletionType, OuterIsName DEF Unreserve, RestoreEnds, LockNames
<1>3. CASE RestoreReplaces(j)
  BY <1>3, KeepOnlyType DEF RestoreReplaces
<1> QED
  BY <1>1, <1>2, <1>3 DEF EndStep, Finish, FailOperation, RestoreRefused

\* So does a new request.
LEMMA NewLockType ==
    ASSUME LockTypeOK, NEW j \in Jobs, NewStep(j)
    PROVE  LockTypeOK'
<1>1. ASSUME NEW k \in Kinds, Reserve(j, k)
      PROVE  LockTypeOK'
  BY <1>1, AcquireType, OuterIsName, TicksArePositive DEF Reserve
<1>2. ASSUME NEW k \in Kinds, StartUnattended(j, k)
      PROVE  LockTypeOK'
  BY <1>2, SameLocksType DEF StartUnattended
<1>3. CASE StartRestore(j)
  BY <1>3, AcquireType DEF StartRestore, LockNames
<1>4. CASE RefuseRequest(j)
  BY <1>4, DeletionType DEF RefuseRequest, LockNames
<1> QED
  BY <1>1, <1>2, <1>3, <1>4 DEF NewStep

\* So does every step.
LEMMA NextLockType ==
    ASSUME LockTypeOK, [Next]_vars
    PROVE  LockTypeOK'
<1>1. ASSUME NEW j \in Jobs, NewStep(j) \/ WorkerStep(j)
      PROVE  LockTypeOK'
  BY <1>1, NewLockType, RequestLockType, RefreshLockType, SummaryLockType, EndLockType
  DEF WorkerStep
<1>2. ASSUME NEW j \in Jobs, Heartbeat(j)
      PROVE  LockTypeOK'
  BY <1>2, RenewType DEF Heartbeat, Renewed
<1>3. CASE UNCHANGED lockVars
  BY <1>3, SameLocksType
<1>4. ASSUME NEW names \in CancelRequests, RequestCancellation(names)
      PROVE  LockTypeOK'
  BY <1>4, FlagType DEF RequestCancellation
<1>5. CASE Restart \/ Reconcile
  BY <1>5, KeepOnlyType, DeletionType DEF Restart, Reconcile, RecoverLocally, ReconcileRows
<1>6. CASE Tick
  BY <1>6, ElapseType DEF Tick
<1> QED
  BY <1>1, <1>2, <1>3, <1>4, <1>5, <1>6 DEF Next, CrashStandalone, CrashServer, Dies, vars

\* The initial state has the declared type.
LEMMA InitType == Init => TypeOK
  BY DEF Init, LockInit, TypeOK, LockTypeOK, JobTypeOK, Pcs

\* Every state of the program has the declared type.
THEOREM TypeCorrect == Spec => []TypeOK
<1>1. TypeOK /\ [Next]_vars => TypeOK'
  BY NextLockType, NextJobType DEF TypeOK
<1> QED
  BY InitType, <1>1, PTL DEF Spec

-----------------------------------------------------------------------------
(***************************************************************************)
(* A lease that ran out never comes back: of all the operations on the     *)
(* table only an acquisition makes an expired name live, and the job that  *)
(* acquires it moves on.                                                   *)
(***************************************************************************)
\* The names that are live after a step were live before it.
NoRevival == \A n \in LockNames : left'[n] > 0 => left[n] > 0

\* A deletion revives no name.
LEMMA DeletionRevivesNone ==
    ASSUME LockTypeOK, NEW Kept, KeepOnly(Kept)
    PROVE  NoRevival
  BY DEF NoRevival, KeepOnly, LockTypeOK

\* A worker revives a name only by acquiring it, and then moves on.
LEMMA StepRevival ==
    ASSUME TypeOK, NEW j \in Jobs, NewStep(j) \/ WorkerStep(j)
    PROVE  \/ NoRevival
           \/ /\ pc'[j] # pc[j]
              /\ \E n \in LockNames, ticks \in Nat \ {0}, exclusive \in BOOLEAN :
                    AcquireLock(n, j, ticks, exclusive)
<1> DEFINE Acquires == \E n \in LockNames, ticks \in Nat \ {0}, exclusive \in BOOLEAN :
                          AcquireLock(n, j, ticks, exclusive)
<1>1. CASE UNCHANGED lockVars
  BY <1>1 DEF NoRevival, lockVars
<1>2. CASE \/ \E n \in LockNames : ReleaseLock(n, j)
           \/ \E n \in LockNames, exclusive \in BOOLEAN : RefuseLock(n, exclusive)
           \/ RestoreReplaces(j)
  BY <1>2, DeletionRevivesNone DEF ReleaseLock, RefuseLock, DeleteExpired, RestoreReplaces, TypeOK
<1>3. ASSUME NEW k \in Kinds, Reserve(j, k)
      PROVE  Acquires /\ pc'[j] # pc[j]
  BY <1>3, OuterIsName, TicksArePositive DEF Reserve, Enrol, Goto, TypeOK, JobTypeOK
<1>4. CASE StartRestore(j)
  <2>1. "maintenance" \in LockNames /\ TTL["maintenance"] \in Nat \ {0}
    BY DEF LockNames
  <2> QED
    BY <1>4, <2>1 DEF StartRestore, Enrol, Goto, TypeOK, JobTypeOK
<1>5. CASE AcquireOwn(j)
  <2>1. CASE AcquireLock(Outer(kind[j]), j, TTL[Outer(kind[j])], TRUE) /\ Goto(j, FirstStep(j))
    BY <1>5, <2>1, OuterIsName, TicksArePositive
    DEF AcquireOwn, At, Goto, FirstStep, TypeOK, JobTypeOK
  <2>2. CASE RefuseLock(Outer(kind[j]), TRUE)
    BY <1>2, <2>2, OuterIsName
  <2> QED
    BY <1>5, <2>1, <2>2 DEF AcquireOwn
<1>6. CASE RAcquire(j)
  <2>1. "feed-refresh" \in LockNames /\ TTL["feed-refresh"] \in Nat \ {0}
    BY DEF LockNames
  <2>2. CASE AcquireLock("feed-refresh", j, TTL["feed-refresh"], FALSE) /\ Goto(j, "r_begin")
    BY <1>6, <2>1, <2>2 DEF RAcquire, At, Goto, TypeOK, JobTypeOK
  <2>3. CASE RefuseLock("feed-refresh", FALSE)
    BY <1>2, <2>1, <2>3
  <2> QED
    BY <1>6, <2>2, <2>3 DEF RAcquire
<1>7. CASE SAcquire(j)
  <2>1. "llm-summary" \in LockNames /\ TTL["llm-summary"] \in Nat \ {0}
    BY DEF LockNames
  <2>2. CASE AcquireLock("llm-summary", j, TTL["llm-summary"], FALSE) /\ Goto(j, "s_stop")
    BY <1>7, <2>1, <2>2 DEF SAcquire, At, Goto, TypeOK, JobTypeOK
  <2>3. CASE RefuseLock("llm-summary", FALSE)
    BY <1>2, <2>1, <2>3
  <2> QED
    BY <1>7, <2>2, <2>3 DEF SAcquire
<1>8. CASE RefuseRequest(j)
  BY <1>2, <1>8 DEF RefuseRequest, LockNames
<1>9. CASE RRelease(j) \/ SRelease(j) \/ URelease(j) \/ Unreserve(j) \/ RestoreEnds(j)
  BY <1>2, <1>9, OuterIsName
  DEF RRelease, SRelease, URelease, Unreserve, RestoreEnds, LockNames
<1>10. CASE NewStep(j)
  BY <1>1, <1>3, <1>4, <1>8, <1>10 DEF NewStep, StartUnattended
<1>11. CASE RequestStep(j)
  BY <1>1, <1>5, <1>11 DEF RequestStep, CreateOperation, CreateOperationFails, ThreadFails,
     StartOperation, SetPhase, EnterReserved, EnterUnreserved
<1>12. CASE RefreshStep(j)
  BY <1>1, <1>6, <1>9, <1>12 DEF RefreshStep, RFresh, RBegin, RFail, RFetch, RRecord, RRecheck
<1>13. CASE SummaryStep(j)
  BY <1>1, <1>7, <1>9, <1>13 DEF SummaryStep, UStop, SStop, SPlugin, SPlugged, SRefused,
     SBegin, EvaluationStage, CompositionStage, CheckBatch, SendBatch, RequestFails,
     Evaluated, Composed
<1>14. CASE EndStep(j)
  BY <1>1, <1>2, <1>9, <1>14 DEF EndStep, Finish, FailOperation, RestoreRefused
<1> QED
  BY <1>10, <1>11, <1>12, <1>13, <1>14 DEF WorkerStep

\* Every other step revives nothing.
LEMMA NextRevival ==
    ASSUME TypeOK, [Next]_vars,
           ~ \E j \in Jobs : NewStep(j) \/ WorkerStep(j)
    PROVE  NoRevival
<1>1. CASE UNCHANGED lockVars
  BY <1>1 DEF NoRevival, lockVars
<1>2. ASSUME NEW j \in Jobs, Heartbeat(j)
      PROVE  NoRevival
  BY <1>2 DEF Heartbeat, RenewLock, NoRevival, Live, TypeOK, LockTypeOK
<1>3. ASSUME NEW names \in CancelRequests, RequestCancellation(names)
      PROVE  NoRevival
  BY <1>3 DEF RequestCancellation, FlagRows, NoRevival
<1>4. CASE Restart \/ Reconcile
  BY <1>4, DeletionRevivesNone
  DEF Restart, Reconcile, RecoverLocally, ReconcileRows, DeleteExpired, TypeOK
<1>5. CASE Tick
  BY <1>5 DEF Tick, Elapse, NoRevival, Live, TypeOK, LockTypeOK
<1> QED
  BY <1>1, <1>2, <1>3, <1>4, <1>5 DEF Next, CrashStandalone, CrashServer, Dies, vars

\* A lease that ran out is never renewed, however long its owner slept.
THEOREM LapseIsFinal == Spec => LapsedStaysLapsed
<1> DEFINE Lapse == \A j \in Jobs, n \in LockNames :
                Owns(j, n) /\ left[n] = 0 /\ holder'[n] = j /\ left'[n] > 0
                    => pc'[j] # pc[j]
<1>1. ASSUME TypeOK, [Next]_vars, NEW j \in Jobs, NEW n \in LockNames,
             left[n] = 0, holder'[n] = j, left'[n] > 0
      PROVE  pc'[j] # pc[j]
  <2>1. ~NoRevival
    BY <1>1 DEF NoRevival
  <2>2. PICK i \in Jobs : NewStep(i) \/ WorkerStep(i)
    BY <1>1, <2>1, NextRevival
  <2>3. PICK m \in LockNames, ticks \in Nat \ {0}, exclusive \in BOOLEAN :
            AcquireLock(m, i, ticks, exclusive) /\ pc'[i] # pc[i]
    BY <1>1, <2>1, <2>2, StepRevival
  <2>4. m = n /\ i = j
    BY <1>1, <2>3 DEF AcquireLock, TypeOK, LockTypeOK
  <2> QED
    BY <2>3, <2>4
<1>2. TypeOK /\ [Next]_vars => [Lapse]_vars
  BY <1>1
<1> QED
  BY <1>2, TypeCorrect, PTL DEF Spec, LapsedStaysLapsed

-----------------------------------------------------------------------------
(***************************************************************************)
(* A closed operation record keeps its answer.  A record is written only   *)
(* from an open state, by its worker or by a recovery; the one exception,  *)
(* the insertion, meets no record of its job.                              *)
(***************************************************************************)
\* A job that has not yet inserted its record has none.
Unrecorded == \A j \in Jobs : pc[j] \in {"new", "reserved"} => op[j] = "none"

\* What a step may do to the records of a set of jobs.
ClosedKept == \A j \in Jobs : op[j] \in Terminal => op'[j] \in {op[j], "none"}

\* The steps that leave the records alone, and move no job back.
LEMMA SameRecords ==
    ASSUME Unrecorded, UNCHANGED op,
           \A j \in Jobs : pc'[j] \in {"new", "reserved"} => pc[j] \in {"new", "reserved"}
    PROVE  Unrecorded' /\ ClosedKept
  BY DEF Unrecorded, ClosedKept

\* A recovery writes to open records only.
LEMMA RecoveryRecords ==
    ASSUME JobTypeOK, Unrecorded, NEW rows, FailRows(rows), UNCHANGED pc,
           \A j \in Jobs : <<"op", j>> \in rows => op[j] \in Active
    PROVE  Unrecorded' /\ ClosedKept
  BY DEF FailRows, Unrecorded, ClosedKept, JobTypeOK, Active, Terminal

\* Every step of a worker keeps the closed records.
LEMMA WorkerRecords ==
    ASSUME JobTypeOK, Unrecorded, NEW j \in Jobs, NewStep(j) \/ WorkerStep(j)
    PROVE  Unrecorded' /\ ClosedKept
<1> USE DEF JobTypeOK, At, Goto, records
<1>1. CASE NewStep(j)
  <2>1. ASSUME NEW k \in Kinds, NEW label \in {"reserved", "enter", "m_work"},
               NEW fromBrowser, Enrol(j, k, label, fromBrowser)
        PROVE  Unrecorded' /\ ClosedKept
    BY <2>1, SameRecords DEF Enrol
  <2>2. ASSUME NEW k \in Kinds, Reserve(j, k) \/ StartUnattended(j, k)
        PROVE  Unrecorded' /\ ClosedKept
    BY <2>1, <2>2 DEF Reserve, StartUnattended
  <2>3. CASE StartRestore(j)
    <3>1. "restore" \in Kinds
      BY <2>3 DEF StartRestore, Enrol
    <3> QED
      BY <2>1, <2>3, <3>1 DEF StartRestore
  <2>4. CASE RefuseRequest(j)
    BY <2>4, SameRecords DEF RefuseRequest
  <2> QED
    BY <1>1, <2>2, <2>3, <2>4 DEF NewStep
<1>2. CASE RequestStep(j)
  <2>1. CASE CreateOperation(j)
    BY <2>1 DEF CreateOperation, Unrecorded, ClosedKept, Active, Terminal
  <2>2. CASE StartOperation(j)
    BY <2>2 DEF StartOperation, Unrecorded, ClosedKept, Terminal
  <2>3. CASE AcquireOwn(j)
    <3>1. PICK label : label \in {"r_begin", "r_acquire", "done"} /\ Goto(j, label)
      BY <2>3 DEF AcquireOwn, FirstStep
    <3> QED
      BY <2>3, <3>1, SameRecords DEF AcquireOwn
  <2>4. CASE CreateOperationFails(j) \/ ThreadFails(j) \/ SetPhase(j)
    BY <2>4, SameRecords DEF CreateOperationFails, ThreadFails, SetPhase
  <2>5. CASE EnterReserved(j) \/ EnterUnreserved(j)
    BY <2>5, SameRecords DEF EnterReserved, EnterUnreserved, FirstStep
  <2> QED
    BY <1>2, <2>1, <2>2, <2>3, <2>4, <2>5 DEF RequestStep
<1>3. CASE RefreshStep(j)
  <2>1. CASE RAcquire(j)
    <3>1. PICK label \in {"r_begin", "u_release"} : Goto(j, label)
      BY <2>1 DEF RAcquire
    <3> QED
      BY <2>1, <3>1, SameRecords DEF RAcquire
  <2>2. CASE RFresh(j)
    BY <2>2, SameRecords DEF RFresh
  <2>3. CASE RBegin(j)
    BY <2>3, SameRecords DEF RBegin
  <2>4. CASE RFail(j)
    BY <2>4, SameRecords DEF RFail
  <2>5. CASE RFetch(j)
    BY <2>5, SameRecords DEF RFetch
  <2>6. CASE RRecord(j)
    BY <2>6, SameRecords DEF RRecord
  <2>7. CASE RRecheck(j)
    BY <2>7, SameRecords DEF RRecheck
  <2>8. CASE RRelease(j)
    <3>1. PICK label \in {"finish", "failing", "done", "u_release", "u_stop"} : Goto(j, label)
      BY <2>8 DEF RRelease, Report, ReturnToUpdate
    <3> QED
      BY <2>8, <3>1, SameRecords DEF RRelease
  <2> QED
    BY <1>3, <2>1, <2>2, <2>3, <2>4, <2>5, <2>6, <2>7, <2>8 DEF RefreshStep
<1>4. CASE SummaryStep(j)
  <2>1. CASE UStop(j)
    BY <2>1, SameRecords DEF UStop
  <2>2. CASE SAcquire(j)
    <3>1. PICK label \in {"s_stop", "u_release"} : Goto(j, label)
      BY <2>2 DEF SAcquire
    <3> QED
      BY <2>2, <3>1, SameRecords DEF SAcquire
  <2>3. CASE SStop(j)
    BY <2>3, SameRecords DEF SStop
  <2>4. CASE SPlugin(j)
    BY <2>4, SameRecords DEF SPlugin
  <2>5. CASE SPlugged(j)
    BY <2>5, SameRecords DEF SPlugged
  <2>6. CASE SRefused(j)
    BY <2>6, SameRecords DEF SRefused
  <2>7. CASE SBegin(j)
    BY <2>7, SameRecords DEF SBegin
  <2>8. CASE EvaluationStage(j)
    BY <2>8, SameRecords DEF EvaluationStage, CheckBatch, SendBatch, RequestFails, Evaluated, EndCancelled
  <2>9. CASE CompositionStage(j)
    BY <2>9, SameRecords DEF CompositionStage, CheckBatch, SendBatch, RequestFails, Composed, EndCancelled
  <2>10. CASE SRelease(j)
    BY <2>10, SameRecords DEF SRelease
  <2>11. CASE URelease(j)
    <3>1. PICK label \in {"finish", "failing", "done"} : Goto(j, label)
      BY <2>11 DEF URelease, Report
    <3> QED
      BY <2>11, <3>1, SameRecords DEF URelease
  <2> QED
    BY <1>4, <2>1, <2>2, <2>3, <2>4, <2>5, <2>6, <2>7, <2>8, <2>9, <2>10, <2>11 DEF SummaryStep
<1>5. CASE EndStep(j)
  <2>1. CASE Finish(j)
    BY <2>1 DEF Finish, Unrecorded, ClosedKept, Terminal
  <2>2. CASE FailOperation(j)
    BY <2>2 DEF FailOperation, Unrecorded, ClosedKept, Active, Terminal
  <2>3. CASE RestoreReplaces(j)
    BY <2>3 DEF RestoreReplaces, Unrecorded, ClosedKept
  <2>4. CASE Unreserve(j) \/ RestoreRefused(j) \/ RestoreEnds(j)
    BY <2>4, SameRecords DEF Unreserve, RestoreRefused, RestoreEnds
  <2> QED
    BY <1>5, <2>1, <2>2, <2>3, <2>4 DEF EndStep
<1> QED
  BY <1>1, <1>2, <1>3, <1>4, <1>5 DEF WorkerStep

\* Every step keeps the closed records.
LEMMA NextRecords ==
    ASSUME JobTypeOK, Unrecorded, [Next]_vars
    PROVE  Unrecorded' /\ ClosedKept
<1>1. ASSUME NEW j \in Jobs, NewStep(j) \/ WorkerStep(j)
      PROVE  Unrecorded' /\ ClosedKept
  BY <1>1, WorkerRecords
<1>2. ASSUME NEW j \in Jobs, Heartbeat(j) \/ CrashStandalone(j)
      PROVE  Unrecorded' /\ ClosedKept
  BY <1>2, SameRecords DEF Heartbeat, CrashStandalone, Dies, records, JobTypeOK
<1>3. ASSUME NEW names \in CancelRequests, RequestCancellation(names)
      PROVE  Unrecorded' /\ ClosedKept
  BY <1>3, SameRecords DEF RequestCancellation, records
<1>4. CASE CrashServer
  BY <1>4, SameRecords DEF CrashServer, Dies, records, JobTypeOK
<1>5. \A j \in Jobs : <<"op", j>> \in Orphans => op[j] \in Active
  BY DEF Orphans, OrphanOp
<1>6. \A j \in Jobs : <<"op", j>> \in OpenRows => op[j] \in Active
  BY DEF OpenRows
<1>7. CASE Restart \/ Reconcile
  BY <1>5, <1>6, <1>7, RecoveryRecords DEF Restart, Reconcile, RecoverLocally, ReconcileRows
<1>8. CASE Tick \/ UNCHANGED vars
  BY <1>8, SameRecords DEF Tick, records, vars
<1> QED
  BY <1>1, <1>2, <1>3, <1>4, <1>7, <1>8 DEF Next

\* No worker that wakes up late, and no recovery, writes over a closed record.
THEOREM AnswersAreFinal == Spec => ClosedStaysClosed
<1>1. Init => Unrecorded
  BY DEF Init, Unrecorded
<1>2. TypeOK /\ Unrecorded /\ [Next]_vars => Unrecorded' /\ ClosedKept
  BY NextRecords DEF TypeOK
<1>3. TypeOK /\ Unrecorded /\ [Next]_vars => [ClosedKept]_vars
  BY <1>2
<1> QED
  BY <1>1, <1>2, <1>3, TypeCorrect, PTL DEF Spec, ClosedStaysClosed, ClosedKept
-----------------------------------------------------------------------------
(***************************************************************************)
(* What a job answers, and what it leaves behind.  Books relates the       *)
(* position of a job to its three records and to the statuses its worker   *)
(* carries; it holds on every host and for any launcher.                   *)
(***************************************************************************)
\* Before the first row of refresh_runs; while the row of ai_jobs is open; the
\* positions that a feed check of its own does not reach.
EarlyPcs == {"new", "reserved", "starting", "phase", "enter", "acquire", "r_acquire", "r_begin"}
EvaluationPcs == {"s_check", "s_request", "s_evaluated", "c_check", "c_request", "c_composed"}
UpdateOnlyPcs == (UpdatePcs \cup {"u_release"}) \ SharedPcs

\* KindFits, with the positions that tell a browser job from another.
Placed(j) ==
    /\ pc[j] \in UpdateOnlyPcs => kind[j] \in {"summary", "arxiv"}
    /\ pc[j] \in {"m_work", "m_release"} => kind[j] = "restore"
    /\ pc[j] \in SharedPcs \cup ReservedPcs \cup {"acquire"} => kind[j] \in Updates
    /\ pc[j] \in {"new", "acquire", "m_work", "m_release"} => ~reserved[j]
    /\ pc[j] \in {"reserved", "starting", "phase", "finish", "failing", "unreserve"} => reserved[j]

\* Which records are open, and where.
Recorded(j) ==
    /\ op[j] # "none" => reserved[j] /\ pc[j] \notin {"new", "reserved"}
    /\ op[j] \in Active => pc[j] \notin {"unreserve", "done"}
    /\ op[j] \in Terminal \ {"failed"} => pc[j] \in {"unreserve", "done", "dead"}
    /\ pc[j] \in EarlyPcs => run[j] = "none"
    /\ run[j] = "running" => pc[j] \in {"r_fetch", "r_record", "dead"}
    /\ run[j] = "none" /\ op[j] \in Active => pc[j] \notin {"r_fetch", "r_record"}
    /\ aiJob[j] = "running" => pc[j] \in EvaluationPcs \cup {"dead"}
    /\ run[j] \in {"none", "running", "success", "partial", "cancelled", "failed"}
    /\ pc[j] = "r_record" => result[j] \in {"success", "partial", "cancelled"}
    /\ pc[j] = "r_recheck" => result[j] \in {"success", "partial"}

\* RunAgrees, and the statuses on the way there.
CheckReports(j) ==
    kind[j] = "refresh" =>
        /\ op[j] \in Active /\ pc[j] \in {"r_recheck", "r_release", "finish"} =>
            \/ run[j] = result[j]
            \/ /\ pc[j] # "r_recheck"
               /\ result[j] \in {"error", "running"} \/ (run[j] = "none" /\ result[j] = "fresh")
        /\ op[j] \in {"success", "partial", "cancelled"} =>
            run[j] = op[j] \/ (run[j] = "none" /\ op[j] = "success")

\* FailedFeedsShow, and the statuses on the way there.
FailuresReach(j) ==
    kind[j] = "summary" /\ run[j] = "partial" =>
        /\ pc[j] \in {"r_recheck", "r_release", "u_stop"} => result[j] = "partial"
        /\ pc[j] \in AiPcs \cup {"s_acquire", "s_release"} => checked[j] = "partial"
        /\ pc[j] = "s_release" => result[j] \notin {"fresh", "unchanged"}
        /\ pc[j] \in {"u_release", "finish"} => result[j] \notin {"success", "fresh", "unchanged"}
        /\ op[j] # "success"

Books(j) == Placed(j) /\ Recorded(j) /\ CheckReports(j) /\ FailuresReach(j)

\* A job that does not step keeps its books, also when a recovery fails its
\* open records or a restore removes them all.
LEMMA KeptBooks ==
    ASSUME NEW i \in Jobs, Books(i),
           pc'[i] = pc[i], kind'[i] = kind[i], reserved'[i] = reserved[i],
           result'[i] = result[i], checked'[i] = checked[i],
           op'[i] \in {op[i], "none"} \/ (op[i] \in Active /\ op'[i] = "failed"),
           run'[i] \in {run[i], "none"} \/ (run[i] = "running" /\ run'[i] = "failed"),
           aiJob'[i] \in {aiJob[i], "none"} \/ (aiJob[i] = "running" /\ aiJob'[i] = "failed"),
           run'[i] = "none" => run[i] = "none" \/ op'[i] = "none"
    PROVE  Books(i)'
<1>1. op'[i] \in Active => op'[i] = op[i]
  BY DEF Active
<1>2. op'[i] \in Terminal \ {"failed"} => op'[i] = op[i]
  BY DEF Terminal
<1>3. Placed(i)'
  BY DEF Books, Placed
<1>4. Recorded(i)'
  <2>1. op'[i] # "none" => op[i] # "none"
    BY DEF Active
  <2>2. (run[i] = "none" /\ op[i] \in Active)' => run[i] = "none" /\ op[i] \in Active
    BY <1>1 DEF Active
  <2> QED
    BY <1>1, <1>2, <2>1, <2>2 DEF Books, Recorded
<1>5. CheckReports(i)'
  BY <1>1, <1>2 DEF Books, CheckReports, Recorded, Active, Terminal
<1>6. FailuresReach(i)'
  BY <1>2 DEF Books, FailuresReach, Active, Terminal
<1> QED
  BY <1>3, <1>4, <1>5, <1>6 DEF Books

\* A job that does not step: its records are as they were, or all gone.
Aside(i) ==
    /\ pc'[i] = pc[i] /\ kind'[i] = kind[i] /\ reserved'[i] = reserved[i]
    /\ result'[i] = result[i] /\ checked'[i] = checked[i]
    /\ \/ op'[i] = op[i] /\ run'[i] = run[i] /\ aiJob'[i] = aiJob[i]
       \/ op'[i] = "none" /\ run'[i] = "none" /\ aiJob'[i] = "none"

\* A step of one job touches the records of another only by restoring a backup.
LEMMA OthersStandAside ==
    ASSUME JobTypeOK, NEW j \in Jobs, NewStep(j) \/ WorkerStep(j), NEW i \in Jobs, i # j
    PROVE  Aside(i)
<1> USE DEF Aside, JobTypeOK, At, Goto, Return, Forget, SetStatus, records
<1>2. CASE NewStep(j)
  <2>1. ASSUME NEW k, NEW label, NEW fromBrowser, Enrol(j, k, label, fromBrowser)
        PROVE  Aside(i)
    BY <2>1 DEF Enrol
  <2>2. CASE RefuseRequest(j)
    BY <2>2 DEF RefuseRequest, locals
  <2> HIDE DEF Aside, JobTypeOK
  <2> QED
    BY <1>2, <2>1, <2>2 DEF NewStep, Reserve, StartUnattended, StartRestore
<1>3. CASE RequestStep(j)
  <2>1. CASE CreateOperation(j)
    BY <2>1 DEF CreateOperation
  <2>2. CASE CreateOperationFails(j) \/ ThreadFails(j)
    BY <2>2 DEF CreateOperationFails, ThreadFails
  <2>3. CASE StartOperation(j)
    BY <2>3 DEF StartOperation
  <2>4. CASE SetPhase(j)
    BY <2>4 DEF SetPhase
  <2>5. CASE EnterReserved(j) \/ EnterUnreserved(j)
    BY <2>5 DEF EnterReserved, EnterUnreserved
  <2>6. CASE AcquireOwn(j)
    BY <2>6 DEF AcquireOwn
  <2> QED
    BY <1>3, <2>1, <2>2, <2>3, <2>4, <2>5, <2>6 DEF RequestStep
<1>4. CASE RefreshStep(j)
  <2>1. CASE RAcquire(j)
    <3>1. PICK label : Goto(j, label)
      BY <2>1 DEF RAcquire
    <3>2. result'[i] = result[i]
      BY <2>1 DEF RAcquire
    <3> QED
      BY <2>1, <3>1, <3>2 DEF RAcquire
  <2>2. CASE RFresh(j) \/ RBegin(j) \/ RFail(j)
    BY <2>2 DEF RFresh, RBegin, RFail
  <2>3. CASE RFetch(j)
    BY <2>3 DEF RFetch
  <2>4. CASE RRecord(j)
    BY <2>4 DEF RRecord
  <2>5. CASE RRecheck(j)
    BY <2>5 DEF RRecheck
  <2>6. CASE RRelease(j)
    BY <2>6 DEF RRelease, Report, ReturnToUpdate
  <2> QED
    BY <1>4, <2>1, <2>2, <2>3, <2>4, <2>5, <2>6 DEF RefreshStep
<1>5. CASE SummaryStep(j)
  <2>1. CASE UStop(j) \/ SStop(j) \/ SPlugin(j)
    BY <2>1 DEF UStop, SStop, SPlugin
  <2>5. CASE SAcquire(j)
    <3>1. PICK label : Goto(j, label)
      BY <2>5 DEF SAcquire
    <3>2. result'[i] = result[i]
      BY <2>5 DEF SAcquire
    <3> QED
      BY <2>5, <3>1, <3>2 DEF SAcquire
  <2>6. CASE SPlugged(j)
    BY <2>6 DEF SPlugged
  <2>2. CASE SRefused(j) \/ SBegin(j) \/ SRelease(j) \/ URelease(j)
    BY <2>2 DEF SRefused, SBegin, SRelease, URelease, Report
  <2>3. CASE EvaluationStage(j)
    BY <2>3 DEF EvaluationStage, CheckBatch, SendBatch, RequestFails, Evaluated, EndCancelled
  <2>4. CASE CompositionStage(j)
    BY <2>4 DEF CompositionStage, CheckBatch, SendBatch, RequestFails, Composed, EndCancelled
  <2> QED
    BY <1>5, <2>1, <2>2, <2>3, <2>4, <2>5, <2>6 DEF SummaryStep
<1>6. CASE EndStep(j)
  BY <1>6 DEF EndStep, Finish, FailOperation, Unreserve, RestoreRefused, RestoreReplaces, RestoreEnds
<1> HIDE DEF Aside, JobTypeOK
<1> QED
  BY <1>2, <1>3, <1>4, <1>5, <1>6 DEF WorkerStep

\* Nor does a job spoil its own books on its way to its first lease.
LEMMA RequestBooks ==
    ASSUME JobTypeOK, NEW j \in Jobs, RequestStep(j), Books(j)
    PROVE  Books(j)'
<1> USE DEF Books, Placed, Recorded, CheckReports, FailuresReach, JobTypeOK, Updates,
      Pcs, UpdatePcs, UpdateOnlyPcs, SharedPcs, ReservedPcs, FeedPcs, AiPcs, EarlyPcs, EvaluationPcs,
      At, Goto, Return, Forget, SetStatus, records, Active, Terminal
<1>1. CASE CreateOperation(j)
  BY <1>1 DEF CreateOperation
<1>2. CASE CreateOperationFails(j)
  BY <1>2 DEF CreateOperationFails
<1>3. CASE ThreadFails(j)
  BY <1>3 DEF ThreadFails
<1>4. CASE StartOperation(j)
  BY <1>4 DEF StartOperation
<1>5. CASE SetPhase(j)
  BY <1>5 DEF SetPhase
<1>6. CASE EnterReserved(j)
  BY <1>6 DEF EnterReserved, FirstStep
<1>7. CASE EnterUnreserved(j)
  BY <1>7 DEF EnterUnreserved
<1>8. CASE AcquireOwn(j)
  <2>1. PICK label \in {FirstStep(j), "done"} : Goto(j, label)
    BY <1>8 DEF AcquireOwn
  <2> QED
    BY <1>8, <2>1 DEF AcquireOwn, FirstStep
<1> HIDE DEF Books, JobTypeOK
<1> QED
  BY <1>1, <1>2, <1>3, <1>4, <1>5, <1>6, <1>7, <1>8 DEF RequestStep

\* In run_refresh.
LEMMA RefreshBooks ==
    ASSUME JobTypeOK, NEW j \in Jobs, RefreshStep(j), Books(j)
    PROVE  Books(j)'
<1> USE DEF Books, Placed, Recorded, CheckReports, FailuresReach, JobTypeOK, Updates,
      Pcs, UpdatePcs, UpdateOnlyPcs, SharedPcs, ReservedPcs, FeedPcs, AiPcs, EarlyPcs, EvaluationPcs,
      At, Goto, Return, Forget, SetStatus, records, Active, Terminal
<1>1. CASE RAcquire(j)
  <2>1. \/ Goto(j, "r_begin") /\ UNCHANGED result
        \/ Goto(j, "u_release") /\ Return(j, "running")
    BY <1>1 DEF RAcquire
  <2> QED
    BY <1>1, <2>1 DEF RAcquire
<1>2. CASE RFresh(j)
  BY <1>2 DEF RFresh
<1>3. CASE RBegin(j)
  BY <1>3 DEF RBegin
<1>4. CASE RFail(j)
  BY <1>4 DEF RFail
<1>5. CASE RFetch(j)
  BY <1>5 DEF RFetch
<1>6. CASE RRecord(j)
  BY <1>6 DEF RRecord
<1>7. CASE RRecheck(j)
  <2>1. Placed(j)'
    BY <1>7 DEF RRecheck
  <2>2. Recorded(j)'
    BY <1>7 DEF RRecheck
  <2>3. CheckReports(j)'
    BY <1>7 DEF RRecheck
  <2>4. FailuresReach(j)'
    BY <1>7 DEF RRecheck
  <2> QED
    BY <2>1, <2>2, <2>3, <2>4 DEF Books
<1>8. CASE RRelease(j)
  BY <1>8 DEF RRelease, Report, ReturnToUpdate
<1> HIDE DEF Books, JobTypeOK
<1> QED
  BY <1>1, <1>2, <1>3, <1>4, <1>5, <1>6, <1>7, <1>8 DEF RefreshStep

\* In run_summary.
LEMMA SummaryBooks ==
    ASSUME JobTypeOK, NEW j \in Jobs, SummaryStep(j), Books(j)
    PROVE  Books(j)'
<1> USE DEF Books, Placed, Recorded, CheckReports, FailuresReach, JobTypeOK, Updates,
      Pcs, UpdatePcs, UpdateOnlyPcs, SharedPcs, ReservedPcs, FeedPcs, AiPcs, EarlyPcs, EvaluationPcs,
      At, Goto, Return, Forget, SetStatus, records, Active, Terminal
<1>1. CASE UStop(j)
  BY <1>1 DEF UStop
<1>2. CASE SAcquire(j)
  <2>1. \/ Goto(j, "s_stop") /\ UNCHANGED result
        \/ Goto(j, "u_release") /\ Return(j, "running")
    BY <1>2 DEF SAcquire
  <2> QED
    BY <1>2, <2>1 DEF SAcquire
<1>3. CASE SStop(j)
  BY <1>3 DEF SStop
<1>4. CASE SPlugin(j)
  BY <1>4 DEF SPlugin
<1>5. CASE SPlugged(j)
  BY <1>5 DEF SPlugged, WithOrdinary
<1>6. CASE SRefused(j)
  BY <1>6 DEF SRefused
<1>7. CASE SBegin(j)
  BY <1>7 DEF SBegin
<1>8. CASE EvaluationStage(j)
  BY <1>8 DEF EvaluationStage, CheckBatch, SendBatch, RequestFails, Evaluated, EndCancelled
<1>9. CASE CompositionStage(j)
  BY <1>9 DEF CompositionStage, CheckBatch, SendBatch, RequestFails, Composed, EndCancelled
<1>10. CASE SRelease(j)
  BY <1>10 DEF SRelease, Combined
<1>11. CASE URelease(j)
  BY <1>11 DEF URelease, Report
<1> HIDE DEF Books, JobTypeOK
<1> QED
  BY <1>1, <1>2, <1>3, <1>4, <1>5, <1>6, <1>7, <1>8, <1>9, <1>10, <1>11 DEF SummaryStep

\* At the end.
LEMMA EndBooks ==
    ASSUME JobTypeOK, NEW j \in Jobs, EndStep(j), Books(j)
    PROVE  Books(j)'
<1> USE DEF Books, Placed, Recorded, CheckReports, FailuresReach, JobTypeOK, Updates,
      Pcs, UpdatePcs, UpdateOnlyPcs, SharedPcs, ReservedPcs, FeedPcs, AiPcs, EarlyPcs, EvaluationPcs,
      At, Goto, Return, Forget, SetStatus, records, Active, Terminal
<1>1. CASE Finish(j)
  <2>1. Placed(j)'
    BY <1>1 DEF Finish, TerminalState
  <2>2. Recorded(j)'
    BY <1>1 DEF Finish, TerminalState
  <2>3. CheckReports(j)'
    BY <1>1 DEF Finish, TerminalState
  <2>4. FailuresReach(j)'
    BY <1>1 DEF Finish, TerminalState
  <2> QED
    BY <2>1, <2>2, <2>3, <2>4 DEF Books
<1>2. CASE FailOperation(j)
  BY <1>2 DEF FailOperation
<1>3. CASE Unreserve(j)
  BY <1>3 DEF Unreserve
<1>4. CASE RestoreRefused(j)
  BY <1>4 DEF RestoreRefused
<1>5. CASE RestoreReplaces(j)
  BY <1>5 DEF RestoreReplaces
<1>6. CASE RestoreEnds(j)
  BY <1>6 DEF RestoreEnds
<1> HIDE DEF Books, JobTypeOK
<1> QED
  BY <1>1, <1>2, <1>3, <1>4, <1>5, <1>6 DEF EndStep

\* A request opens no books.
LEMMA NewBooks ==
    ASSUME JobTypeOK, NEW j \in Jobs, NewStep(j), Books(j)
    PROVE  Books(j)'
<1>1. CASE RefuseRequest(j)
  BY <1>1, KeptBooks DEF RefuseRequest, locals, records
<1>2. ASSUME NEW k \in Kinds, NEW label \in {"reserved", "enter", "m_work"},
             NEW fromBrowser \in BOOLEAN, Enrol(j, k, label, fromBrowser),
             label = "reserved" => fromBrowser /\ k \in Updates,
             label = "enter" => k \in Updates,
             label = "m_work" => ~fromBrowser /\ k = "restore"
      PROVE  Books(j)'
  BY <1>2 DEF Books, Placed, Recorded, CheckReports, FailuresReach, JobTypeOK, Enrol, Goto,
     records, UpdateOnlyPcs, UpdatePcs, SharedPcs, ReservedPcs, FeedPcs, AiPcs, EarlyPcs,
     EvaluationPcs, Active, Terminal
<1>3. ASSUME NEW k \in Kinds, Reserve(j, k)
      PROVE  Books(j)'
  BY <1>2, <1>3 DEF Reserve
<1>4. ASSUME NEW k \in Kinds, StartUnattended(j, k)
      PROVE  Books(j)'
  BY <1>2, <1>4 DEF StartUnattended, Updates
<1>5. CASE StartRestore(j)
  <2>1. "restore" \in Kinds
    BY <1>5 DEF StartRestore, Enrol
  <2> QED
    BY <1>2, <1>5, <2>1 DEF StartRestore
<1> QED
  BY <1>1, <1>3, <1>4, <1>5 DEF NewStep

\* A crash leaves the books of the dead as they are.
LEMMA DeathBooks ==
    ASSUME JobTypeOK, NEW S, Dies(S), NEW i \in Jobs, Books(i)
    PROVE  Books(i)'
<1>1. CASE i \in S
  BY <1>1 DEF Dies, Forget, records, Books, Placed, Recorded, CheckReports, FailuresReach,
     JobTypeOK, UpdateOnlyPcs, UpdatePcs, SharedPcs, ReservedPcs, FeedPcs, AiPcs, EarlyPcs
<1>2. CASE i \notin S
  BY <1>2, KeptBooks DEF Dies, Forget, records, JobTypeOK
<1> QED
  BY <1>1, <1>2

\* A recovery fails open records only.
LEMMA RecoveryBooks ==
    ASSUME JobTypeOK, NEW rows, FailRows(rows), rows \subseteq OpenRows,
           UNCHANGED <<pc, locals>>, NEW i \in Jobs, Books(i)
    PROVE  Books(i)'
<1>1. op'[i] \in {op[i], "none"} \/ (op[i] \in Active /\ op'[i] = "failed")
  BY DEF FailRows, OpenRows
<1>2. run'[i] \in {run[i], "none"} \/ (run[i] = "running" /\ run'[i] = "failed")
  BY DEF FailRows, OpenRows
<1>3. aiJob'[i] \in {aiJob[i], "none"} \/ (aiJob[i] = "running" /\ aiJob'[i] = "failed")
  BY DEF FailRows, OpenRows
<1>4. run'[i] = "none" => run[i] = "none"
  BY DEF FailRows
<1> QED
  BY <1>1, <1>2, <1>3, <1>4, KeptBooks DEF locals

\* The recovery closes open records only.
LEMMA OrphansAreOpen == Orphans \subseteq OpenRows
  BY DEF Orphans, OrphanOp, OpenRows

\* Every step keeps the books of every job.
LEMMA NextBooks ==
    ASSUME JobTypeOK, [Next]_vars, \A i \in Jobs : Books(i)
    PROVE  (\A i \in Jobs : Books(i))'
<1>1. SUFFICES ASSUME NEW i \in Jobs
               PROVE  Books(i)'
  OBVIOUS
<1>2. Books(i)
  OBVIOUS
<1>3. ASSUME NEW j \in Jobs, NewStep(j) \/ WorkerStep(j)
      PROVE  Books(i)'
  <2>1. CASE i = j
    BY <1>2, <1>3, <2>1, NewBooks, RequestBooks, RefreshBooks, SummaryBooks, EndBooks DEF WorkerStep
  <2> QED
    BY <1>2, <1>3, <2>1, OthersStandAside, KeptBooks DEF Aside
<1>4. ASSUME UNCHANGED <<pc, locals, records>>
      PROVE  Books(i)'
  BY <1>2, <1>4, KeptBooks DEF locals, records
<1>5. ASSUME NEW S, Dies(S)
      PROVE  Books(i)'
  BY <1>2, <1>5, DeathBooks
<1>6. CASE Restart \/ Reconcile
  <2>1. PICK rows : FailRows(rows) /\ rows \subseteq OpenRows /\ UNCHANGED <<pc, locals>>
    BY <1>6, OrphansAreOpen DEF Restart, Reconcile, RecoverLocally, ReconcileRows
  <2> QED
    BY <1>2, <2>1, RecoveryBooks
<1> QED
  BY <1>3, <1>4, <1>5, <1>6
  DEF Next, Heartbeat, CrashStandalone, RequestCancellation, CrashServer, Tick, vars

\* The books of every job are in order.
LEMMA BooksInvariant == Spec => [](\A i \in Jobs : Books(i))
<1>1. Init => \A i \in Jobs : Books(i)
  BY DEF Init, Books, Placed, Recorded, CheckReports, FailuresReach, UpdateOnlyPcs, UpdatePcs,
     SharedPcs, ReservedPcs, FeedPcs, AiPcs, Active, Terminal
<1>2. TypeOK /\ (\A i \in Jobs : Books(i)) /\ [Next]_vars => (\A i \in Jobs : Books(i))'
  BY NextBooks DEF TypeOK
<1> QED
  BY <1>1, <1>2, TypeCorrect, PTL DEF Spec

\* The record of a feed check and its row in refresh_runs agree.
THEOREM ChecksReportTheirRun == Spec => []RunAgrees
<1>1. (\A i \in Jobs : Books(i)) => RunAgrees
  BY DEF Books, CheckReports, RunAgrees
<1> QED
  BY <1>1, BooksInvariant, PTL

\* An update of ordinary summaries that reports success had no failed feed.
THEOREM FailuresAreShown == Spec => []FailedFeedsShow
<1>1. (\A i \in Jobs : Books(i)) => FailedFeedsShow
  BY DEF Books, FailuresReach, FailedFeedsShow
<1> QED
  BY <1>1, BooksInvariant, PTL

\* What an operation answers is what the row of its feed check recorded.
THEOREM AnswersAgreeWithFeeds == Spec => []AnswersShowFeeds
<1>1. RunAgrees /\ FailedFeedsShow => AnswersShowFeeds
  BY DEF AnswersShowFeeds
<1> QED
  BY <1>1, ChecksReportTheirRun, FailuresAreShown, PTL

-----------------------------------------------------------------------------
(***************************************************************************)
(* A stop reaches only those it was meant for: a flag that is up belongs   *)
(* to a job that was asked, since every new row and every deleted one has  *)
(* its flag down.                                                          *)
(***************************************************************************)
StopWasAsked == \A j \in Jobs, n \in LockNames : CancellationRequested(n, j) => asked[j]

Deletes == \E Kept \in SUBSET LockNames : KeepOnly(Kept)

Acquires(j) == \E n \in LockNames : \E ticks, exclusive : AcquireLock(n, j, ticks, exclusive)

\* What a step of a job may do to the table of leases.
LEMMA WorkerLocks ==
    ASSUME NEW j \in Jobs, NewStep(j) \/ WorkerStep(j)
    PROVE  UNCHANGED <<holder, stop>> \/ Deletes \/ Acquires(j)
<1>1. DeleteExpired => Deletes
  BY DEF DeleteExpired, LiveNames, Deletes
<1>2. ASSUME NEW n, NEW exclusive, RefuseLock(n, exclusive)
      PROVE  Deletes
  BY <1>1, <1>2 DEF RefuseLock
<1>3. ASSUME NEW n, ReleaseLock(n, j)
      PROVE  Deletes
  BY <1>3 DEF ReleaseLock, Deletes
<1>4. RestoreReplaces(j) => Deletes
  BY DEF RestoreReplaces, LockNames, Deletes
<1>5. {"feed-refresh", "llm-summary", "maintenance"} \subseteq LockNames
  BY DEF LockNames
<1>6. ASSUME NEW n \in LockNames, NEW ticks, NEW exclusive, AcquireLock(n, j, ticks, exclusive)
      PROVE  Acquires(j)
  BY <1>6 DEF Acquires
<1>7. CASE NewStep(j)
  BY <1>2, <1>5, <1>6, <1>7, OuterIsName
  DEF NewStep, Reserve, StartUnattended, StartRestore, RefuseRequest, lockVars
<1>8. CASE RequestStep(j)
  BY <1>2, <1>6, <1>8, OuterIsName DEF RequestStep, CreateOperation, CreateOperationFails,
     ThreadFails, StartOperation, SetPhase, EnterReserved, EnterUnreserved, AcquireOwn, lockVars
<1>9. CASE RefreshStep(j)
  BY <1>2, <1>3, <1>5, <1>6, <1>9
  DEF RefreshStep, RAcquire, RFresh, RBegin, RFail, RFetch, RRecord, RRecheck, RRelease, lockVars
<1>10. CASE SummaryStep(j)
  BY <1>2, <1>3, <1>5, <1>6, <1>10 DEF SummaryStep, UStop, SAcquire, SStop, SPlugin, SPlugged,
     SRefused, SBegin, EvaluationStage, CompositionStage, CheckBatch, SendBatch, RequestFails,
     Evaluated, Composed, SRelease, URelease, lockVars
<1>11. CASE EndStep(j)
  BY <1>3, <1>4, <1>11 DEF EndStep, Finish, FailOperation, Unreserve, RestoreRefused, RestoreEnds,
     lockVars
<1> QED
  BY <1>7, <1>8, <1>9, <1>10, <1>11 DEF WorkerStep

\* The other steps acquire nothing.
LEMMA OutsideLocks ==
    ASSUME [Next]_vars, ~ \E j \in Jobs : NewStep(j) \/ WorkerStep(j)
    PROVE  \/ UNCHANGED <<holder, stop>> \/ Deletes
           \/ \E names \in CancelRequests : RequestCancellation(names)
<1>1. DeleteExpired => Deletes
  BY DEF DeleteExpired, LiveNames, Deletes
<1>2. RecoverLocally => Deletes
  BY DEF RecoverLocally, Deletes
<1>3. Restart \/ Reconcile => Deletes
  BY <1>1, <1>2 DEF Restart, Reconcile, ReconcileRows
<1>4. ASSUME NEW j \in Jobs, Heartbeat(j)
      PROVE  UNCHANGED <<holder, stop>>
  BY <1>4 DEF Heartbeat, RenewLock
<1>5. CASE CrashServer \/ Tick \/ (\E j \in Jobs : CrashStandalone(j)) \/ UNCHANGED vars
  BY <1>5 DEF CrashServer, Tick, CrashStandalone, Dies, Elapse, vars, lockVars
<1> QED
  BY <1>3, <1>4, <1>5 DEF Next

\* A request for a stop is not forgotten, and it comes before the flag.
LEMMA FlagsAreAsked ==
    ASSUME TypeOK, [Next]_vars, StopWasAsked
    PROVE  StopWasAsked' /\ \A j \in Jobs : asked[j] => asked'[j]
<1>1. CASE \E names \in CancelRequests : RequestCancellation(names)
  BY <1>1 DEF RequestCancellation, FlagRows, StopWasAsked, CancellationRequested, Owns, TypeOK,
     JobTypeOK, LockTypeOK
<1>2. CASE ~ \E names \in CancelRequests : RequestCancellation(names)
  <2>1. UNCHANGED asked
    <3>1. ASSUME NEW j \in Jobs, NewStep(j) \/ WorkerStep(j)
          PROVE  UNCHANGED asked
      BY <3>1 DEF NewStep, Reserve, StartUnattended, StartRestore, RefuseRequest, Enrol,
         WorkerStep, RequestStep, CreateOperation, CreateOperationFails, ThreadFails,
         StartOperation, SetPhase, EnterReserved, EnterUnreserved, AcquireOwn,
         RefreshStep, RAcquire, RFresh, RBegin, RFail, RFetch, RRecord, RRecheck, RRelease,
         SummaryStep, UStop, SAcquire, SStop, SPlugin, SPlugged, SRefused, SBegin,
         EvaluationStage, CompositionStage, CheckBatch, SendBatch, RequestFails, Evaluated,
         Composed, SRelease, URelease, EndStep, Finish, FailOperation, Unreserve,
         RestoreRefused, RestoreReplaces, RestoreEnds
    <3> QED
      BY <1>2, <3>1 DEF Next, Heartbeat, CrashStandalone, CrashServer, Dies, Restart, Reconcile,
         RecoverLocally, ReconcileRows, Tick, vars
  <2>2. \A j \in Jobs, n \in LockNames :
            CancellationRequested(n, j)' => CancellationRequested(n, j)
    BY <1>2, WorkerLocks, OutsideLocks DEF Deletes, Acquires, KeepOnly, AcquireLock,
       CancellationRequested, Owns
  <2> QED
    BY <2>1, <2>2 DEF StopWasAsked
<1> QED
  BY <1>1, <1>2

\* A worker takes up "cancelled" only from a flag, and a record from its worker.
Cancelled(i) ==
    /\ result'[i] = "cancelled" =>
        result[i] = "cancelled" \/ \E n \in LockNames : CancellationRequested(n, i)
    /\ op'[i] = "cancelled" => op[i] = "cancelled" \/ result[i] = "cancelled"

\* A worker closes a record as cancelled only if its answer says so.
LEMMA WorkerCancels ==
    ASSUME JobTypeOK, NEW j \in Jobs, NewStep(j) \/ WorkerStep(j), NEW i \in Jobs
    PROVE  Cancelled(i)
<1> USE DEF Cancelled, JobTypeOK, At, Return, Forget, SetStatus, records
<1>0. {"feed-refresh", "summary-update", "llm-summary"} \subseteq LockNames
  BY DEF LockNames
<1>1. CASE NewStep(j)
  BY <1>1 DEF NewStep, Reserve, StartUnattended, StartRestore, RefuseRequest, Enrol, locals
<1>2. CASE RequestStep(j)
  <2>1. CASE CreateOperation(j)
    BY <1>0, <2>1 DEF CreateOperation
  <2>2. CASE CreateOperationFails(j)
    BY <1>0, <2>2 DEF CreateOperationFails
  <2>3. CASE ThreadFails(j)
    BY <1>0, <2>3 DEF ThreadFails
  <2>4. CASE StartOperation(j)
    BY <1>0, <2>4 DEF StartOperation
  <2>5. CASE SetPhase(j)
    BY <1>0, <2>5 DEF SetPhase
  <2>6. CASE EnterReserved(j)
    BY <1>0, <2>6 DEF EnterReserved
  <2>7. CASE EnterUnreserved(j)
    BY <1>0, <2>7 DEF EnterUnreserved
  <2>8. CASE AcquireOwn(j)
    BY <1>0, <2>8 DEF AcquireOwn
  <2> HIDE DEF Cancelled
  <2> QED
    BY <1>2, <2>1, <2>2, <2>3, <2>4, <2>5, <2>6, <2>7, <2>8 DEF RequestStep
<1>3. CASE RefreshStep(j)
  <2>1. CASE RAcquire(j)
    BY <1>0, <2>1 DEF RAcquire
  <2>2. CASE RFresh(j)
    BY <1>0, <2>2 DEF RFresh
  <2>3. CASE RBegin(j)
    BY <1>0, <2>3 DEF RBegin
  <2>4. CASE RFail(j)
    BY <1>0, <2>4 DEF RFail
  <2>5. CASE RFetch(j)
    BY <1>0, <2>5 DEF RFetch
  <2>6. CASE RRecord(j)
    BY <1>0, <2>6 DEF RRecord
  <2>7. CASE RRecheck(j)
    BY <1>0, <2>7 DEF RRecheck
  <2>8. CASE RRelease(j)
    BY <1>0, <2>8 DEF RRelease, Report, ReturnToUpdate
  <2> HIDE DEF Cancelled
  <2> QED
    BY <1>3, <2>1, <2>2, <2>3, <2>4, <2>5, <2>6, <2>7, <2>8 DEF RefreshStep
<1>4. CASE SummaryStep(j)
  <2>1. CASE UStop(j)
    BY <1>0, <2>1 DEF UStop
  <2>2. CASE SAcquire(j)
    BY <1>0, <2>2 DEF SAcquire
  <2>3. CASE SStop(j)
    BY <1>0, <2>3 DEF SStop, Stopped
  <2>4. CASE SPlugin(j)
    BY <1>0, <2>4 DEF SPlugin
  <2>5. CASE SPlugged(j)
    BY <1>0, <2>5 DEF SPlugged, Stopped
  <2>6. CASE SRefused(j)
    BY <1>0, <2>6 DEF SRefused
  <2>7. CASE SBegin(j)
    BY <1>0, <2>7 DEF SBegin
  <2>8. CASE EvaluationStage(j)
    BY <1>0, <2>8 DEF EvaluationStage, CheckBatch, SendBatch, RequestFails, Evaluated, EndCancelled, Stopped
  <2>9. CASE CompositionStage(j)
    BY <1>0, <2>9 DEF CompositionStage, CheckBatch, SendBatch, RequestFails, Composed, EndCancelled, Stopped
  <2>10. CASE SRelease(j)
    BY <1>0, <2>10 DEF SRelease, Combined
  <2>11. CASE URelease(j)
    BY <1>0, <2>11 DEF URelease, Report
  <2> HIDE DEF Cancelled
  <2> QED
    BY <1>4, <2>1, <2>2, <2>3, <2>4, <2>5, <2>6, <2>7, <2>8, <2>9, <2>10, <2>11 DEF SummaryStep
<1>5. CASE EndStep(j)
  <2>1. CASE Finish(j)
    BY <1>0, <2>1 DEF Finish, TerminalState
  <2>2. CASE FailOperation(j)
    BY <1>0, <2>2 DEF FailOperation
  <2>3. CASE Unreserve(j)
    BY <1>0, <2>3 DEF Unreserve
  <2>4. CASE RestoreRefused(j)
    BY <1>0, <2>4 DEF RestoreRefused
  <2>5. CASE RestoreReplaces(j)
    BY <1>0, <2>5 DEF RestoreReplaces
  <2>6. CASE RestoreEnds(j)
    BY <1>0, <2>6 DEF RestoreEnds
  <2> HIDE DEF Cancelled
  <2> QED
    BY <1>5, <2>1, <2>2, <2>3, <2>4, <2>5, <2>6 DEF EndStep
<1> HIDE DEF Cancelled
<1> QED
  BY <1>1, <1>2, <1>3, <1>4, <1>5 DEF WorkerStep

\* No other step says "cancelled".
LEMMA NextCancels ==
    ASSUME TypeOK, [Next]_vars, NEW i \in Jobs
    PROVE  Cancelled(i)
<1>1. ASSUME NEW j \in Jobs, NewStep(j) \/ WorkerStep(j)
      PROVE  Cancelled(i)
  BY <1>1, WorkerCancels DEF TypeOK
<1>2. CASE UNCHANGED <<result, op>>
  BY <1>2 DEF Cancelled
<1>3. ASSUME NEW S, Dies(S)
      PROVE  Cancelled(i)
  BY <1>3 DEF Dies, Forget, records, Cancelled
<1>4. ASSUME NEW rows, FailRows(rows), UNCHANGED locals
      PROVE  Cancelled(i)
  BY <1>4 DEF FailRows, locals, Cancelled
<1> QED
  BY <1>1, <1>2, <1>3, <1>4 DEF Next, Heartbeat, CrashStandalone, RequestCancellation, CrashServer,
     Tick, Restart, Reconcile, RecoverLocally, ReconcileRows, vars, locals, records

\* A job answers "cancelled" only if a stop request was accepted for it.
THEOREM StopsWereAsked == Spec => []CancelledWasAsked
<1>1. Init => StopWasAsked /\ CancelledWasAsked
  BY DEF Init, LockInit, StopWasAsked, CancelledWasAsked, CancellationRequested
<1>2. ASSUME TypeOK, [Next]_vars, StopWasAsked, CancelledWasAsked
      PROVE  CancelledWasAsked'
  <2>1. SUFFICES ASSUME NEW i \in Jobs, (result[i] = "cancelled" \/ op[i] = "cancelled")'
                 PROVE  asked'[i]
    BY DEF CancelledWasAsked
  <2>2. asked[i]
    BY <1>2, <2>1, NextCancels DEF Cancelled, CancelledWasAsked, StopWasAsked
  <2> QED
    BY <1>2, <2>2, FlagsAreAsked
<1>3. TypeOK /\ StopWasAsked /\ CancelledWasAsked /\ [Next]_vars
        => StopWasAsked' /\ CancelledWasAsked'
  BY <1>2, FlagsAreAsked
<1> QED
  BY <1>1, <1>3, TypeCorrect, PTL DEF Spec

-----------------------------------------------------------------------------
(***************************************************************************)
(* The leases a job may have at each position: a job that is over has none *)
(* left.                                                                   *)
(***************************************************************************)
MayOwn(j, n) ==
    \/ pc[j] = "dead"
    \/ n = Outer(kind[j]) /\ pc[j] \notin {"new", "acquire", "done"}
       /\ (pc[j] = "enter" => reserved[j])
    \/ n = "feed-refresh" /\ pc[j] \in FeedPcs \cup {"r_release"}
    \/ n = "llm-summary" /\ pc[j] \in AiPcs \cup {"s_release"}

OwnLeases == \A j \in Jobs, n \in LockNames : Owns(j, n) => MayOwn(j, n)

\* A step of a job, and the leases the job may have after it.
LEMMA WorkerOwns ==
    ASSUME TypeOK, NEW j \in Jobs, NewStep(j) \/ WorkerStep(j), Placed(j),
           \A n \in LockNames : Owns(j, n) => MayOwn(j, n)
    PROVE  (\A n \in LockNames : Owns(j, n) => MayOwn(j, n))'
<1> DEFINE Fits == (\A n \in LockNames : Owns(j, n) => MayOwn(j, n))'
<1> USE DEF TypeOK, LockTypeOK, JobTypeOK, Placed, Owns, MayOwn, Outer, Updates, At, Goto, lockVars,
      KeepOnly, AcquireLock, RefuseLock, DeleteExpired, UpdateOnlyPcs, UpdatePcs, SharedPcs,
      ReservedPcs, FeedPcs, AiPcs
<1>1. CASE NewStep(j)
  <2>1. ASSUME NEW k, Reserve(j, k)
        PROVE  Fits
    BY <2>1 DEF Reserve, Enrol
  <2>2. ASSUME NEW k, StartUnattended(j, k)
        PROVE  Fits
    BY <2>2 DEF StartUnattended, Enrol
  <2>3. CASE StartRestore(j)
    BY <2>3 DEF StartRestore, Enrol
  <2>4. CASE RefuseRequest(j)
    BY <2>4 DEF RefuseRequest, locals
  <2> HIDE DEF TypeOK, LockTypeOK, JobTypeOK, Placed, Owns, MayOwn
  <2> QED
    BY <1>1, <2>1, <2>2, <2>3, <2>4 DEF NewStep
<1>2. CASE RequestStep(j)
  <2>1. CASE CreateOperation(j)
    BY <2>1 DEF CreateOperation
  <2>2. CASE CreateOperationFails(j)
    BY <2>2 DEF CreateOperationFails
  <2>3. CASE ThreadFails(j)
    BY <2>3 DEF ThreadFails
  <2>4. CASE StartOperation(j)
    BY <2>4 DEF StartOperation
  <2>5. CASE SetPhase(j)
    BY <2>5 DEF SetPhase
  <2>6. CASE EnterReserved(j)
    BY <2>6 DEF EnterReserved, FirstStep
  <2>7. CASE EnterUnreserved(j)
    BY <2>7 DEF EnterUnreserved
  <2>8. CASE AcquireOwn(j)
    <3>1. CASE AcquireLock(Outer(kind[j]), j, TTL[Outer(kind[j])], TRUE) /\ Goto(j, FirstStep(j))
      BY <2>8, <3>1 DEF AcquireOwn, FirstStep
    <3>2. CASE RefuseLock(Outer(kind[j]), TRUE) /\ Goto(j, "done")
      BY <2>8, <3>2 DEF AcquireOwn
    <3> QED
      BY <2>8, <3>1, <3>2 DEF AcquireOwn
  <2> HIDE DEF TypeOK
  <2> QED
    BY <1>2, <2>1, <2>2, <2>3, <2>4, <2>5, <2>6, <2>7, <2>8 DEF RequestStep
<1>3. CASE RefreshStep(j)
  <2>1. CASE RAcquire(j)
    <3>1. CASE AcquireLock("feed-refresh", j, TTL["feed-refresh"], FALSE) /\ Goto(j, "r_begin")
      BY <2>1, <3>1 DEF RAcquire
    <3>2. CASE RefuseLock("feed-refresh", FALSE) /\ Goto(j, "u_release")
      BY <2>1, <3>2 DEF RAcquire
    <3> QED
      BY <2>1, <3>1, <3>2 DEF RAcquire
  <2>2. CASE RFresh(j)
    BY <2>2 DEF RFresh
  <2>3. CASE RBegin(j)
    BY <2>3 DEF RBegin
  <2>4. CASE RFail(j)
    BY <2>4 DEF RFail
  <2>5. CASE RFetch(j)
    BY <2>5 DEF RFetch
  <2>6. CASE RRecord(j)
    BY <2>6 DEF RRecord
  <2>7. CASE RRecheck(j)
    BY <2>7 DEF RRecheck
  <2>8. CASE RRelease(j)
    BY <2>8 DEF RRelease, Report, ReturnToUpdate, ReleaseLock
  <2> HIDE DEF TypeOK
  <2> QED
    BY <1>3, <2>1, <2>2, <2>3, <2>4, <2>5, <2>6, <2>7, <2>8 DEF RefreshStep
<1>4. CASE SummaryStep(j)
  <2>1. CASE UStop(j)
    BY <2>1 DEF UStop
  <2>2. CASE SAcquire(j)
    <3>1. CASE AcquireLock("llm-summary", j, TTL["llm-summary"], FALSE) /\ Goto(j, "s_stop")
      BY <2>2, <3>1 DEF SAcquire
    <3>2. CASE RefuseLock("llm-summary", FALSE) /\ Goto(j, "u_release")
      BY <2>2, <3>2 DEF SAcquire
    <3> QED
      BY <2>2, <3>1, <3>2 DEF SAcquire
  <2>3. CASE SStop(j)
    BY <2>3 DEF SStop
  <2>4. CASE SPlugin(j)
    BY <2>4 DEF SPlugin
  <2>5. CASE SPlugged(j)
    BY <2>5 DEF SPlugged
  <2>6. CASE SRefused(j)
    BY <2>6 DEF SRefused
  <2>7. CASE SBegin(j)
    BY <2>7 DEF SBegin
  <2>8. CASE EvaluationStage(j)
    BY <2>8 DEF EvaluationStage, CheckBatch, SendBatch, RequestFails, Evaluated, EndCancelled
  <2>9. CASE CompositionStage(j)
    BY <2>9 DEF CompositionStage, CheckBatch, SendBatch, RequestFails, Composed, EndCancelled
  <2>10. CASE SRelease(j)
    BY <2>10 DEF SRelease, ReleaseLock
  <2>11. CASE URelease(j)
    BY <2>11 DEF URelease, Report, ReleaseLock
  <2> HIDE DEF TypeOK
  <2> QED
    BY <1>4, <2>1, <2>2, <2>3, <2>4, <2>5, <2>6, <2>7, <2>8, <2>9, <2>10, <2>11 DEF SummaryStep
<1>5. CASE EndStep(j)
  <2>1. CASE Finish(j)
    BY <2>1 DEF Finish
  <2>2. CASE FailOperation(j)
    BY <2>2 DEF FailOperation
  <2>3. CASE Unreserve(j)
    BY <2>3 DEF Unreserve, ReleaseLock
  <2>4. CASE RestoreRefused(j)
    BY <2>4 DEF RestoreRefused
  <2>5. CASE RestoreReplaces(j)
    BY <2>5 DEF RestoreReplaces
  <2>6. CASE RestoreEnds(j)
    BY <2>6 DEF RestoreEnds, ReleaseLock
  <2> HIDE DEF TypeOK
  <2> QED
    BY <1>5, <2>1, <2>2, <2>3, <2>4, <2>5, <2>6 DEF EndStep
<1> HIDE DEF TypeOK
<1> QED
  BY <1>1, <1>2, <1>3, <1>4, <1>5 DEF WorkerStep

\* Every step keeps the leases with the jobs that may own them.
LEMMA NextOwns ==
    ASSUME TypeOK, [Next]_vars, \A i \in Jobs : Books(i), OwnLeases
    PROVE  OwnLeases'
<1> DEFINE Fits(i) == \A n \in LockNames : Owns(i, n) => MayOwn(i, n)
<1>1. SUFFICES ASSUME NEW i \in Jobs
               PROVE  Fits(i)'
  BY DEF OwnLeases
<1>2. Fits(i) /\ Placed(i)
  BY DEF OwnLeases, Books
<1>3. ASSUME \A n \in LockNames : Owns(i, n)' => Owns(i, n),
             \/ UNCHANGED <<pc, kind, reserved>>
             \/ pc'[i] = "dead"
             \/ pc'[i] = pc[i] /\ kind'[i] = kind[i] /\ reserved'[i] = reserved[i]
      PROVE  Fits(i)'
  BY <1>2, <1>3 DEF MayOwn
<1>4. ASSUME NEW j \in Jobs, NewStep(j) \/ WorkerStep(j)
      PROVE  Fits(i)'
  <2>1. CASE i = j
    BY <1>2, <1>4, <2>1, WorkerOwns
  <2>2. CASE i # j
    <3>1. \A n \in LockNames : Owns(i, n)' => Owns(i, n)
      BY <1>4, <2>2, WorkerLocks DEF Deletes, Acquires, KeepOnly, AcquireLock, Owns, TypeOK,
         LockTypeOK
    <3> HIDE DEF Fits
    <3> QED
      BY <1>3, <1>4, <2>2, <3>1, OthersStandAside DEF Aside, TypeOK
  <2> QED
    BY <2>1, <2>2
<1>5. CASE ~ \E j \in Jobs : NewStep(j) \/ WorkerStep(j)
  <2>1. \A n \in LockNames : Owns(i, n)' => Owns(i, n)
    BY <1>5, OutsideLocks DEF Deletes, KeepOnly, RequestCancellation, FlagRows, Owns, TypeOK,
       LockTypeOK
  <2>2. ASSUME NEW S, Dies(S)
        PROVE  pc'[i] = "dead"
               \/ (pc'[i] = pc[i] /\ kind'[i] = kind[i] /\ reserved'[i] = reserved[i])
    BY <2>2 DEF Dies, TypeOK, JobTypeOK
  <2>3. UNCHANGED <<pc, kind, reserved>> \/ \E S : Dies(S)
    BY <1>5 DEF Next, Heartbeat, CrashStandalone, RequestCancellation, CrashServer, Tick, Restart,
       Reconcile, RecoverLocally, ReconcileRows, vars, locals
  <2> HIDE DEF Fits
  <2> QED
    BY <1>3, <2>1, <2>2, <2>3
<1> QED
  BY <1>4, <1>5

\* A job that ended left no lease behind, and none of its three records open, on
\* every path of UpdateJobs: what an exception at ai_engine.py 535-536 or 679
\* leaves open is in ReviewQueue.
THEOREM NothingIsLeftBehind == Spec => []NothingLeftBehind
<1>1. Init => OwnLeases
  BY DEF Init, LockInit, OwnLeases, Owns
<1>2. TypeOK /\ (\A i \in Jobs : Books(i)) /\ OwnLeases /\ [Next]_vars => OwnLeases'
  BY NextOwns
<1>3. (\A i \in Jobs : Books(i)) /\ OwnLeases => NothingLeftBehind
  BY DEF Books, Recorded, OwnLeases, MayOwn, NothingLeftBehind, FeedPcs, AiPcs, EvaluationPcs
<1> QED
  BY <1>1, <1>2, <1>3, TypeCorrect, BooksInvariant, PTL DEF Spec

-----------------------------------------------------------------------------
(***************************************************************************)
(* What exclusion is left when a host sleeps through a lease, or when a    *)
(* local restart deletes the lease of a command-line job: among the live   *)
(* rows, those that are the first lease of their owner have one owner.     *)
(* Every job at work that still holds its leases has such a row.           *)
(***************************************************************************)
FirstLease(n) == n = Outer(kind[holder[n]])

FirstLeasesAlone == \A m, n \in LiveNames : FirstLease(m) /\ FirstLease(n) => holder[m] = holder[n]

\* A name that is live after the step was live before, with the same owner.
TakesNothing == \A n \in LockNames : left'[n] > 0 => left[n] > 0 /\ holder'[n] = holder[n]

TakesFirst(j) == \E n \in LockNames : \E ticks : AcquireLock(n, j, ticks, TRUE)

TakesSecond(j) ==
    /\ pc[j] \in UpdateOnlyPcs
    /\ \E n \in {"feed-refresh", "llm-summary"} : \E ticks : AcquireLock(n, j, ticks, FALSE)

\* Deleting rows takes nothing.
LEMMA DeletionTakesNothing ==
    ASSUME LockTypeOK, Deletes
    PROVE  TakesNothing
  BY DEF Deletes, KeepOnly, TakesNothing, LockTypeOK

\* A job takes its first lease from an empty table, and only an update of
\* summaries takes a second one.
LEMMA WorkerTakes ==
    ASSUME TypeOK, NEW j \in Jobs, NewStep(j) \/ WorkerStep(j)
    PROVE  TakesNothing \/ TakesFirst(j) \/ TakesSecond(j)
<1>1. UNCHANGED lockVars => TakesNothing
  BY DEF TakesNothing, lockVars
<1>2. ASSUME NEW n, NEW exclusive, RefuseLock(n, exclusive)
      PROVE  TakesNothing
  BY <1>2, DeletionTakesNothing DEF RefuseLock, DeleteExpired, LiveNames, Deletes, TypeOK
<1>3. ASSUME NEW n, ReleaseLock(n, j)
      PROVE  TakesNothing
  BY <1>3, DeletionTakesNothing DEF ReleaseLock, Deletes, TypeOK
<1>4. RestoreReplaces(j) => TakesNothing
  BY DeletionTakesNothing DEF RestoreReplaces, LockNames, Deletes, TypeOK
<1>5. ASSUME NEW n \in LockNames, NEW ticks, AcquireLock(n, j, ticks, TRUE)
      PROVE  TakesFirst(j)
  BY <1>5 DEF TakesFirst
<1>6. CASE NewStep(j)
  <2>1. ASSUME NEW k, Reserve(j, k) PROVE TakesFirst(j)
    BY <1>5, <2>1, OuterIsName DEF Reserve
  <2>2. ASSUME NEW k, StartUnattended(j, k) PROVE TakesNothing
    BY <1>1, <2>2 DEF StartUnattended
  <2>3. ASSUME StartRestore(j) PROVE TakesFirst(j)
    BY <1>5, <2>3 DEF StartRestore, LockNames
  <2>4. ASSUME RefuseRequest(j) PROVE TakesNothing
    BY <1>1, <1>2, <2>4 DEF RefuseRequest
  <2> QED
    BY <1>6, <2>1, <2>2, <2>3, <2>4 DEF NewStep
<1>7. CASE RequestStep(j)
  BY <1>1, <1>2, <1>5, <1>7, OuterIsName DEF RequestStep, CreateOperation, CreateOperationFails,
     ThreadFails, StartOperation, SetPhase, EnterReserved, EnterUnreserved, AcquireOwn
<1>8. CASE RefreshStep(j)
  <2>1. ASSUME RAcquire(j), ~TakesNothing
        PROVE  TakesSecond(j)
    BY <1>2, <2>1 DEF RAcquire, At, TakesSecond, UpdateOnlyPcs, UpdatePcs, SharedPcs, FeedPcs
  <2> QED
    BY <1>1, <1>3, <1>8, <2>1
    DEF RefreshStep, RFresh, RBegin, RFail, RFetch, RRecord, RRecheck, RRelease
<1>9. CASE SummaryStep(j)
  <2>1. ASSUME SAcquire(j), ~TakesNothing
        PROVE  TakesSecond(j)
    BY <1>2, <2>1 DEF SAcquire, At, TakesSecond, UpdateOnlyPcs, UpdatePcs, SharedPcs, FeedPcs
  <2> QED
    BY <1>1, <1>3, <1>9, <2>1 DEF SummaryStep, UStop, SStop, SPlugin, SPlugged, SRefused, SBegin,
       EvaluationStage, CompositionStage, CheckBatch, SendBatch, RequestFails, Evaluated, Composed,
       SRelease, URelease
<1>10. CASE EndStep(j)
  BY <1>1, <1>3, <1>4, <1>10
  DEF EndStep, Finish, FailOperation, Unreserve, RestoreRefused, RestoreEnds
<1> QED
  BY <1>6, <1>7, <1>8, <1>9, <1>10 DEF WorkerStep

\* The other steps take nothing, and give no job another kind.
LEMMA OthersTakeNothing ==
    ASSUME TypeOK, [Next]_vars, ~ \E j \in Jobs : NewStep(j) \/ WorkerStep(j)
    PROVE  TakesNothing /\ kind' = kind
<1>1. NoRevival
  BY NextRevival
<1>2. UNCHANGED holder \/ Deletes
  BY OutsideLocks DEF RequestCancellation, FlagRows
<1>3. TakesNothing
  BY <1>1, <1>2, DeletionTakesNothing DEF NoRevival, TakesNothing, TypeOK
<1>4. kind' = kind
  BY DEF Next, Heartbeat, CrashStandalone, RequestCancellation, CrashServer, Dies, Tick, Restart,
     Reconcile, RecoverLocally, ReconcileRows, vars, locals
<1> QED
  BY <1>3, <1>4

\* A job is given its kind before it owns anything.
LEMMA OwnersKeepTheirKind ==
    ASSUME TypeOK, OwnLeases, NEW j \in Jobs, NewStep(j) \/ WorkerStep(j),
           NEW i \in Jobs, NEW n \in LockNames, Owns(i, n)
    PROVE  kind'[i] = kind[i]
<1>1. pc[i] # "new"
  BY DEF OwnLeases, MayOwn, FeedPcs, AiPcs
<1>2. CASE i # j
  BY <1>2, OthersStandAside DEF Aside, TypeOK
<1>3. CASE i = j
  <2>1. WorkerStep(j)
    BY <1>1, <1>3 DEF NewStep, Reserve, StartUnattended, StartRestore, RefuseRequest, Enrol
  <2>2. kind' = kind
    BY <2>1 DEF WorkerStep, RequestStep, CreateOperation, CreateOperationFails, ThreadFails,
       StartOperation, SetPhase, EnterReserved, EnterUnreserved, AcquireOwn, RefreshStep, RAcquire,
       RFresh, RBegin, RFail, RFetch, RRecord, RRecheck, RRelease, SummaryStep, UStop, SAcquire,
       SStop, SPlugin, SPlugged, SRefused, SBegin, EvaluationStage, CompositionStage, CheckBatch,
       SendBatch, RequestFails, Evaluated, Composed, SRelease, URelease, EndStep, Finish,
       FailOperation, Unreserve, RestoreRefused, RestoreReplaces, RestoreEnds, At
  <2> QED
    BY <2>2
<1> QED
  BY <1>2, <1>3

\* Every step keeps the first leases with one owner.
LEMMA NextFirstLeases ==
    ASSUME TypeOK, TypeOK', [Next]_vars, \A i \in Jobs : Books(i), OwnLeases, FirstLeasesAlone
    PROVE  FirstLeasesAlone'
<1>1. SUFFICES ASSUME NEW m \in LiveNames', NEW n \in LiveNames', FirstLease(m)', FirstLease(n)'
               PROVE  holder'[m] = holder'[n]
  BY DEF FirstLeasesAlone
<1>2. m \in LockNames /\ n \in LockNames /\ left'[m] > 0 /\ left'[n] > 0
  BY DEF LiveNames, Live
<1>3. ASSUME left[m] > 0, left[n] > 0, holder'[m] = holder[m], holder'[n] = holder[n],
             kind'[holder[m]] = kind[holder[m]], kind'[holder[n]] = kind[holder[n]]
      PROVE  holder'[m] = holder'[n]
  BY <1>1, <1>2, <1>3 DEF FirstLeasesAlone, FirstLease, LiveNames, Live
<1>4. ASSUME NEW l \in LockNames, left[l] > 0
      PROVE  holder[l] \in Jobs /\ Owns(holder[l], l)
  BY <1>4 DEF TypeOK, LockTypeOK, Owns
<1>5. ASSUME NEW j \in Jobs, NewStep(j) \/ WorkerStep(j)
      PROVE  holder'[m] = holder'[n]
  <2>1. ASSUME NEW l \in LockNames, left[l] > 0
        PROVE  kind'[holder[l]] = kind[holder[l]]
    BY <1>4, <1>5, <2>1, OwnersKeepTheirKind
  <2>2. CASE TakesNothing
    BY <1>2, <1>3, <2>1, <2>2 DEF TakesNothing
  <2>3. CASE TakesFirst(j)
    <3>1. PICK l \in LockNames : \E ticks : AcquireLock(l, j, ticks, TRUE)
      BY <2>3 DEF TakesFirst
    <3>2. m = l /\ n = l
      BY <1>2, <3>1 DEF AcquireLock, Grantable, LiveNames, Live, TypeOK, LockTypeOK
    <3> QED
      BY <3>2
  <2>4. CASE TakesSecond(j)
    <3>1. PICK l \in {"feed-refresh", "llm-summary"} : \E ticks : AcquireLock(l, j, ticks, FALSE)
      BY <2>4 DEF TakesSecond
    <3>2. kind[j] \in {"summary", "arxiv"}
      BY <2>4 DEF TakesSecond, Books, Placed
    <3>3. kind'[j] = kind[j]
      <4>1. pc[j] # "new"
        BY <2>4 DEF TakesSecond, UpdateOnlyPcs, UpdatePcs, FeedPcs, AiPcs
      <4>2. WorkerStep(j)
        BY <1>5, <4>1 DEF NewStep, Reserve, StartUnattended, StartRestore, RefuseRequest, Enrol
      <4> QED
        BY <4>2 DEF WorkerStep, RequestStep, CreateOperation, CreateOperationFails, ThreadFails,
       StartOperation, SetPhase, EnterReserved, EnterUnreserved, AcquireOwn, RefreshStep, RAcquire,
       RFresh, RBegin, RFail, RFetch, RRecord, RRecheck, RRelease, SummaryStep, UStop, SAcquire,
       SStop, SPlugin, SPlugged, SRefused, SBegin, EvaluationStage, CompositionStage, CheckBatch,
       SendBatch, RequestFails, Evaluated, Composed, SRelease, URelease, EndStep, Finish,
       FailOperation, Unreserve, RestoreRefused, RestoreReplaces, RestoreEnds, At
    <3>4. ~FirstLease(l)'
      BY <3>1, <3>2, <3>3 DEF FirstLease, Outer, AcquireLock, LockNames
    <3>5. m # l /\ n # l
      BY <1>1, <3>4
    <3>6. left[m] > 0 /\ left[n] > 0 /\ holder'[m] = holder[m] /\ holder'[n] = holder[n]
      BY <1>2, <3>1, <3>5 DEF AcquireLock, Live, TypeOK, LockTypeOK, LockNames
    <3> QED
      BY <1>2, <1>3, <2>1, <3>6
  <2> QED
    BY <1>5, <2>2, <2>3, <2>4, WorkerTakes
<1>6. CASE ~ \E j \in Jobs : NewStep(j) \/ WorkerStep(j)
  BY <1>2, <1>3, <1>6, OthersTakeNothing DEF TakesNothing
<1> QED
  BY <1>5, <1>6

\* A job at work relies on the lease it took first.
LEMMA WorkNeedsFirstLease ==
    ASSUME NEW j \in Jobs, Books(j), Working(j)
    PROVE  Outer(kind[j]) \in Needed(j)
<1>1. CASE pc[j] \in FeedPcs
  BY <1>1 DEF Books, Placed, SharedPcs, Needed, Renewed, Outer, Updates, UpdatePcs, LockNames
<1>2. CASE pc[j] \in AiPcs
  <2>1. pc[j] \in UpdateOnlyPcs /\ pc[j] \in UpdatePcs
    BY <1>2 DEF UpdateOnlyPcs, UpdatePcs, SharedPcs, FeedPcs, AiPcs
  <2> QED
    BY <2>1 DEF Books, Placed, Needed, Renewed, Outer, LockNames
<1>3. CASE pc[j] = "m_work"
  BY <1>3 DEF Books, Placed, Needed, Outer, LockNames
<1> QED
  BY <1>1, <1>2, <1>3 DEF Working

\* Two jobs are at work at once only if one of them has lost a lease, on any
\* host and with any launcher.
THEOREM HoldersDoExclude == Spec => []HoldersExclude
<1>1. Init => FirstLeasesAlone /\ OwnLeases
  BY DEF Init, LockInit, FirstLeasesAlone, LiveNames, Live, OwnLeases, Owns
<1>2. TypeOK /\ TypeOK' /\ (\A i \in Jobs : Books(i)) /\ FirstLeasesAlone /\ OwnLeases /\ [Next]_vars
        => FirstLeasesAlone' /\ OwnLeases'
  BY NextFirstLeases, NextOwns
<1>3. ASSUME \A i \in Jobs : Books(i), FirstLeasesAlone, NEW i \in Jobs, NEW j \in Jobs,
             Working(i), Working(j), Holds(i), Holds(j)
      PROVE  i = j
  <2>1. ASSUME NEW k \in Jobs, Working(k), Holds(k)
        PROVE  Outer(kind[k]) \in LiveNames /\ holder[Outer(kind[k])] = k
    BY <1>3, <2>1, WorkNeedsFirstLease, OuterIsName DEF Holds, Owns, LiveNames
  <2> QED
    BY <1>3, <2>1 DEF FirstLeasesAlone, FirstLease
<1>4. (\A i \in Jobs : Books(i)) /\ FirstLeasesAlone => HoldersExclude
  BY <1>3 DEF HoldersExclude
<1> QED
  BY <1>1, <1>2, <1>4, TypeCorrect, BooksInvariant, PTL DEF Spec

-----------------------------------------------------------------------------
(***************************************************************************)
(* Jobs end: the safety half of RecordsClose. What is left of a job is     *)
(* counted down by each of its own steps, and nobody adds to it: no loop,  *)
(* refusal or early return goes back to where a job has been, whatever     *)
(* happens to its leases, its flags and its records.                       *)
(***************************************************************************)
\* How many positions at most lie ahead, the rounds of the loops left out.
Ahead(label) ==
    CASE label = "new" -> 30
      [] label = "reserved" -> 29
      [] label = "starting" -> 28
      [] label = "phase" -> 27
      [] label = "enter" -> 26
      [] label = "acquire" -> 25
      [] label = "r_acquire" -> 24
      [] label = "r_begin" -> 23
      [] label = "r_fetch" -> 22
      [] label = "r_record" -> 21
      [] label = "r_recheck" -> 20
      [] label = "r_release" -> 19
      [] label = "u_stop" -> 18
      [] label = "s_acquire" -> 17
      [] label = "s_stop" -> 16
      [] label = "s_plugin" -> 15
      [] label = "s_plugged" -> 14
      [] label = "s_begin" -> 13
      [] label = "s_check" -> 12
      [] label = "s_request" -> 11
      [] label = "s_evaluated" -> 10
      [] label = "c_check" -> 9
      [] label = "c_request" -> 8
      [] label = "c_composed" -> 7
      [] label = "s_release" -> 6
      [] label = "u_release" -> 5
      [] label = "finish" -> 4
      [] label = "failing" -> 3
      [] label \in {"unreserve", "m_work"} -> 2
      [] label = "m_release" -> 1
      [] OTHER -> 0

\* A round of a loop is two steps.
Rounds(label, sent) ==
    CASE label \in {"new", "reserved", "starting", "phase", "enter", "acquire", "r_acquire",
                    "r_begin", "r_fetch", "r_record", "r_recheck", "r_release", "u_stop",
                    "s_acquire", "s_stop", "s_plugin", "s_plugged", "s_begin"} -> 4 * MaxBatches
      [] label \in {"s_check", "s_request"} -> 4 * MaxBatches - 2 * sent
      [] label = "s_evaluated" -> 2 * MaxBatches
      [] label \in {"c_check", "c_request"} -> 2 * MaxBatches - 2 * sent
      [] OTHER -> 0

\* The plan fixes the number of requests.
Within(label, sent) ==
    /\ label \in {"s_check", "c_check"} => sent <= MaxBatches
    /\ label \in {"s_request", "c_request"} => sent < MaxBatches

WithinPlan(j) == Within(pc[j], batch[j])

Remaining(j) == Ahead(pc[j]) + Rounds(pc[j], batch[j])

CountsDown ==
    \A j \in Jobs : /\ Remaining(j)' <= Remaining(j)
                    /\ WorkerStep(j) => Remaining(j)' < Remaining(j)

\* What is left is a number, and there is a bound for it.
LEMMA LeftIsBounded ==
    ASSUME NEW label, NEW sent \in Nat, Within(label, sent)
    PROVE  Ahead(label) \in 0 .. 30 /\ Rounds(label, sent) \in 0 .. 4 * MaxBatches
<1>1. Ahead(label) \in 0 .. 30
  BY DEF Ahead
<1>2. Rounds(label, sent) \in 0 .. 4 * MaxBatches
  BY DEF Rounds, Within
<1> QED
  BY <1>1, <1>2

\* What a step of job j must do.
Shortens(j) == WithinPlan(j)' /\ Remaining(j)' < Remaining(j)

\* A job that moves to a later position outside the loops.
LEMMA MovesForward ==
    ASSUME JobTypeOK, NEW j \in Jobs, WithinPlan(j), NEW label, Goto(j, label),
           label \notin {"s_check", "s_request", "c_check", "c_request"},
           Ahead(label) < Ahead(pc[j]), batch'[j] \in Nat
    PROVE  Shortens(j)
<1>1. pc'[j] = label
  BY DEF JobTypeOK, Goto
<1>2. WithinPlan(j)'
  BY <1>1 DEF WithinPlan, Within
<1>3. pc[j] \in Pcs /\ batch[j] \in Nat /\ Within(pc[j], batch[j]) /\ Within(label, batch'[j])
  BY <1>1, <1>2 DEF JobTypeOK, WithinPlan
<1>4. /\ Ahead(label) \in Nat /\ Ahead(pc[j]) \in Nat
      /\ Rounds(label, batch'[j]) \in Nat /\ Rounds(pc[j], batch[j]) \in Nat
  BY <1>3, LeftIsBounded
<1>5. Rounds(label, batch'[j]) <= Rounds(pc[j], batch[j])
  <2>1. CASE Rounds(label, batch'[j]) = 0
    BY <1>4, <2>1
  <2>2. CASE label = "s_evaluated"
    <3>1. Ahead(pc[j]) > 10 /\ Rounds(label, batch'[j]) = 2 * MaxBatches
      BY <2>2 DEF Ahead, Rounds
    <3> QED
      BY <1>3, <3>1 DEF Ahead, Rounds, Within
  <2>3. CASE label # "s_evaluated" /\ Rounds(label, batch'[j]) # 0
    <3>1. Rounds(label, batch'[j]) = 4 * MaxBatches /\ Ahead(label) >= 13
      BY <2>3 DEF Ahead, Rounds
    <3>2. Ahead(pc[j]) > 13
      BY <1>4, <3>1
    <3>3. Rounds(pc[j], batch[j]) = 4 * MaxBatches
      BY <3>2 DEF Ahead, Rounds
    <3> QED
      BY <3>1, <3>3
  <2> QED
    BY <2>1, <2>2, <2>3
<1> QED
  BY <1>1, <1>2, <1>4, <1>5 DEF Shortens, Remaining

\* A browser request and the entry of a worker.
LEMMA RequestShortens ==
    ASSUME JobTypeOK, NEW j \in Jobs, WithinPlan(j), RequestStep(j)
    PROVE  Shortens(j)
<1>1. batch'[j] \in Nat
  BY DEF RequestStep, CreateOperation, CreateOperationFails, ThreadFails, StartOperation, SetPhase,
     EnterReserved, EnterUnreserved, AcquireOwn, JobTypeOK
<1>2. CASE CreateOperation(j) \/ CreateOperationFails(j) \/ ThreadFails(j)
  BY <1>1, <1>2, MovesForward DEF CreateOperation, CreateOperationFails, ThreadFails, At, Ahead
<1>3. CASE StartOperation(j)
  BY <1>1, <1>3, MovesForward DEF StartOperation, At, Ahead
<1>4. CASE SetPhase(j)
  BY <1>1, <1>4, MovesForward DEF SetPhase, At, Ahead
<1>5. CASE EnterReserved(j)
  BY <1>1, <1>5, MovesForward DEF EnterReserved, FirstStep, At, Ahead
<1>6. CASE EnterUnreserved(j)
  BY <1>1, <1>6, MovesForward DEF EnterUnreserved, At, Ahead
<1>7. CASE AcquireOwn(j)
  <2>1. PICK label \in {"r_begin", "r_acquire", "done"} : Goto(j, label)
    BY <1>7 DEF AcquireOwn, FirstStep
  <2>2. pc[j] = "acquire"
    BY <1>7 DEF AcquireOwn, At
  <2> QED
    BY <1>1, <2>1, <2>2, MovesForward DEF Ahead
<1> QED
  BY <1>2, <1>3, <1>4, <1>5, <1>6, <1>7 DEF RequestStep

\* The feed check.
LEMMA RefreshShortens ==
    ASSUME JobTypeOK, NEW j \in Jobs, WithinPlan(j), RefreshStep(j)
    PROVE  Shortens(j)
<1>1. batch'[j] \in Nat
  <2>1. CASE RRelease(j)
    BY <2>1 DEF RRelease, Report, ReturnToUpdate, Forget, JobTypeOK
  <2> QED
    BY <2>1 DEF RefreshStep, RAcquire, RFresh, RBegin, RFail, RFetch, RRecord, RRecheck, JobTypeOK
<1>2. CASE RAcquire(j)
  <2>1. PICK label \in {"r_begin", "u_release"} : Goto(j, label)
    BY <1>2 DEF RAcquire
  <2>2. pc[j] = "r_acquire"
    BY <1>2 DEF RAcquire, At
  <2> QED
    BY <1>1, <2>1, <2>2, MovesForward DEF Ahead
<1>3. CASE RFresh(j) \/ RBegin(j)
  BY <1>1, <1>3, MovesForward DEF RFresh, RBegin, At, Ahead
<1>4. CASE RFail(j) \/ RFetch(j)
  BY <1>1, <1>4, MovesForward DEF RFail, RFetch, At, Ahead
<1>5. CASE RRecord(j)
  BY <1>1, <1>5, MovesForward DEF RRecord, At, Ahead
<1>6. CASE RRecheck(j)
  BY <1>1, <1>6, MovesForward DEF RRecheck, At, Ahead
<1>7. CASE RRelease(j)
  BY <1>1, <1>7, MovesForward DEF RRelease, Report, ReturnToUpdate, At, Ahead
<1> QED
  BY <1>2, <1>3, <1>4, <1>5, <1>6, <1>7 DEF RefreshStep

\* A look at the stop flag, and a request, in one of the two loops.
LEMMA LoopShortens ==
    ASSUME JobTypeOK, NEW j \in Jobs, WithinPlan(j),
           NEW here \in {"s_check", "c_check"},
           NEW send, send = IF here = "s_check" THEN "s_request" ELSE "c_request",
           NEW end, end = IF here = "s_check" THEN "s_evaluated" ELSE "c_composed",
           \/ CheckBatch(j, here, send, end)
           \/ SendBatch(j, send, here)
           \/ RequestFails(j, send)
    PROVE  Shortens(j)
<1>1. CASE CheckBatch(j, here, send, end)
  <2>1. pc[j] = here /\ batch'[j] = batch[j] /\ batch[j] \in Nat
    BY <1>1 DEF CheckBatch, At, JobTypeOK
  <2>2. CASE Goto(j, end)
    BY <2>1, <2>2, MovesForward DEF Ahead
  <2>3. CASE batch[j] < MaxBatches /\ Goto(j, send)
    <3>1. pc'[j] = send
      BY <2>3 DEF Goto, JobTypeOK
    <3>2. WithinPlan(j)'
      BY <2>1, <2>3, <3>1 DEF WithinPlan, Within
    <3>3. Remaining(j)' < Remaining(j)
      BY <2>1, <2>3, <3>1 DEF Remaining, Ahead, Rounds
    <3> QED
      BY <3>2, <3>3 DEF Shortens
  <2> QED
    BY <1>1, <2>2, <2>3 DEF CheckBatch
<1>2. CASE SendBatch(j, send, here)
  <2>1. /\ pc[j] = send /\ pc'[j] = here
        /\ batch'[j] = batch[j] + 1 /\ batch[j] \in Nat /\ batch[j] < MaxBatches
    BY <1>2 DEF SendBatch, At, Goto, JobTypeOK, WithinPlan, Within
  <2>2. WithinPlan(j)'
    BY <2>1 DEF WithinPlan, Within
  <2>3. Remaining(j)' < Remaining(j)
    BY <2>1 DEF Remaining, Ahead, Rounds
  <2> QED
    BY <2>2, <2>3 DEF Shortens
<1>3. CASE RequestFails(j, send)
  BY <1>3, MovesForward DEF RequestFails, At, Ahead, JobTypeOK
<1> QED
  BY <1>1, <1>2, <1>3

\* An update between its stages, the AI stage, and the end of an update.
LEMMA SummaryShortens ==
    ASSUME JobTypeOK, NEW j \in Jobs, WithinPlan(j), SummaryStep(j)
    PROVE  Shortens(j)
<1>1. CASE UStop(j)
  BY <1>1, MovesForward DEF UStop, At, Ahead, JobTypeOK
<1>2. CASE SAcquire(j)
  <2>1. PICK label \in {"s_stop", "u_release"} : Goto(j, label)
    BY <1>2 DEF SAcquire
  <2>2. pc[j] = "s_acquire" /\ batch'[j] \in Nat
    BY <1>2 DEF SAcquire, At, JobTypeOK
  <2> QED
    BY <2>1, <2>2, MovesForward DEF Ahead
<1>3. CASE SStop(j)
  BY <1>3, MovesForward DEF SStop, At, Ahead, JobTypeOK
<1>4. CASE SPlugin(j) \/ SRefused(j)
  BY <1>4, MovesForward DEF SPlugin, SRefused, At, Ahead, JobTypeOK
<1>5. CASE SPlugged(j)
  BY <1>5, MovesForward DEF SPlugged, At, Ahead, JobTypeOK
<1>6. CASE SBegin(j)
  <2>1. pc[j] = "s_begin" /\ pc'[j] = "s_check" /\ batch'[j] = 0
    BY <1>6 DEF SBegin, At, Goto, JobTypeOK
  <2>2. WithinPlan(j)'
    BY <2>1 DEF WithinPlan, Within
  <2>3. Remaining(j)' < Remaining(j)
    BY <2>1 DEF Remaining, Ahead, Rounds
  <2> QED
    BY <2>2, <2>3 DEF Shortens
<1>7. CASE Evaluated(j)
  <2>1. CASE EndCancelled(j) /\ UNCHANGED batch
    BY <1>7, <2>1, MovesForward DEF Evaluated, EndCancelled, At, Ahead, JobTypeOK
  <2>2. CASE Goto(j, "c_check") /\ batch' = [batch EXCEPT ![j] = 0]
    <3>1. pc[j] = "s_evaluated" /\ pc'[j] = "c_check" /\ batch'[j] = 0
      BY <1>7, <2>2 DEF Evaluated, At, Goto, JobTypeOK
    <3>2. WithinPlan(j)'
      BY <3>1 DEF WithinPlan, Within
    <3>3. Remaining(j)' < Remaining(j)
      BY <3>1 DEF Remaining, Ahead, Rounds
    <3> QED
      BY <3>2, <3>3 DEF Shortens
  <2> QED
    BY <1>7, <2>1, <2>2 DEF Evaluated
<1>8. CASE Composed(j)
  BY <1>8, MovesForward DEF Composed, EndCancelled, At, Ahead, JobTypeOK
<1>9. CASE SRelease(j)
  BY <1>9, MovesForward DEF SRelease, At, Ahead, JobTypeOK
<1>10. CASE URelease(j)
  BY <1>10, MovesForward DEF URelease, Report, Forget, At, Ahead, JobTypeOK
<1> QED
  BY <1>1, <1>2, <1>3, <1>4, <1>5, <1>6, <1>7, <1>8, <1>9, <1>10, LoopShortens
  DEF SummaryStep, EvaluationStage, CompositionStage

\* A worker that reports, and a restore.
LEMMA EndShortens ==
    ASSUME JobTypeOK, NEW j \in Jobs, WithinPlan(j), EndStep(j)
    PROVE  Shortens(j)
<1>1. CASE Finish(j)
  BY <1>1, MovesForward DEF Finish, At, Ahead, JobTypeOK
<1>2. CASE FailOperation(j) \/ Unreserve(j)
  BY <1>2, MovesForward DEF FailOperation, Unreserve, Forget, At, Ahead, JobTypeOK
<1>3. CASE RestoreRefused(j) \/ RestoreReplaces(j) \/ RestoreEnds(j)
  BY <1>3, MovesForward DEF RestoreRefused, RestoreReplaces, RestoreEnds, At, Ahead, JobTypeOK
<1> QED
  BY <1>1, <1>2, <1>3 DEF EndStep

\* A new job starts at the top; where it is refused it has not moved.
LEMMA NewStarts ==
    ASSUME JobTypeOK, NEW j \in Jobs, WithinPlan(j), NewStep(j)
    PROVE  WithinPlan(j)' /\ Remaining(j)' <= Remaining(j)
<1>1. /\ pc'[j] \in {pc[j], "reserved", "enter", "m_work"}
      /\ pc'[j] = pc[j] \/ pc[j] = "new"
      /\ batch'[j] = batch[j] /\ batch[j] \in Nat
  BY DEF NewStep, Reserve, StartUnattended, StartRestore, RefuseRequest, Enrol, Goto, JobTypeOK,
     locals
<1>2. WithinPlan(j)'
  BY <1>1 DEF WithinPlan, Within
<1>3. Within(pc[j], batch[j]) /\ Within(pc'[j], batch'[j])
  BY <1>2 DEF WithinPlan
<1>4. /\ Ahead(pc[j]) \in Nat /\ Ahead(pc'[j]) \in Nat
      /\ Rounds(pc[j], batch[j]) \in Nat /\ Rounds(pc'[j], batch'[j]) \in Nat
  BY <1>1, <1>3, LeftIsBounded
<1>5. Ahead(pc'[j]) <= Ahead(pc[j]) /\ Rounds(pc'[j], batch'[j]) <= Rounds(pc[j], batch[j])
  BY <1>1, <1>4 DEF Ahead, Rounds
<1> QED
  BY <1>2, <1>4, <1>5 DEF Remaining

\* So each step of a worker leaves less to do.
LEMMA WorkerShortens ==
    ASSUME JobTypeOK, NEW j \in Jobs, WithinPlan(j), WorkerStep(j)
    PROVE  Shortens(j)
  BY RequestShortens, RefreshShortens, SummaryShortens, EndShortens DEF WorkerStep

\* A step of one job does not move another, nor add to its requests.
LEMMA OthersKeepCount ==
    ASSUME JobTypeOK, NEW j \in Jobs, NewStep(j) \/ WorkerStep(j), NEW i \in Jobs, i # j
    PROVE  pc'[i] = pc[i] /\ batch'[i] = batch[i]
<1>1. pc'[i] = pc[i]
  BY OthersStandAside DEF Aside
<1> SUFFICES batch'[i] = batch[i]
  BY <1>1
<1> USE DEF JobTypeOK
<1>2. CASE NewStep(j)
  BY <1>2 DEF NewStep, Reserve, StartUnattended, StartRestore, RefuseRequest, Enrol, locals
<1>3. CASE RequestStep(j)
  BY <1>3 DEF RequestStep, CreateOperation, CreateOperationFails, ThreadFails, StartOperation,
     SetPhase, EnterReserved, EnterUnreserved, AcquireOwn
<1>4. CASE RefreshStep(j)
  <2>1. CASE RRelease(j)
    BY <2>1 DEF RRelease, Report, ReturnToUpdate, Forget
  <2> QED
    BY <1>4, <2>1 DEF RefreshStep, RAcquire, RFresh, RBegin, RFail, RFetch, RRecord, RRecheck
<1>5. CASE SummaryStep(j)
  <2>1. CASE URelease(j)
    BY <2>1 DEF URelease, Report, Forget
  <2>2. CASE EvaluationStage(j)
    BY <2>2 DEF EvaluationStage, CheckBatch, SendBatch, RequestFails, Evaluated
  <2>3. CASE CompositionStage(j)
    BY <2>3 DEF CompositionStage, CheckBatch, SendBatch, RequestFails, Composed
  <2> QED
    BY <1>5, <2>1, <2>2, <2>3
    DEF SummaryStep, UStop, SAcquire, SStop, SPlugin, SPlugged, SRefused, SBegin, SRelease
<1>6. CASE EndStep(j)
  BY <1>6 DEF EndStep, Finish, FailOperation, Unreserve, RestoreRefused, RestoreReplaces,
     RestoreEnds, Forget
<1> QED
  BY <1>2, <1>3, <1>4, <1>5, <1>6 DEF WorkerStep

\* Every step counts down.
LEMMA NextCountsDown ==
    ASSUME TypeOK, \A i \in Jobs : WithinPlan(i), [Next]_vars
    PROVE  CountsDown /\ \A i \in Jobs : WithinPlan(i)'
<1> USE DEF TypeOK
<1>1. ASSUME NEW i \in Jobs, UNCHANGED <<pc[i], batch[i]>>
      PROVE  WithinPlan(i)' /\ Remaining(i)' <= Remaining(i)
  <2>1. WithinPlan(i)' /\ Remaining(i)' = Remaining(i)
    BY <1>1 DEF WithinPlan, Remaining
  <2>2. Ahead(pc[i]) \in Nat /\ Rounds(pc[i], batch[i]) \in Nat
    BY LeftIsBounded DEF WithinPlan, JobTypeOK
  <2> QED
    BY <2>1, <2>2 DEF Remaining
<1>2. ASSUME NEW i \in Jobs, WorkerStep(i)
      PROVE  Shortens(i)
  BY <1>2, WorkerShortens
<1>3. ASSUME NEW i \in Jobs, Shortens(i)
      PROVE  WithinPlan(i)' /\ Remaining(i)' <= Remaining(i)
  <2>1. Ahead(pc[i]) \in Nat /\ Rounds(pc[i], batch[i]) \in Nat
    BY LeftIsBounded DEF WithinPlan, JobTypeOK
  <2>2. Within(pc'[i], batch'[i]) /\ batch'[i] \in Nat
    BY <1>3, NextJobType DEF Shortens, WithinPlan, JobTypeOK
  <2>3. Ahead(pc'[i]) \in Nat /\ Rounds(pc'[i], batch'[i]) \in Nat
    BY <2>2, LeftIsBounded
  <2> QED
    BY <1>3, <2>1, <2>3 DEF Shortens, Remaining
<1>4. ASSUME NEW i \in Jobs
      PROVE  WithinPlan(i)' /\ Remaining(i)' <= Remaining(i)
  <2>1. CASE WorkerStep(i)
    BY <1>2, <1>3, <2>1
  <2>2. CASE NewStep(i)
    BY <2>2, NewStarts
  <2>3. ASSUME NEW j \in Jobs, i # j, NewStep(j) \/ WorkerStep(j)
        PROVE  WithinPlan(i)' /\ Remaining(i)' <= Remaining(i)
    BY <1>1, <2>3, OthersKeepCount
  <2>4. ASSUME NEW S, Dies(S)
        PROVE  WithinPlan(i)' /\ Remaining(i)' <= Remaining(i)
    <3>1. CASE i \in S /\ pc[i] # "dead"
      <4>1. pc'[i] = "dead" /\ batch'[i] = 0
        BY <2>4, <3>1 DEF Dies, Forget, JobTypeOK
      <4>2. Ahead(pc[i]) \in Nat /\ Rounds(pc[i], batch[i]) \in Nat
        BY LeftIsBounded DEF WithinPlan, JobTypeOK
      <4>3. Ahead(pc'[i]) = 0 /\ Rounds(pc'[i], batch'[i]) = 0
        BY <4>1 DEF Ahead, Rounds
      <4> QED
        BY <4>1, <4>2, <4>3 DEF WithinPlan, Within, Remaining
    <3>2. CASE i \notin S
      BY <1>1, <2>4, <3>2 DEF Dies, Forget, JobTypeOK
    <3>3. CASE pc[i] = "dead"
      <4>1. pc'[i] = "dead"
        BY <2>4, <3>3 DEF Dies, JobTypeOK
      <4>2. Remaining(i) = 0 /\ Remaining(i)' = 0
        BY <3>3, <4>1 DEF Remaining, Ahead, Rounds
      <4> QED
        BY <4>1, <4>2 DEF WithinPlan, Within
    <3> QED
      BY <3>1, <3>2, <3>3
  <2>5. UNCHANGED <<pc, batch>> \/ (\E S : Dies(S)) \/ \E j \in Jobs : NewStep(j) \/ WorkerStep(j)
    BY DEF Next, Heartbeat, CrashStandalone, RequestCancellation, CrashServer, Tick, Restart,
       Reconcile, RecoverLocally, ReconcileRows, vars, locals
  <2> QED
    BY <1>1, <2>1, <2>2, <2>3, <2>4, <2>5
<1> QED
  BY <1>2, <1>4 DEF CountsDown, Shortens

\* A job takes at most 30 + 4 * MaxBatches steps, for any number of jobs and any
\* lease lengths: none goes on for ever, whoever takes its lease away, asks it
\* to stop, or writes over its records. What is left of RecordsClose to the
\* scheduler is that a thread runs at all.
THEOREM WorkRunsOut ==
    Spec => /\ [](\A j \in Jobs : Remaining(j) \in 0 .. 30 + 4 * MaxBatches)
            /\ [][CountsDown]_vars
<1>1. Init => \A i \in Jobs : WithinPlan(i)
  BY DEF Init, WithinPlan, Within
<1>2. TypeOK /\ (\A i \in Jobs : WithinPlan(i)) /\ [Next]_vars =>
        [CountsDown]_vars /\ (\A i \in Jobs : WithinPlan(i))'
  BY NextCountsDown
<1>3. TypeOK /\ (\A i \in Jobs : WithinPlan(i)) =>
        \A j \in Jobs : Remaining(j) \in 0 .. 30 + 4 * MaxBatches
  <2> SUFFICES ASSUME TypeOK, NEW j \in Jobs, WithinPlan(j)
               PROVE  Remaining(j) \in 0 .. 30 + 4 * MaxBatches
    OBVIOUS
  <2>1. Ahead(pc[j]) \in 0 .. 30 /\ Rounds(pc[j], batch[j]) \in 0 .. 4 * MaxBatches
    BY LeftIsBounded DEF TypeOK, JobTypeOK, WithinPlan
  <2> QED
    BY <2>1 DEF Remaining
<1> QED
  BY <1>1, <1>2, <1>3, TypeCorrect, PTL DEF Spec

=============================================================================
