----------------------------- MODULE UpdateJobs -----------------------------
(***************************************************************************)
(* How DistillFeed runs its updates: browser requests that reserve a lease *)
(* and hand it to a worker thread (web.py), scheduled and command-line     *)
(* jobs that take the lease themselves (scheduler.py, cli.py), the workers *)
(* (service.py, and the outline of ai_engine.execute_ai_update), the       *)
(* durable records they keep (operations.py, refresh_runs, ai_jobs), stop  *)
(* requests, crashes, and the two recoveries of db.py.                     *)
(*                                                                         *)
(* A job is one attempt, from the request to the end of its worker.  Its   *)
(* position in the code is pc[j]; each action is the code between two      *)
(* points where another thread or process can change the database.         *)
(***************************************************************************)
EXTENDS JobLocks, FiniteSets

CONSTANTS
    Standalone,      \* jobs run by a process of their own (CLI, systemd timer)
    Kinds,           \* what may be asked for: refresh, summary, arxiv, restore
    ArxivTTL,        \* the lease reserved by /api/arxiv/update, in ticks
    CancelRequests,  \* the sets of names /api/jobs/cancel is called with
    FeedOutcomes,    \* how a feed check that was not stopped can end
    AiOutcomes,      \* how a published AI job can end
    DigestOutcomes,  \* how the arXiv digest stage can end
    MaxBatches,      \* provider requests per AI stage
    Launchers,       \* how the server may be restarted: wsgi, local (launcher.py)
    HostSuspends     \* a live owner may sleep through the end of its lease

Updates == {"refresh", "summary", "arxiv"}

ASSUME JobsAssumption ==
    /\ Standalone \subseteq Jobs
    /\ Kinds \subseteq Updates \cup {"restore"}
    /\ ArxivTTL \in Nat \ {0}
    /\ CancelRequests \subseteq SUBSET (LockNames \ {"maintenance"})
    /\ FeedOutcomes \subseteq {"success", "partial"}
    /\ AiOutcomes \subseteq {"success", "partial", "empty", "failed"}
    /\ DigestOutcomes \subseteq {"success", "failed", "unchanged", "empty", "blocked"}
    /\ MaxBatches \in Nat
    /\ Launchers \subseteq {"wsgi", "local"}
    /\ HostSuspends \in BOOLEAN

VARIABLES
    serverUp,   \* the single web server process is running
    pc,         \* where the job is in the code
    kind,       \* what the job does
    reserved,   \* the job came from the browser and has an operation record
    op,         \* app_operations.state of the job's record
    run,        \* refresh_runs.status of its feed check
    aiJob,      \* ai_jobs.status of its AI update
    result,     \* the status the worker is about to return
    checked,    \* the status of the feed check that an update keeps
    batch,      \* provider requests sent in the current AI stage
    asked       \* history: a stop request was accepted for the job

records == <<op, run, aiJob>>
locals == <<kind, reserved, result, checked, batch>>
vars == <<lockVars, serverUp, pc, locals, records, asked>>

Active == {"queued", "running"}
Terminal == {"success", "partial", "empty", "blocked", "failed", "cancelled"}

\* What run_refresh, run_summary and run_update_summaries return as "status";
\* "error" stands for the exception they raise instead.
Statuses == Terminal \cup {"fresh", "unchanged", "disabled", "running", "error"}

\* Positions at which a heartbeat renews feed-refresh, llm-summary, and (in
\* an update of summaries) summary-update.
FeedPcs == {"r_begin", "r_fetch", "r_record", "r_recheck"}
AiPcs == {"s_stop", "s_plugin", "s_plugged", "s_begin", "s_check", "s_request",
          "s_evaluated", "c_check", "c_request", "c_composed"}
UpdatePcs == {"r_acquire", "r_release", "u_stop", "s_acquire", "s_release"}
             \cup FeedPcs \cup AiPcs
Pcs == {"new", "reserved", "starting", "phase", "enter", "acquire", "u_release",
        "m_work", "m_release", "finish", "failing", "unreserve", "done", "dead"}
       \cup UpdatePcs

JobTypeOK ==
    /\ serverUp \in BOOLEAN
    /\ pc \in [Jobs -> Pcs]
    /\ kind \in [Jobs -> Updates \cup {"restore", "none"}]
    /\ reserved \in [Jobs -> BOOLEAN]
    /\ op \in [Jobs -> Active \cup Terminal \cup {"none"}]
    /\ run \in [Jobs -> Statuses \cup {"none"}]
    /\ aiJob \in [Jobs -> Statuses \cup {"none"}]
    /\ result \in [Jobs -> Statuses \cup {"none"}]
    /\ checked \in [Jobs -> Statuses \cup {"none"}]
    /\ batch \in [Jobs -> Nat]
    /\ asked \in [Jobs -> BOOLEAN]

TypeOK == LockTypeOK /\ JobTypeOK

Init ==
    /\ LockInit
    /\ serverUp = TRUE
    /\ pc = [j \in Jobs |-> "new"]
    /\ kind = [j \in Jobs |-> "none"]
    /\ reserved = [j \in Jobs |-> FALSE]
    /\ op = [j \in Jobs |-> "none"]
    /\ run = [j \in Jobs |-> "none"]
    /\ aiJob = [j \in Jobs |-> "none"]
    /\ result = [j \in Jobs |-> "none"]
    /\ checked = [j \in Jobs |-> "none"]
    /\ batch = [j \in Jobs |-> 0]
    /\ asked = [j \in Jobs |-> FALSE]

\* The lease that a job of kind k works under.
Outer(k) ==
    CASE k = "refresh" -> "feed-refresh"
      [] k = "restore" -> "maintenance"
      [] OTHER -> "summary-update"

Alive(j) == pc[j] \notin {"new", "done", "dead"}

CanRun(j) == j \in Standalone \/ serverUp

Goto(j, label) == pc' = [pc EXCEPT ![j] = label]

Return(j, status) == result' = [result EXCEPT ![j] = status]

\* The jobs of S are over: what their workers knew is gone.
Forget(S) ==
    /\ result' = [j \in Jobs |-> IF j \in S THEN "none" ELSE result[j]]
    /\ checked' = [j \in Jobs |-> IF j \in S THEN "none" ELSE checked[j]]
    /\ batch' = [j \in Jobs |-> IF j \in S THEN 0 ELSE batch[j]]

\* The steps of a worker touch its own locals and records only.
At(j, label) == pc[j] = label /\ UNCHANGED <<serverUp, kind, reserved>>

-----------------------------------------------------------------------------
(***************************************************************************)
(* Requests.  A browser request reserves the lease, records the operation  *)
(* and starts a thread; a scheduled or command-line job goes straight to   *)
(* the worker; a restore takes the maintenance lease and never renews it.  *)
(***************************************************************************)
ReservedTicks(k) == IF k = "arxiv" THEN ArxivTTL ELSE TTL[Outer(k)]

Enrol(j, k, label, fromBrowser) ==
    /\ pc[j] = "new" /\ CanRun(j) /\ k \in Kinds
    /\ Goto(j, label)
    /\ kind' = [kind EXCEPT ![j] = k]
    /\ reserved' = [reserved EXCEPT ![j] = fromBrowser]
    /\ UNCHANGED <<serverUp, result, checked, batch, records, asked>>

Reserve(j, k) ==
    /\ j \notin Standalone /\ k \in Updates
    /\ Enrol(j, k, "reserved", TRUE)
    /\ AcquireLock(Outer(k), j, ReservedTicks(k), TRUE)

StartUnattended(j, k) ==
    /\ k \in {"refresh", "summary"}
    /\ Enrol(j, k, "enter", FALSE)
    /\ UNCHANGED lockVars

StartRestore(j) ==
    /\ Enrol(j, "restore", "m_work", FALSE)
    /\ AcquireLock("maintenance", j, TTL["maintenance"], TRUE)

\* A request that finds any live lease answers 409.
RefuseRequest(j) ==
    /\ pc[j] = "new" /\ CanRun(j)
    /\ RefuseLock("maintenance", TRUE)
    /\ UNCHANGED <<serverUp, pc, locals, records, asked>>

CreateOperation(j) ==
    /\ At(j, "reserved")
    /\ op' = [op EXCEPT ![j] = "queued"]
    /\ Goto(j, "starting")
    /\ UNCHANGED <<lockVars, result, checked, batch, run, aiJob, asked>>

\* The insertion raises: the request ends and nothing releases its lease.
CreateOperationFails(j) ==
    /\ At(j, "reserved")
    /\ Goto(j, "dead")
    /\ UNCHANGED <<lockVars, result, checked, batch, records, asked>>

ThreadFails(j) ==
    /\ At(j, "starting")
    /\ Goto(j, "failing")
    /\ UNCHANGED <<lockVars, result, checked, batch, records, asked>>

\* Mutant: the worker starts whatever became of its record.
StartRegardless(j) ==
    /\ At(j, "starting")
    /\ op' = [op EXCEPT ![j] = "running"]
    /\ Goto(j, "phase")
    /\ UNCHANGED <<lockVars, result, checked, batch, run, aiJob, asked>>

StartOperation(j) ==
    /\ At(j, "starting")
    /\ IF op[j] = "queued"
       THEN op' = [op EXCEPT ![j] = "running"] /\ Goto(j, "phase")
       ELSE Goto(j, "failing") /\ UNCHANGED op
    /\ UNCHANGED <<lockVars, result, checked, batch, run, aiJob, asked>>

SetPhase(j) ==
    /\ At(j, "phase")
    /\ Goto(j, IF op[j] = "running" THEN "enter" ELSE "failing")
    /\ UNCHANGED <<lockVars, result, checked, batch, records, asked>>

-----------------------------------------------------------------------------
(***************************************************************************)
(* The entry of run_refresh and run_update_summaries.                      *)
(***************************************************************************)
FirstStep(j) == IF kind[j] = "refresh" THEN "r_begin" ELSE "r_acquire"

\* A worker whose reservation expired returns "running" and does nothing.
EnterReserved(j) ==
    /\ At(j, "enter") /\ reserved[j]
    /\ IF Owns(j, Outer(kind[j])) /\ Live(Outer(kind[j]))
       THEN Goto(j, FirstStep(j)) /\ UNCHANGED result
       ELSE Goto(j, "finish") /\ Return(j, "running")
    /\ UNCHANGED <<lockVars, checked, batch, records, asked>>

\* The first of the two checks of a worker without a reservation.
EnterUnreserved(j) ==
    /\ At(j, "enter") /\ ~reserved[j]
    /\ IF LiveNames \ {Outer(kind[j]), "maintenance"} # {}
       THEN Goto(j, "done") ELSE Goto(j, "acquire")
    /\ UNCHANGED <<lockVars, result, checked, batch, records, asked>>

AcquireOwn(j) ==
    /\ At(j, "acquire")
    /\ \/ /\ AcquireLock(Outer(kind[j]), j, TTL[Outer(kind[j])], TRUE)
          /\ Goto(j, FirstStep(j))
       \/ /\ RefuseLock(Outer(kind[j]), TRUE)
          /\ Goto(j, "done")
    /\ UNCHANGED <<result, checked, batch, records, asked>>

-----------------------------------------------------------------------------
(***************************************************************************)
(* run_refresh.  Under run_update_summaries it takes the feed-refresh      *)
(* lease as a second, shared one.                                          *)
(***************************************************************************)
RAcquire(j) ==
    /\ At(j, "r_acquire")
    /\ \/ /\ AcquireLock("feed-refresh", j, TTL["feed-refresh"], FALSE)
          /\ Goto(j, "r_begin") /\ UNCHANGED result
       \/ /\ RefuseLock("feed-refresh", FALSE)
          /\ Goto(j, "u_release") /\ Return(j, "running")
    /\ UNCHANGED <<checked, batch, records, asked>>

\* Only an automatic check may find the feeds fresh; a browser update of
\* summaries is never automatic.
RFresh(j) ==
    /\ At(j, "r_begin") /\ (reserved[j] => kind[j] = "refresh")
    /\ Return(j, "fresh") /\ Goto(j, "r_release")
    /\ UNCHANGED <<lockVars, checked, batch, records, asked>>

RBegin(j) ==
    /\ At(j, "r_begin")
    /\ run' = [run EXCEPT ![j] = "running"]
    /\ Goto(j, "r_fetch")
    /\ UNCHANGED <<lockVars, result, checked, batch, op, aiJob, asked>>

\* UPDATE ... WHERE id=? changes nothing when a restore removed the row.
SetStatus(rows, j, status) ==
    [rows EXCEPT ![j] = IF rows[j] = "none" THEN "none" ELSE status]

\* An exception anywhere in the body fails the run and is raised again.
RFail(j) ==
    /\ At(j, "r_fetch")
    /\ run' = SetStatus(run, j, "failed")
    /\ Return(j, "error") /\ Goto(j, "r_release")
    /\ UNCHANGED <<lockVars, checked, batch, op, aiJob, asked>>

\* OPML import, feeds and plugins.  A flag raised before the last of the
\* checks between them leaves the statistics marked as cancelled.
RFetch(j) ==
    /\ At(j, "r_fetch")
    /\ \/ \E status \in FeedOutcomes : Return(j, status)
       \/ CancellationRequested("feed-refresh", j) /\ Return(j, "cancelled")
    /\ Goto(j, "r_record")
    /\ UNCHANGED <<lockVars, checked, batch, records, asked>>

RRecord(j) ==
    /\ At(j, "r_record")
    /\ IF result[j] = "cancelled" \/ CancellationRequested("feed-refresh", j)
       THEN /\ run' = SetStatus(run, j, "cancelled")
            /\ Return(j, "cancelled") /\ Goto(j, "r_release")
       ELSE /\ run' = SetStatus(run, j, result[j])
            /\ Goto(j, "r_recheck") /\ UNCHANGED result
    /\ UNCHANGED <<lockVars, checked, batch, op, aiJob, asked>>

\* Mutant: the late flag changes the answer and not the row.
RecheckAnswerOnly(j) ==
    /\ At(j, "r_recheck")
    /\ IF CancellationRequested("feed-refresh", j)
       THEN Return(j, "cancelled") ELSE UNCHANGED result
    /\ Goto(j, "r_release")
    /\ UNCHANGED <<lockVars, checked, batch, records, asked>>

RRecheck(j) ==
    /\ At(j, "r_recheck")
    /\ IF CancellationRequested("feed-refresh", j)
       THEN run' = SetStatus(run, j, "cancelled") /\ Return(j, "cancelled")
       ELSE UNCHANGED <<run, result>>
    /\ Goto(j, "r_release")
    /\ UNCHANGED <<lockVars, checked, batch, op, aiJob, asked>>

\* A worker has released its own lease: a browser job reports to its
\* operation record, any other returns to its caller.
Report(j) ==
    IF reserved[j]
    THEN /\ Goto(j, IF result[j] = "error" THEN "failing" ELSE "finish")
         /\ UNCHANGED <<result, checked, batch>>
    ELSE Goto(j, "done") /\ Forget({j})

\* run_refresh returns, or raises, to run_update_summaries.
ReturnToUpdate(j) ==
    /\ kind[j] # "refresh"
    /\ Goto(j, IF result[j] \in {"error", "cancelled"} THEN "u_release" ELSE "u_stop")
    /\ UNCHANGED <<result, checked, batch>>

RRelease(j) ==
    /\ At(j, "r_release")
    /\ ReleaseLock("feed-refresh", j)
    /\ \/ kind[j] = "refresh" /\ Report(j)
       \/ ReturnToUpdate(j)
    /\ UNCHANGED <<records, asked>>

-----------------------------------------------------------------------------
(***************************************************************************)
(* run_update_summaries between its two stages: one look at its own flag,  *)
(* then the llm-summary lease, whose flag is the one the AI stage reads.   *)
(***************************************************************************)
UStop(j) ==
    /\ At(j, "u_stop")
    /\ checked' = [checked EXCEPT ![j] = result[j]]
    /\ IF CancellationRequested("summary-update", j)
       THEN Goto(j, "u_release") /\ Return(j, "cancelled")
       ELSE Goto(j, "s_acquire") /\ UNCHANGED result
    /\ UNCHANGED <<lockVars, batch, records, asked>>

SAcquire(j) ==
    /\ At(j, "s_acquire")
    /\ \/ /\ AcquireLock("llm-summary", j, TTL["llm-summary"], FALSE)
          /\ Goto(j, "s_stop") /\ UNCHANGED result
       \/ /\ RefuseLock("llm-summary", FALSE)
          /\ Goto(j, "u_release") /\ Return(j, "running")
    /\ UNCHANGED <<checked, batch, records, asked>>

-----------------------------------------------------------------------------
(***************************************************************************)
(* run_summary: the plugin stage (the arXiv digest), then the ordinary AI  *)
(* update of ai_engine.  A browser summary leaves the plugins out, an      *)
(* arXiv update leaves the ordinary summaries out, an unattended job does  *)
(* both.                                                                   *)
(***************************************************************************)
Stopped(j) == CancellationRequested("llm-summary", j)

WithPlugins(j) == kind[j] = "arxiv" \/ ~reserved[j]
WithOrdinary(j) == kind[j] = "summary"

SStop(j) ==
    /\ At(j, "s_stop")
    /\ IF Stopped(j)
       THEN Goto(j, "s_release") /\ Return(j, "cancelled")
       ELSE /\ Goto(j, IF WithPlugins(j) THEN "s_plugin" ELSE "s_begin")
            /\ UNCHANGED result
    /\ UNCHANGED <<lockVars, checked, batch, records, asked>>

\* The digest stage sends its requests, if announcements are waiting.
SPlugin(j) ==
    /\ At(j, "s_plugin")
    /\ Goto(j, "s_plugged")
    /\ UNCHANGED <<lockVars, result, checked, batch, records, asked>>

SPlugged(j) ==
    /\ At(j, "s_plugged")
    /\ \/ Stopped(j) /\ Goto(j, "s_release") /\ Return(j, "cancelled")
       \/ ~Stopped(j) /\ WithOrdinary(j) /\ Goto(j, "s_begin") /\ UNCHANGED result
       \/ /\ ~Stopped(j) /\ ~WithOrdinary(j) /\ Goto(j, "s_release")
          /\ \E status \in DigestOutcomes : Return(j, status)
    /\ UNCHANGED <<lockVars, checked, batch, records, asked>>

\* The AI is disabled, or its readiness check refuses the plan.
SRefused(j) ==
    /\ At(j, "s_begin")
    /\ \E status \in {"disabled", "blocked"} : Return(j, status)
    /\ Goto(j, "s_release")
    /\ UNCHANGED <<lockVars, checked, batch, records, asked>>

SBegin(j) ==
    /\ At(j, "s_begin")
    /\ aiJob' = [aiJob EXCEPT ![j] = "running"]
    /\ batch' = [batch EXCEPT ![j] = 0]
    /\ Goto(j, "s_check")
    /\ UNCHANGED <<lockVars, result, checked, op, run, asked>>

\* The head of a loop over batches or scopes; the plan fixes their number.
CheckBatch(j, here, send, end) ==
    /\ At(j, here)
    /\ \/ ~Stopped(j) /\ batch[j] < MaxBatches /\ Goto(j, send)
       \/ Goto(j, end)
    /\ UNCHANGED <<lockVars, result, checked, batch, records, asked>>

SendBatch(j, here, back) ==
    /\ At(j, here)
    /\ batch' = [batch EXCEPT ![j] = @ + 1]
    /\ Goto(j, back)
    /\ UNCHANGED <<lockVars, result, checked, records, asked>>

\* A request fails for good: the job fails, and run_summary returns that.
RequestFails(j, here) ==
    /\ At(j, here)
    /\ aiJob' = SetStatus(aiJob, j, "failed")
    /\ Return(j, "failed") /\ Goto(j, "s_release")
    /\ UNCHANGED <<lockVars, checked, batch, op, run, asked>>

EndCancelled(j) ==
    /\ aiJob' = SetStatus(aiJob, j, "cancelled")
    /\ Return(j, "cancelled") /\ Goto(j, "s_release")

Evaluated(j) ==
    /\ At(j, "s_evaluated")
    /\ \/ Stopped(j) /\ EndCancelled(j) /\ UNCHANGED batch
       \/ /\ ~Stopped(j) /\ Goto(j, "c_check")
          /\ batch' = [batch EXCEPT ![j] = 0]
          /\ UNCHANGED <<aiJob, result>>
    /\ UNCHANGED <<lockVars, checked, op, run, asked>>

\* Mutant: the early return leaves the row open.
ComposedOpen(j) ==
    /\ At(j, "c_composed")
    /\ \/ Stopped(j) /\ Return(j, "cancelled") /\ UNCHANGED aiJob
       \/ ~Stopped(j) /\ \E status \in AiOutcomes :
              aiJob' = SetStatus(aiJob, j, status) /\ Return(j, status)
    /\ Goto(j, "s_release")
    /\ UNCHANGED <<lockVars, checked, batch, op, run, asked>>

Composed(j) ==
    /\ At(j, "c_composed")
    /\ \/ Stopped(j) /\ EndCancelled(j)
       \/ /\ ~Stopped(j) /\ Goto(j, "s_release")
          /\ \E status \in AiOutcomes :
                aiJob' = SetStatus(aiJob, j, status) /\ Return(j, status)
    /\ UNCHANGED <<lockVars, checked, batch, op, run, asked>>

EvaluationStage(j) ==
    \/ CheckBatch(j, "s_check", "s_request", "s_evaluated")
    \/ SendBatch(j, "s_request", "s_check")
    \/ RequestFails(j, "s_request")
    \/ Evaluated(j)

CompositionStage(j) ==
    \/ CheckBatch(j, "c_check", "c_request", "c_composed")
    \/ SendBatch(j, "c_request", "c_check")
    \/ RequestFails(j, "c_request")
    \/ Composed(j)

\* Mutant: the answer of the AI stage replaces that of the feed check.
CombinedLast(check, status) ==
    IF status \in {"empty", "disabled"} /\ check \in {"success", "partial"}
    THEN check ELSE status

\* The status of an update, from that of its feed check and its AI stage.
Combined(check, status) ==
    LET kept == IF status \in {"empty", "disabled"} /\ check \in {"success", "partial"}
                THEN check ELSE status
    IN  IF check = "partial" /\ kept \in {"success", "empty"} THEN "partial" ELSE kept

SRelease(j) ==
    /\ At(j, "s_release")
    /\ ReleaseLock("llm-summary", j)
    /\ Return(j, Combined(checked[j], result[j]))
    /\ Goto(j, "u_release")
    /\ UNCHANGED <<checked, batch, records, asked>>

URelease(j) ==
    /\ At(j, "u_release")
    /\ ReleaseLock("summary-update", j)
    /\ Report(j)
    /\ UNCHANGED <<records, asked>>

-----------------------------------------------------------------------------
(***************************************************************************)
(* The end of _finish_reserved_operation, and the restore.                 *)
(***************************************************************************)
\* operations._terminal_state
TerminalState(status) ==
    CASE status \in {"success", "fresh", "unchanged"} -> "success"
      [] status \in {"partial", "empty", "cancelled"} -> status
      [] status \in {"blocked", "disabled"} -> "blocked"
      [] OTHER -> "failed"

\* Mutant: a result is written over whatever the record says.
FinishOver(j) ==
    /\ At(j, "finish")
    /\ op' = [op EXCEPT ![j] = TerminalState(result[j])]
    /\ Goto(j, "unreserve")
    /\ UNCHANGED <<lockVars, result, checked, batch, run, aiJob, asked>>

\* finish_operation raises unless the record is running.
Finish(j) ==
    /\ At(j, "finish")
    /\ IF op[j] = "running"
       THEN op' = [op EXCEPT ![j] = TerminalState(result[j])] /\ Goto(j, "unreserve")
       ELSE Goto(j, "failing") /\ UNCHANGED op
    /\ UNCHANGED <<lockVars, result, checked, batch, run, aiJob, asked>>

\* fail_operation leaves a terminal or missing record alone.
FailOperation(j) ==
    /\ At(j, "failing")
    /\ op' = [op EXCEPT ![j] = IF @ \in Active THEN "failed" ELSE @]
    /\ Goto(j, "unreserve")
    /\ UNCHANGED <<lockVars, result, checked, batch, run, aiJob, asked>>

Unreserve(j) ==
    /\ At(j, "unreserve")
    /\ ReleaseLock(Outer(kind[j]), j)
    /\ Goto(j, "done") /\ Forget({j})
    /\ UNCHANGED <<records, asked>>

\* The archive is refused, or rolled back after an error.
RestoreRefused(j) ==
    /\ At(j, "m_work")
    /\ Goto(j, "m_release")
    /\ UNCHANGED <<lockVars, result, checked, batch, records, asked>>

\* The database is replaced by a backup that predates these jobs, with the
\* live maintenance row copied into it.
RestoreReplaces(j) ==
    /\ At(j, "m_work")
    /\ KeepOnly({"maintenance"})
    /\ op' = [i \in Jobs |-> "none"]
    /\ run' = [i \in Jobs |-> "none"]
    /\ aiJob' = [i \in Jobs |-> "none"]
    /\ Goto(j, "m_release")
    /\ UNCHANGED <<result, checked, batch, asked>>

RestoreEnds(j) ==
    /\ At(j, "m_release")
    /\ ReleaseLock("maintenance", j)
    /\ Goto(j, "done")
    /\ UNCHANGED <<result, checked, batch, records, asked>>

-----------------------------------------------------------------------------
(***************************************************************************)
(* Heartbeats, stop requests, crashes and the passing of time.             *)
(***************************************************************************)
\* The leases that a heartbeat thread of job j renews.
Renewed(j) ==
    {n \in LockNames :
        \/ n = "feed-refresh" /\ pc[j] \in FeedPcs
        \/ n = "llm-summary" /\ pc[j] \in AiPcs
        \/ n = "summary-update" /\ kind[j] # "refresh" /\ pc[j] \in UpdatePcs}

Heartbeat(j) ==
    /\ \E n \in Renewed(j) : left[n] # TTL[n] /\ RenewLock(n, j)
    /\ UNCHANGED <<serverUp, pc, locals, records, asked>>

\* POST /api/jobs/cancel
RequestCancellation(names) ==
    /\ serverUp
    /\ FlagRows(names)
    /\ asked' = [j \in Jobs |-> asked[j] \/ \E n \in Flagged(names) : Owns(j, n)]
    /\ UNCHANGED <<serverUp, pc, locals, records>>

Dies(S) ==
    /\ pc' = [j \in Jobs |-> IF j \in S THEN "dead" ELSE pc[j]]
    /\ Forget(S)
    /\ UNCHANGED <<lockVars, kind, reserved, records, asked>>

CrashServer ==
    /\ serverUp /\ serverUp' = FALSE
    /\ Dies({j \in Jobs \ Standalone : Alive(j)})

CrashStandalone(j) ==
    /\ j \in Standalone /\ Alive(j)
    /\ Dies({j}) /\ UNCHANGED serverUp

\* An hour passes.  Unless the host suspends, no live owner is so slow that
\* the hour ends its lease: heartbeats come every 30 seconds, and a thread
\* starts, or a restore ends, within the lease it was given.
Tick ==
    /\ LiveNames # {}
    /\ ~HostSuspends => \A n \in LiveNames : Alive(holder[n]) => left[n] > 1
    /\ Elapse
    /\ UNCHANGED <<serverUp, pc, locals, records, asked>>

-----------------------------------------------------------------------------
(***************************************************************************)
(* Recovery.  reconcile_interrupted_state runs in every initialize(), so   *)
(* at any moment a command-line process may call it.  It fails the open    *)
(* rows whose lease is gone and that are older than a grace of minutes;    *)
(* which rows are that old is a choice.                                    *)
(***************************************************************************)
\* Mutant: the record of a job is an orphan whether or not it has a lease.
OrphanAnyway(j) == op[j] \in Active

\* Mutant: only the records of workers that started are looked at.
OrphanRunning(j) ==
    /\ op[j] = "running"
    /\ ~(Owns(j, Outer(kind[j])) /\ Live(Outer(kind[j])))

OrphanOp(j) ==
    /\ op[j] \in Active
    /\ ~(Owns(j, Outer(kind[j])) /\ Live(Outer(kind[j])))

Orphans ==
    {<<"op", j>> : j \in {i \in Jobs : OrphanOp(i)}}
    \cup {<<"run", j>> : j \in {i \in Jobs : run[i] = "running" /\ ~Live("feed-refresh")}}
    \cup {<<"aiJob", j>> : j \in {i \in Jobs : aiJob[i] = "running"
                                /\ ~Live("llm-summary") /\ ~Live("summary-update")}}

FailRows(rows) ==
    /\ op' = [j \in Jobs |-> IF <<"op", j>> \in rows THEN "failed" ELSE op[j]]
    /\ run' = [j \in Jobs |-> IF <<"run", j>> \in rows THEN "failed" ELSE run[j]]
    /\ aiJob' = [j \in Jobs |-> IF <<"aiJob", j>> \in rows THEN "failed" ELSE aiJob[j]]

ReconcileRows(aged) ==
    /\ DeleteExpired
    /\ FailRows(aged)
    /\ UNCHANGED <<pc, locals, asked>>

Reconcile ==
    /\ \E aged \in SUBSET Orphans : ReconcileRows(aged)
    /\ UNCHANGED serverUp

\* A run of initialize() that finds every orphan past its grace.
ReconcileAll == ReconcileRows(Orphans) /\ UNCHANGED serverUp

OpenRows ==
    {<<"op", j>> : j \in {i \in Jobs : op[i] \in Active}}
    \cup {<<"run", j>> : j \in {i \in Jobs : run[i] = "running"}}
    \cup {<<"aiJob", j>> : j \in {i \in Jobs : aiJob[i] = "running"}}

\* launcher.py holds an operating-system lock and takes every lease for dead.
RecoverLocally ==
    /\ KeepOnly({})
    /\ FailRows(OpenRows)
    /\ UNCHANGED <<pc, locals, asked>>

Restart ==
    /\ ~serverUp /\ serverUp' = TRUE
    /\ \/ "local" \in Launchers /\ RecoverLocally
       \/ "wsgi" \in Launchers /\ \E aged \in SUBSET Orphans : ReconcileRows(aged)

-----------------------------------------------------------------------------
RequestStep(j) ==
    \/ CreateOperation(j) \/ CreateOperationFails(j) \/ ThreadFails(j)
    \/ StartOperation(j) \/ SetPhase(j)
    \/ EnterReserved(j) \/ EnterUnreserved(j) \/ AcquireOwn(j)

RefreshStep(j) ==
    \/ RAcquire(j) \/ RFresh(j) \/ RBegin(j) \/ RFail(j) \/ RFetch(j)
    \/ RRecord(j) \/ RRecheck(j) \/ RRelease(j)

SummaryStep(j) ==
    \/ UStop(j) \/ SAcquire(j) \/ SStop(j) \/ SPlugin(j) \/ SPlugged(j)
    \/ SRefused(j) \/ SBegin(j) \/ EvaluationStage(j) \/ CompositionStage(j)
    \/ SRelease(j) \/ URelease(j)

EndStep(j) ==
    \/ Finish(j) \/ FailOperation(j) \/ Unreserve(j)
    \/ RestoreRefused(j) \/ RestoreReplaces(j) \/ RestoreEnds(j)

WorkerStep(j) == RequestStep(j) \/ RefreshStep(j) \/ SummaryStep(j) \/ EndStep(j)

NewStep(j) ==
    \/ \E k \in Kinds : Reserve(j, k) \/ StartUnattended(j, k)
    \/ StartRestore(j) \/ RefuseRequest(j)

Next ==
    \/ \E j \in Jobs : NewStep(j) \/ WorkerStep(j) \/ Heartbeat(j) \/ CrashStandalone(j)
    \/ \E names \in CancelRequests : RequestCancellation(names)
    \/ CrashServer \/ Restart \/ Reconcile \/ Tick

Spec == Init /\ [][Next]_vars

\* Threads run, hours pass, a dead server is restarted, and initialize() is
\* called again and again (deployment/rssreader-refresh.timer does it every
\* 30 minutes).  Nobody need ask for anything, and no heartbeat need come.
Fairness ==
    /\ \A j \in Jobs : WF_vars(WorkerStep(j))
    /\ WF_vars(Tick) /\ WF_vars(Restart) /\ WF_vars(ReconcileAll)

FairSpec == Spec /\ Fairness

-----------------------------------------------------------------------------
\* Positions where a job reads feeds, sends to the AI provider or replaces
\* the database.
Working(j) == pc[j] \in FeedPcs \cup AiPcs \cup {"m_work"}

\* No two jobs work at once: the leases serialise feed checks, AI updates and
\* restores across threads and processes (the exclusive mode of acquire_lock).
Exclusion == \A i, j \in Jobs : Working(i) /\ Working(j) => i = j

\* A browser job that works has a running record: its page never shows a
\* record that somebody closed, or nothing at all, while the job is at work.
WorkingRecordRuns ==
    \A j \in Jobs : Working(j) /\ reserved[j] => op[j] = "running"

\* A job that ended left no lease behind, and none of its three records open.
\* Two ways out of execute_ai_update are no paths of this module and would leave
\* ai_jobs open: an exception between the insertion of that row and the `try`,
\* and one in the statement that closes it (ai_engine.py 535-536, 679).
\* ReviewQueue has both.
NothingLeftBehind ==
    \A j \in Jobs : pc[j] = "done" =>
        /\ \A n \in LockNames : ~Owns(j, n)
        /\ op[j] \notin Active /\ run[j] # "running" /\ aiJob[j] # "running"

\* A job answers "cancelled" only if a stop request was accepted for it.
CancelledWasAsked ==
    \A j \in Jobs : result[j] = "cancelled" \/ op[j] = "cancelled" => asked[j]

\* The record of a feed check and its row in refresh_runs agree: a check that
\* reports success, or a stop, has the row that says so.
RunAgrees ==
    \A j \in Jobs : kind[j] = "refresh" /\ op[j] \in {"success", "partial", "cancelled"} =>
        \/ run[j] = op[j]
        \/ run[j] = "none" /\ op[j] = "success"

\* An update of ordinary summaries does not report success when some of its
\* feeds failed, whatever its AI stage says (the statuses that
\* run_update_summaries combines).
FailedFeedsShow ==
    \A j \in Jobs : kind[j] = "summary" /\ op[j] = "success" => run[j] # "partial"

\* What an operation answers is what its refresh_runs row recorded of the feeds:
\* a feed check reports the outcome of its row, and a check of feeds and
\* summaries does not turn failed feeds into a success.
AnswersShowFeeds == RunAgrees /\ FailedFeedsShow

-----------------------------------------------------------------------------
\* No operation reports success when some of its feeds failed: "Never let a
\* successful AI stage hide feeds that failed during the same user operation"
\* (run_update_summaries), with the arXiv update included.
FailedFeedsAlwaysShow ==
    \A j \in Jobs : op[j] = "success" => run[j] # "partial"

\* A worker decides to send one more request to the AI provider.
Decides(j) == pc[j] \notin {"s_plugin", "s_request", "c_request"}
              /\ pc'[j] \in {"s_plugin", "s_request", "c_request"}

\* The answer to /api/jobs/cancel: the job stops after the current request,
\* so no worker that was asked to stop decides to send another one.
StopHonoured == [][\A j \in Jobs : asked[j] => ~Decides(j)]_vars

\* The worker's own result is the one its record shows: nobody else concluded
\* the operation of a worker that lived to report.
ExactTerminalResult ==
    \A j \in Jobs : pc[j] = "unreserve" /\ result[j] \notin {"none", "error"} =>
        op[j] = TerminalState(result[j])

\* A live lease of a living job disappears only by that job's own hand.
LiveLeaseEndsByOwner ==
    [][\A j \in Jobs, n \in LockNames :
          Owns(j, n) /\ left[n] > 0 /\ Alive(j) /\ ~(holder'[n] = j)
              => pc'[j] # pc[j]]_vars

\* A lease that ran out never comes back: its owner owns the name again only
\* by acquiring it anew, from a position where the code does so.
LapsedStaysLapsed ==
    [][\A j \in Jobs, n \in LockNames :
          Owns(j, n) /\ left[n] = 0 /\ holder'[n] = j /\ left'[n] > 0
              => pc'[j] # pc[j]]_vars

\* A closed operation record keeps its answer until a restore removes it: no
\* worker that wakes up late, and no recovery, writes over it.
ClosedStaysClosed ==
    [][\A j \in Jobs : op[j] \in Terminal => op'[j] \in {op[j], "none"}]_vars

\* A record that was opened, be it the operation, its feed check or its AI
\* job, is eventually closed, or removed by a restore, whoever crashes.
Open(j) == op[j] \in Active \/ run[j] = "running" \/ aiJob[j] = "running"

RecordsClose == \A j \in Jobs : Open(j) ~> ~Open(j)

\* The coordination implements UpdateTurn: the turn is the owner of the live
\* leases, the records are the operation records, the dead are gone.
turn == IF LiveNames = {} THEN None
        ELSE CHOOSE j \in Jobs : \E n \in LiveNames : Owns(j, n)

gone == {j \in Jobs : pc[j] = "dead"}

Turns == INSTANCE UpdateTurn WITH record <- op

TakesTurns == Turns!TurnSpec

-----------------------------------------------------------------------------
(***************************************************************************)
(* The leases that a job at its position relies on.                        *)
(***************************************************************************)
ReservedPcs == {"reserved", "starting", "phase", "enter"}

Needed(j) ==
    {n \in LockNames :
        \/ n \in Renewed(j)
        \/ n = "maintenance" /\ pc[j] = "m_work"
        \/ n = Outer(kind[j]) /\ reserved[j] /\ pc[j] \in ReservedPcs}

Holds(j) == \A n \in Needed(j) : Owns(j, n) /\ Live(n)

\* Two jobs are at work at once only if one of them has lost a lease: on every
\* host, also one that slept, and with every launcher, also beside a job that
\* a local restart has robbed, the leases let no second job in by themselves.
HoldersExclude ==
    \A i, j \in Jobs : Working(i) /\ Working(j) /\ Holds(i) /\ Holds(j) => i = j

(***************************************************************************)
(* The inductive invariant behind Exclusion and WorkingRecordRuns: a job   *)
(* holds, live, every lease it relies on, and all the live rows of the     *)
(* table have one owner.                                                   *)
(***************************************************************************)
LeasesHeld == \A j \in Jobs : Holds(j)

OneOwner == \A m, n \in LiveNames : holder[m] = holder[n]

\* No thread of a server that is down is alive.
DownMeansDead == \A j \in Jobs \ Standalone : Alive(j) => serverUp

\* The positions that only some kinds of job reach.
SharedPcs == {"r_release"} \cup FeedPcs
KindFits ==
    \A j \in Jobs :
        /\ pc[j] \in SharedPcs => kind[j] \in Updates
        /\ pc[j] \in (UpdatePcs \cup {"u_release"}) \ SharedPcs => kind[j] \in Updates \ {"refresh"}
        /\ pc[j] \in {"m_work", "m_release"} => kind[j] = "restore"
        /\ pc[j] \in ReservedPcs \cup {"acquire"} => kind[j] \in Updates
        /\ pc[j] \in {"acquire", "m_work"} => ~reserved[j]

RecordFits ==
    \A j \in Jobs : reserved[j] /\ Outer(kind[j]) \in Needed(j) /\ pc[j] # "reserved" =>
        op[j] = IF pc[j] = "starting" THEN "queued" ELSE "running"

LeaseInv == LeasesHeld /\ OneOwner /\ DownMeansDead /\ KindFits /\ RecordFits
=============================================================================
