----------------------------- MODULE ReviewQueue -----------------------------
(***************************************************************************)
(* The AI review queue: which feed entries wait for an evaluation, which   *)
(* one request to the AI provider has claimed, and which are evaluated.    *)
(* It puts the steps of ai_engine.execute_ai_update beside everything else *)
(* that writes the same rows without holding a lease: the AI page (every   *)
(* visit runs sync_review_queue), the baseline of a backlog, exclusions,   *)
(* the deletion of feeds, and the two recoveries of db.py.                 *)
(*                                                                         *)
(* SQLite runs in autocommit mode, so the five statements of               *)
(* sync_review_queue are five steps; a claim, an answer and a failure are  *)
(* one transaction each.  A worker is one execution of execute_ai_update,  *)
(* and its n-th request the row <<worker, n>> of llm_runs.  Which ready    *)
(* entries a plan selects is a choice, and so is the outcome of the        *)
(* compositions, which are one step.  The lease is llm-summary, as         *)
(* UpdateJobs grants it.                                                   *)
(***************************************************************************)
EXTENDS Naturals, FiniteSets

CONSTANTS
    Items,        \* the ids that entries may have; a deleted one may return
    Workers,      \* the executions of execute_ai_update
    Pages,        \* callers of sync_review_queue that hold no AI lease
    None,         \* no run, no worker
    Automatic,    \* the workers that the scheduler started
    MaxBatch,     \* entries per request
    MaxRequests,  \* requests per worker, and entries per plan
    Edits         \* what users do beside the jobs

Runs == Workers \X (1 .. MaxRequests)

ASSUME QueueAssumption ==
    /\ None \notin Workers \cup Runs
    /\ Workers \cap (Workers \X (0 .. MaxRequests)) = {}
    /\ Workers \cap Pages = {}
    /\ Automatic \subseteq Workers
    /\ MaxBatch \in Nat \ {0} /\ MaxRequests \in Nat \ {0}
    /\ Edits \subseteq {"delete", "exclude", "baseline"}

Callers == Workers \cup Pages

VARIABLES
    stored,     \* the entries in the items table
    eligible,   \* items.summary_eligible
    excluded,   \* ai_item_preferences.disposition = 'excluded'
    row,        \* ai_review_queue.state
    claim,      \* ai_review_queue.claimed_run_id
    old,        \* the claim is more than two hours old (updated_at)
    delayed,    \* available_at lies in the future
    current,    \* the run of the current row in ai_evaluations
    run,        \* llm_runs.status
    job,        \* ai_jobs.status of a worker
    lease,      \* the worker that owns llm-summary
    lapsed,     \* some live job has outlived its lease or its claim
    unclosed,   \* history: runs, and workers whose job, an exception left open
    pc,         \* where a worker is in the code
    statement,  \* the statement of sync_review_queue a caller executes next
    todo,       \* entries of the plan that no request has taken yet
    batch,      \* entries of the request at hand
    requests,   \* requests started
    outcomes    \* what became of the batches so far

itemVars == <<stored, eligible, excluded>>
queueVars == <<row, claim, old, delayed>>
recordVars == <<current, run, job>>
pastVars == <<lapsed, unclosed>>
leaseVars == <<lease, pastVars>>
planVars == <<todo, batch, requests, outcomes>>
workerVars == <<pc, statement, planVars>>
vars == <<itemVars, queueVars, recordVars, leaseVars, workerVars>>

RowStates == {"none", "waiting", "retry", "processing", "reviewed", "archived"}
JobStates == {"none", "running", "success", "partial", "empty", "failed", "cancelled"}
Pcs == {"new", "sync", "loop", "claim", "asked", "compose", "raise", "end", "done", "dead"}

TypeOK ==
    /\ stored \subseteq Items
    /\ eligible \in [Items -> BOOLEAN]
    /\ excluded \in [Items -> BOOLEAN]
    /\ row \in [Items -> RowStates]
    /\ claim \in [Items -> Runs \cup {None}]
    /\ old \in [Items -> BOOLEAN]
    /\ delayed \in [Items -> BOOLEAN]
    /\ current \in [Items -> Runs \cup {None}]
    /\ run \in [Runs -> {"none", "running", "success", "failed"}]
    /\ job \in [Workers -> JobStates]
    /\ lease \in Workers \cup {None}
    /\ lapsed \in BOOLEAN
    /\ unclosed \subseteq Runs \cup Workers
    /\ pc \in [Workers -> Pcs]
    /\ statement \in [Callers -> 0 .. 5]
    /\ todo \in [Workers -> SUBSET Items]
    /\ batch \in [Workers -> SUBSET Items]
    /\ requests \in [Workers -> 0 .. MaxRequests]
    /\ \A w \in Workers : pc[w] \in {"claim", "asked"} => requests[w] > 0
    /\ outcomes \in [Workers -> SUBSET {"answered", "failed"}]

Init ==
    /\ stored = {}
    /\ eligible = [i \in Items |-> TRUE]
    /\ excluded = [i \in Items |-> FALSE]
    /\ row = [i \in Items |-> "none"]
    /\ claim = [i \in Items |-> None]
    /\ old = [i \in Items |-> FALSE]
    /\ delayed = [i \in Items |-> FALSE]
    /\ current = [i \in Items |-> None]
    /\ run = [r \in Runs |-> "none"]
    /\ job = [w \in Workers |-> "none"]
    /\ lease = None
    /\ lapsed = FALSE
    /\ unclosed = {}
    /\ pc = [w \in Workers |-> "new"]
    /\ statement = [c \in Callers |-> 0]
    /\ todo = [w \in Workers |-> {}]
    /\ batch = [w \in Workers |-> {}]
    /\ requests = [w \in Workers |-> 0]
    /\ outcomes = [w \in Workers |-> {}]

ThisRun(w) == <<w, requests[w]>>

Alive(w) == pc[w] \notin {"new", "done", "dead"}

\* An entry with a current evaluation by a request that succeeded.
Evaluated(i) == current[i] # None /\ run[current[i]] = "success"

Goto(w, label) == pc' = [pc EXCEPT ![w] = label]

\* The lists of the call end with it.
Forget(w) ==
    /\ todo' = [todo EXCEPT ![w] = {}] /\ batch' = [batch EXCEPT ![w] = {}]
    /\ outcomes' = [outcomes EXCEPT ![w] = {}]

\* The rows of S change to a state that carries neither claim nor delay.
Move(S, state) ==
    /\ row' = [i \in Items |-> IF i \in S THEN state ELSE row[i]]
    /\ claim' = [i \in Items |-> IF i \in S THEN None ELSE claim[i]]
    /\ old' = [i \in Items |-> i \notin S /\ old[i]]
    /\ delayed' = [i \in Items |-> i \notin S /\ delayed[i]]

-----------------------------------------------------------------------------
(***************************************************************************)
(* The entries: a feed check inserts them under a lease that excludes the  *)
(* AI stage, unless its lease has lapsed; a feed, a group or an old entry  *)
(* is deleted at any time, with all that refers to its entries (ON DELETE  *)
(* CASCADE).  SQLite may give the id of a deleted entry to a new one.      *)
(***************************************************************************)
Discover(i) ==
    /\ i \notin stored
    /\ stored' = stored \cup {i}
    /\ lapsed' = (lapsed \/ lease # None)
    /\ UNCHANGED <<eligible, excluded, queueVars, recordVars, lease, unclosed, workerVars>>

Delete(S) ==
    /\ "delete" \in Edits
    /\ S # {} /\ S \subseteq stored
    /\ stored' = stored \ S
    /\ Move(S, "none")
    /\ current' = [i \in Items |-> IF i \in S THEN None ELSE current[i]]
    /\ eligible' = [i \in Items |-> i \in S \/ eligible[i]]
    /\ excluded' = [i \in Items |-> i \notin S /\ excluded[i]]
    /\ UNCHANGED <<run, job, leaseVars, workerVars>>

\* set_item_disposition
SetDisposition(i) ==
    /\ "exclude" \in Edits /\ i \in stored
    /\ excluded' = [excluded EXCEPT ![i] = ~@]
    /\ UNCHANGED <<stored, eligible, queueVars, recordVars, leaseVars, workerVars>>

-----------------------------------------------------------------------------
(***************************************************************************)
(* sync_review_queue, one statement at a time, and who calls it: workers,  *)
(* the AI page, the end of a feed check, the baseline.                     *)
(***************************************************************************)
Unqueued == {i \in stored : row[i] = "none"}

ReviewedRows == {i \in stored : row[i] \notin {"none", "reviewed"} /\ Evaluated(i)}

\* Mutant: the third statement forgets that a claimed row is taken.
ArchivedRowsTaken == {i \in stored : row[i] \notin {"none", "reviewed"} /\ ~eligible[i]}
ArchivedRows == {i \in stored : row[i] \in {"waiting", "retry", "archived"} /\ ~eligible[i]}

WaitingRows == {i \in stored : row[i] = "archived" /\ eligible[i] /\ ~Evaluated(i)}

\* Mutant: no statement returns abandoned claims.
StaleRowsNever == {}
StaleRows == {i \in stored : row[i] = "processing" /\ old[i]}

InsertRows ==
    /\ row' = [i \in Items |-> IF i \notin Unqueued THEN row[i]
                               ELSE IF eligible[i] THEN "waiting" ELSE "archived"]
    /\ UNCHANGED <<claim, old, delayed>>

Execute(k) ==
    \/ k = 1 /\ InsertRows
    \/ k = 2 /\ Move(ReviewedRows, "reviewed")
    \/ k = 3 /\ Move(ArchivedRows, "archived")
    \/ k = 4 /\ Move(WaitingRows, "waiting")
    \/ k = 5 /\ Move(StaleRows, "retry")

\* Mutant: the last statement runs again and again.
SyncStatementSix(c) ==
    /\ statement[c] > 0
    /\ Execute(statement[c])
    /\ statement' = [statement EXCEPT ![c] = @ + 1]
    /\ UNCHANGED <<itemVars, recordVars, leaseVars, pc, planVars>>
SyncStatement(c) ==
    /\ statement[c] > 0
    /\ Execute(statement[c])
    /\ statement' = [statement EXCEPT ![c] = IF @ = 5 THEN 0 ELSE @ + 1]
    /\ UNCHANGED <<itemVars, recordVars, leaseVars, pc, planVars>>

\* A GET of the AI page, or the end of a feed check.
OpenPage(p) ==
    /\ statement[p] = 0
    /\ statement' = [statement EXCEPT ![p] = 1]
    /\ UNCHANGED <<itemVars, queueVars, recordVars, leaseVars, pc, planVars>>

\* baseline_backlog: entries without an evaluation leave the backlog.
Baseline(p, S) ==
    /\ "baseline" \in Edits /\ statement[p] = 0
    /\ S # {} /\ S \subseteq {i \in stored : eligible[i] /\ current[i] = None}
    /\ eligible' = [i \in Items |-> i \notin S /\ eligible[i]]
    /\ statement' = [statement EXCEPT ![p] = 1]
    /\ UNCHANGED <<stored, excluded, queueVars, recordVars, leaseVars, pc, planVars>>

\* baseline --restore, for entries that no summary shows; it does not sync.
RestoreBaseline(S) ==
    /\ S # {} /\ S \subseteq {i \in stored : ~eligible[i]}
    /\ eligible' = [i \in Items |-> i \in S \/ eligible[i]]
    /\ UNCHANGED <<stored, excluded, queueVars, recordVars, leaseVars, workerVars>>

-----------------------------------------------------------------------------
(***************************************************************************)
(* execute_ai_update.                                                      *)
(***************************************************************************)
Start(w) ==
    /\ pc[w] = "new" /\ lease = None
    /\ lease' = w
    /\ Goto(w, "sync")
    /\ statement' = [statement EXCEPT ![w] = 1]
    /\ UNCHANGED <<itemVars, queueVars, recordVars, pastVars, planVars>>

\* What build_plan may select; MaxRequests is also its maximum_items.
Ready == {i \in stored : row[i] \in {"waiting", "retry"} /\ ~excluded[i] /\ ~delayed[i]}

Plan(w, S) ==
    /\ pc[w] = "sync" /\ statement[w] = 0
    /\ S \subseteq Ready /\ Cardinality(S) <= MaxRequests
    /\ todo' = [todo EXCEPT ![w] = S]
    /\ job' = [job EXCEPT ![w] = "running"]
    /\ Goto(w, "loop")
    /\ UNCHANGED <<itemVars, queueVars, current, run, leaseVars, statement, batch, requests, outcomes>>

\* The readiness check refuses the plan, or what comes before it raises an
\* exception; no row of ai_jobs is written.
Blocked(w) ==
    /\ pc[w] = "sync"
    /\ Goto(w, "end")
    /\ statement' = [statement EXCEPT ![w] = 0]
    /\ UNCHANGED <<itemVars, queueVars, recordVars, leaseVars, planVars>>

\* An exception between the row of the job and the `try`: nobody closes it.
PlanFails(w) ==
    /\ pc[w] = "sync" /\ statement[w] = 0
    /\ job' = [job EXCEPT ![w] = "running"]
    /\ unclosed' = unclosed \cup {w}
    /\ Goto(w, "end")
    /\ UNCHANGED <<itemVars, queueVars, current, run, lease, lapsed, statement, planVars>>

\* _start_provider_run commits before the claim.
StartBatch(w, B) ==
    /\ pc[w] = "loop" /\ requests[w] < MaxRequests
    /\ B # {} /\ B \subseteq todo[w] /\ Cardinality(B) <= MaxBatch
    /\ todo' = [todo EXCEPT ![w] = @ \ B]
    /\ batch' = [batch EXCEPT ![w] = B]
    /\ requests' = [requests EXCEPT ![w] = @ + 1]
    /\ run' = [run EXCEPT ![<<w, requests[w] + 1>>] = "running"]
    /\ Goto(w, "claim")
    /\ UNCHANGED <<itemVars, queueVars, current, job, leaseVars, statement, outcomes>>

\* What mark_processing claims.
\* Mutant: the claim trusts the plan and does not look at exclusions again.
ClaimableTrusting(B) == {i \in B \cap stored : row[i] \in {"waiting", "retry"}}
Claimable(B) == {i \in B \cap stored : row[i] \in {"waiting", "retry"} /\ ~excluded[i]}

\* The batch shrinks to what the claim got; an empty one costs no request.
Claim(w) ==
    /\ pc[w] = "claim"
    /\ LET got == Claimable(batch[w]) IN
        /\ row' = [i \in Items |-> IF i \in got THEN "processing" ELSE row[i]]
        /\ claim' = [i \in Items |-> IF i \in got THEN ThisRun(w) ELSE claim[i]]
        /\ old' = [i \in Items |-> i \notin got /\ old[i]]
        /\ delayed' = [i \in Items |-> i \notin got /\ delayed[i]]
        /\ batch' = [batch EXCEPT ![w] = got]
        /\ run' = [run EXCEPT ![ThisRun(w)] = IF got = {} THEN "success" ELSE @]
        /\ Goto(w, IF got = {} THEN "loop" ELSE "asked")
    /\ UNCHANGED <<itemVars, current, job, leaseVars, statement, todo, requests, outcomes>>

\* evaluated_ids and failed_batches, as far as the verdict looks at them.
\* Mutant: a failed batch is not remembered.
RememberAnswers(w, outcome) ==
    IF outcome = "failed" THEN outcomes ELSE [outcomes EXCEPT ![w] = @ \cup {outcome}]
Remember(w, outcome) == [outcomes EXCEPT ![w] = @ \cup {outcome}]

\* Evaluations, queue rows and run in one transaction; mark_reviewed does
\* not look at the claim.  An evaluation of a deleted entry would violate
\* its foreign key, and the whole batch fails.
Answer(w) ==
    /\ pc[w] = "asked" /\ batch[w] \subseteq stored
    /\ LET done == {i \in batch[w] : row[i] # "none"} IN
        /\ row' = [i \in Items |-> IF i \in done THEN "reviewed" ELSE row[i]]
        /\ claim' = [i \in Items |-> IF i \in done THEN ThisRun(w) ELSE claim[i]]
        /\ old' = [i \in Items |-> i \notin done /\ old[i]]
        /\ delayed' = [i \in Items |-> i \notin done /\ delayed[i]]
    /\ current' = [i \in Items |-> IF i \in batch[w] THEN ThisRun(w) ELSE current[i]]
    /\ run' = [run EXCEPT ![ThisRun(w)] = "success"]
    /\ outcomes' = Remember(w, "answered")
    /\ batch' = [batch EXCEPT ![w] = {}]
    /\ Goto(w, "loop")
    /\ UNCHANGED <<itemVars, job, leaseVars, statement, todo, requests>>

\* What mark_retry gives back.
\* Mutants: it gives back nothing, or all, whatever became of the rows.
ReturnedNothing(B) == {}
ReturnedWhole(B) == {i \in B \cap stored : row[i] # "none"}
Returned(B) == {i \in B : row[i] = "processing"}

\* The request or the storing of its answer failed.  A failure that may
\* pass leaves the later batches to be tried, any other ends the job.  When
\* the transaction fails at its end, after evaluated_ids has been extended,
\* the job also counts the batch as answered.
Fail(w, retryable) ==
    /\ pc[w] = "asked"
    /\ run' = [run EXCEPT ![ThisRun(w)] = "failed"]
    /\ LET back == Returned(batch[w]) IN
        /\ row' = [i \in Items |-> IF i \in back THEN "retry" ELSE row[i]]
        /\ claim' = [i \in Items |-> IF i \in back THEN None ELSE claim[i]]
        /\ old' = [i \in Items |-> i \notin back /\ old[i]]
        /\ delayed' = [i \in Items |-> IF i \in back THEN w \in Automatic ELSE delayed[i]]
    /\ \E counted \in SUBSET {"answered"} :
        outcomes' = [Remember(w, "failed") EXCEPT ![w] = @ \cup counted]
    /\ batch' = [batch EXCEPT ![w] = {}]
    /\ Goto(w, IF retryable THEN "loop" ELSE "raise")
    /\ UNCHANGED <<itemVars, current, job, leaseVars, statement, todo, requests>>

EndLoop(w) ==
    /\ pc[w] = "loop" /\ todo[w] = {}
    /\ Goto(w, "compose")
    /\ UNCHANGED <<itemVars, queueVars, recordVars, leaseVars, statement, planVars>>

\* A stop request, seen between two batches or two compositions.
Stop(w) ==
    /\ pc[w] \in {"loop", "compose"}
    /\ job' = [job EXCEPT ![w] = "cancelled"]
    /\ Goto(w, "end")
    /\ UNCHANGED <<itemVars, queueVars, current, run, leaseVars, statement, planVars>>

\* The status of a job whose compositions, if any, have been stored.
Verdict(w, composed) ==
    LET some == "answered" \in outcomes[w] \/ composed
    IN  IF "failed" \in outcomes[w]
        THEN IF some THEN "partial" ELSE "failed"
        ELSE IF some THEN "success" ELSE "empty"

Compose(w, composed) ==
    /\ pc[w] = "compose"
    /\ job' = [job EXCEPT ![w] = Verdict(w, composed)]
    /\ Goto(w, "end")
    /\ UNCHANGED <<itemVars, queueVars, current, run, leaseVars, statement, planVars>>

\* An exception that no handler of a batch takes: in a composition, in a
\* statement of the loop, in the transaction of the claim, or in the one that
\* records a failure.  A transaction is rolled back, and its run stays open.
Throw(w) ==
    /\ pc[w] \in {"loop", "claim", "asked", "compose"}
    /\ unclosed' = IF pc[w] \in {"claim", "asked"} THEN unclosed \cup {ThisRun(w)}
                   ELSE unclosed
    /\ Goto(w, "raise")
    /\ Forget(w)
    /\ UNCHANGED <<itemVars, queueVars, recordVars, lease, lapsed, statement, requests>>

\* The handler around the batches and the compositions, which may fail too.
\* Mutant: an exception leaves the row of the job as it is.
RaiseSilently(w) ==
    /\ pc[w] = "raise"
    /\ Goto(w, "end")
    /\ UNCHANGED <<itemVars, queueVars, recordVars, leaseVars, statement, planVars>>
Raise(w) ==
    /\ pc[w] = "raise"
    /\ job' = [job EXCEPT ![w] = "failed"]
    /\ Goto(w, "end")
    /\ UNCHANGED <<itemVars, queueVars, current, run, leaseVars, statement, planVars>>

RaiseFails(w) ==
    /\ pc[w] = "raise"
    /\ unclosed' = unclosed \cup {w}
    /\ Goto(w, "end")
    /\ UNCHANGED <<itemVars, queueVars, recordVars, lease, lapsed, statement, planVars>>

Release(w) ==
    /\ pc[w] = "end"
    /\ lease' = IF lease = w THEN None ELSE lease
    /\ Goto(w, "done")
    /\ Forget(w)
    /\ UNCHANGED <<itemVars, queueVars, recordVars, pastVars, statement, requests>>

-----------------------------------------------------------------------------
(***************************************************************************)
(* Crashes, time, and the recoveries of db.py.                             *)
(***************************************************************************)
Crash(w) ==
    /\ Alive(w)
    /\ Goto(w, "dead")
    /\ statement' = [statement EXCEPT ![w] = 0]
    /\ Forget(w)
    /\ UNCHANGED <<itemVars, queueVars, recordVars, leaseVars, requests>>

\* The lease of a dead worker runs out; that of a live one only while the
\* host sleeps, for its heartbeat renews it.
LeaseEnds ==
    /\ lease # None
    /\ lapsed' = (lapsed \/ Alive(lease))
    /\ lease' = None
    /\ UNCHANGED <<itemVars, queueVars, recordVars, unclosed, workerVars>>

\* Two hours pass after a claim: far more than a request may take, unless
\* the host sleeps.
ClaimAges(i) ==
    /\ row[i] = "processing" /\ ~old[i]
    /\ old' = [old EXCEPT ![i] = TRUE]
    /\ lapsed' = (lapsed \/ \E w \in Workers : pc[w] = "asked" /\ i \in batch[w])
    /\ UNCHANGED <<itemVars, row, claim, delayed, recordVars, lease, unclosed, workerVars>>

DelayEnds(i) ==
    /\ delayed[i]
    /\ delayed' = [delayed EXCEPT ![i] = FALSE]
    /\ UNCHANGED <<itemVars, row, claim, old, recordVars, leaseVars, workerVars>>

\* The rows that a recovery finds open and marks as interrupted.
Interrupt(R, W) ==
    /\ run' = [r \in Runs |-> IF r \in R THEN "failed" ELSE run[r]]
    /\ job' = [w \in Workers |-> IF w \in W THEN "failed" ELSE job[w]]

\* Mutant: the recovery does not look at the status of a run.
OpenRunsAll == {r \in Runs : run[r] # "none"}
OpenRuns == {r \in Runs : run[r] = "running"}
OpenJobs == {w \in Workers : job[w] = "running"}

\* What reconcile_interrupted_state may fail: rows past their grace, while
\* nobody holds the AI lease.
Interruptible ==
    IF lease = None THEN <<SUBSET OpenRuns, SUBSET OpenJobs>> ELSE <<{{}}, {{}}>>

Reconcile(R, W) ==
    /\ R \in Interruptible[1] /\ W \in Interruptible[2]
    /\ Interrupt(R, W)
    /\ Move(StaleRows, "retry")
    /\ UNCHANGED <<itemVars, current, leaseVars, workerVars>>

\* recover_local_process_restart, with no process left: leases and open
\* records go, the claims of the queue stay until they are stale.
RecoverLocally ==
    /\ \A w \in Workers : ~Alive(w)
    /\ lease' = None
    /\ Interrupt(OpenRuns, OpenJobs)
    /\ UNCHANGED <<itemVars, queueVars, current, pastVars, workerVars>>

EntryStep ==
    \/ \E i \in Items : Discover(i) \/ SetDisposition(i)
    \/ \E S \in SUBSET Items : Delete(S) \/ RestoreBaseline(S)

SyncStep ==
    \/ \E c \in Callers : SyncStatement(c)
    \/ \E p \in Pages : OpenPage(p) \/ \E S \in SUBSET Items : Baseline(p, S)

WorkerStep(w) ==
    \/ Start(w) \/ Blocked(w) \/ PlanFails(w) \/ Claim(w) \/ Answer(w) \/ EndLoop(w)
    \/ Stop(w) \/ Throw(w) \/ Raise(w) \/ RaiseFails(w) \/ Release(w) \/ Crash(w)
    \/ \E S \in SUBSET Items : Plan(w, S) \/ StartBatch(w, S)
    \/ \E b \in BOOLEAN : Fail(w, b) \/ Compose(w, b)

OutsideStep ==
    \/ \E i \in Items : ClaimAges(i) \/ DelayEnds(i)
    \/ \E R \in SUBSET Runs, W \in SUBSET Workers : Reconcile(R, W)
    \/ LeaseEnds \/ RecoverLocally

Next == EntryStep \/ SyncStep \/ (\E w \in Workers : WorkerStep(w)) \/ OutsideStep

\* A worker goes on, its request ends (the client has a timeout), time
\* passes, and the feed checks of the scheduler run sync_review_queue.
Fairness ==
    /\ \A w \in Workers :
        WF_vars(Claim(w) \/ Answer(w) \/ Fail(w, TRUE) \/ Fail(w, FALSE))
    /\ \A i \in Items : WF_vars(ClaimAges(i))
    /\ \A p \in Pages : WF_vars(OpenPage(p)) /\ WF_vars(SyncStatement(p))

Spec == Init /\ [][Next]_vars
FairSpec == Spec /\ Fairness

-----------------------------------------------------------------------------
(***************************************************************************)
(* Correctness.                                                            *)
(***************************************************************************)

\* A row counts as reviewed exactly when an answered request left a current
\* evaluation of the entry: no evaluation is lost, none is claimed without
\* evidence.  Only when a job has outlived its lease may the id of a deleted
\* entry carry an evaluation before its new row does.
ReviewedIffEvaluated ==
    \A i \in Items :
        /\ current[i] # None => Evaluated(i)
        /\ row[i] = "reviewed" => i \in stored /\ Evaluated(i)
        /\ ~lapsed /\ Evaluated(i) => row[i] = "reviewed"

\* While the leases hold, nothing takes a request away from its worker: its
\* stored entries stay claimed by it, and its rows stay open, whatever pages,
\* baselines, deletions and recoveries do meanwhile.
LiveWorkIsKept ==
    ~lapsed => \A w \in Workers : pc[w] = "asked" =>
        /\ run[ThisRun(w)] = "running" /\ job[w] = "running"
        /\ \A i \in batch[w] \cap stored : row[i] = "processing" /\ claim[i] = ThisRun(w)

\* A claimed row has a worker that will settle it, or it was left by one that
\* died or could not even record that its request failed; then the claim
\* grows old.  No path through the loop forgets an entry.
NoClaimLeftBehind ==
    \A i \in Items : row[i] = "processing" =>
        \E w \in Workers :
            /\ claim[i] = ThisRun(w)
            /\ \/ pc[w] = "dead" \/ ThisRun(w) \in unclosed
               \/ pc[w] = "asked" /\ i \in batch[w]

\* The run of a batch, or a job, is shown as running only while its worker is
\* at it, after its worker died, or when an exception left it open: one
\* between the row of the job and the `try`, in the claim's transaction, or
\* in a handler (ai_engine.py 535-536, 549-566, 591, 679).  A run left open is
\* not hidden by its job, which then ends as nothing but failed.
OpenRowsHaveAWorker ==
    \A w \in Workers :
        /\ job[w] = "running" =>
            \/ pc[w] \in {"loop", "claim", "asked", "compose", "raise", "dead"}
            \/ w \in unclosed
        /\ \A n \in 1 .. MaxRequests : run[<<w, n>>] = "running" =>
            /\ n = requests[w]
            /\ \/ pc[w] \in {"claim", "asked", "dead"}
               \/ <<w, n>> \in unclosed /\ job[w] \in {"running", "failed"}

\* A job reports success, or that there was nothing to do, only if all of
\* its requests succeeded; with nothing to do it has evaluated nothing.
JobAgreesWithRuns ==
    \A w \in Workers :
        /\ job[w] \in {"success", "empty"} =>
            \A n \in 1 .. requests[w] : run[<<w, n>>] = "success"
        /\ job[w] = "empty" => \A i \in Items, n \in 1 .. MaxRequests : current[i] # <<w, n>>

\* An entry is sent to the provider only if, at that moment, it exists and
\* is not excluded, although the plan may be older; and, while the leases
\* hold, only if it has no evaluation yet and no other request has it.
AskedOnce ==
    [][\A w \in Workers : pc[w] = "claim" /\ pc'[w] = "asked" =>
        \A i \in batch'[w] :
            /\ i \in stored /\ ~excluded[i]
            /\ ~lapsed => ~Evaluated(i)
            /\ ~lapsed => \A v \in Workers \ {w} : pc[v] = "asked" => i \notin batch[v]]_vars

\* A reviewed entry stays reviewed until it is deleted: neither a late
\* failure of a request that lost its claim nor any page undoes it.
ReviewIsFinal ==
    [][\A i \in Items : row[i] = "reviewed" /\ i \in stored' => row'[i] = "reviewed"]_vars

\* The queue implements EntryReview: a claim is what a request has taken, the
\* evaluation of a reviewed row its answer, a request is over when its worker
\* is past it or dead, and overdue when a job has outlived its lease or claim.
held == [i \in Items |-> IF row[i] = "processing" THEN claim[i] ELSE None]

answer == [i \in Items |-> IF row[i] = "reviewed" THEN current[i] ELSE None]

ended ==
    {r \in Runs : \/ r[2] < requests[r[1]]
                  \/ r[2] = requests[r[1]] /\ pc[r[1]] \notin {"claim", "asked"}}

Reviews ==
    INSTANCE EntryReview WITH Entries <- Items, Requests <- Runs, overdue <- lapsed

ReviewsInOrder == Reviews!ReviewSpec

\* A claim ends: with an answer, a failure, or after its worker died.
ClaimsReturn == \A i \in Items : row[i] = "processing" ~> row[i] # "processing"
=============================================================================
