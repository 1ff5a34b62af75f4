------------------------------ MODULE MCIntake ------------------------------
(***************************************************************************)
(* What a check of feeds consists of: the retrieval, and the review of the *)
(* entries it found.  What the retrieval does to the queue is the arrival  *)
(* and the deletion of entries (Discover and Delete), which may come at    *)
(* any time; what the queue does to the retrieval is nothing.  So the two  *)
(* share no variable, and a behaviour is one of the queue or one of the    *)
(* retrieval, by its first state.                                          *)
(***************************************************************************)
EXTENDS ReviewQueue, FeedRefresh

\* Three addresses, two of them of one host.  The first is published twice,
\* and its feed is the one that is edited.
MCHostOf == [s \in Sources |-> IF s = "c" THEN "g" ELSE "h"]
MCLastVersion == [s \in Sources |-> IF s = "a" THEN 2 ELSE 1]

VARIABLE part

intakeVars == <<vars, feedVars, part>>

Queue(A) == part = "queue" /\ A /\ UNCHANGED <<feedVars, part>>
Retrieval(A) == part = "retrieval" /\ A /\ UNCHANGED <<vars, part>>

IntakeInit == Init /\ FeedInit /\ part \in {"queue", "retrieval"}
              /\ url = [f \in Feeds |-> IF f = 1 THEN "a" ELSE "b"]

QueueWorker(w) ==
    \/ Queue(Start(w)) \/ Queue(Blocked(w)) \/ Queue(PlanFails(w)) \/ Queue(Claim(w))
    \/ Queue(Answer(w)) \/ Queue(EndLoop(w)) \/ Queue(Stop(w)) \/ Queue(Throw(w))
    \/ Queue(Raise(w)) \/ Queue(RaiseFails(w)) \/ Queue(Release(w)) \/ Queue(Crash(w))
    \/ \E S \in SUBSET Items : Queue(Plan(w, S)) \/ Queue(StartBatch(w, S))
    \/ \E b \in BOOLEAN : Queue(Fail(w, b)) \/ Queue(Compose(w, b))

\* All actions of ReviewQueue but those of exclusions, baselines and delays
\* (a scheduled execution sets them), which the other instance has.
QueueActions ==
    \/ \E i \in Items :
        \/ Queue(Discover(i)) \/ Queue(ClaimAges(i))
    \/ \E S \in SUBSET Items : Queue(Delete(S))
    \/ \E p \in Pages : Queue(OpenPage(p))
    \/ \E c \in Callers : Queue(SyncStatement(c))
    \/ \E w \in Workers : QueueWorker(w)
    \/ \E R \in SUBSET OpenRuns, W \in SUBSET OpenJobs : Queue(Reconcile(R, W))
    \/ Queue(LeaseEnds) \/ Queue(RecoverLocally)

RetrievalActions ==
    \/ \E S \in SUBSET Feeds, force \in BOOLEAN : Retrieval(StartCheck(S, force))
    \/ \E f \in Feeds :
        \/ Retrieval(TakeThread(f)) \/ Retrieval(CreateSemaphore(f)) \/ Retrieval(SkipFeed(f))
        \/ Retrieval(SkipResting(f)) \/ Retrieval(AskSource(f)) \/ Retrieval(NotModified(f))
        \/ \E validated \in BOOLEAN : Retrieval(Document(f, validated))
        \/ \E rest \in Rests \cup {0} : Retrieval(Failure(f, rest))
    \/ \E s \in Sources \cup {NoSource} : Retrieval(EditFeed(1, s))
    \/ Retrieval(EndCheck) \/ Retrieval(KillProcess) \/ Retrieval(RequestStop)
    \/ \E s \in Sources : Retrieval(Publish(s))
    \/ Retrieval(Passes)

IntakeNext == QueueActions \/ RetrievalActions

\* The fairness of ReviewQueue.  The retrieval needs none.
IntakeFairness ==
    /\ \A w \in Workers :
        WF_intakeVars(Queue(Claim(w) \/ Answer(w) \/ Fail(w, TRUE) \/ Fail(w, FALSE)))
    /\ \A i \in Items : WF_intakeVars(Queue(ClaimAges(i)))
    /\ \A p \in Pages :
        WF_intakeVars(Queue(OpenPage(p))) /\ WF_intakeVars(Queue(SyncStatement(p)))

IntakeSpec == IntakeInit /\ [][IntakeNext]_intakeVars /\ IntakeFairness
=============================================================================
