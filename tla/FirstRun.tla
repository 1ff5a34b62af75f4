------------------------------ MODULE FirstRun ------------------------------
(***************************************************************************)
(* The first start of a local reader: the launcher (launcher.py), the      *)
(* setup page it serves (setup_web.py), the session behind that page and   *)
(* the committer that stages, verifies, publishes and rolls back the       *)
(* instance directory (setup_service.py, setup_state.py).                  *)
(*                                                                         *)
(* Actors: the launcher's main thread, the watcher thread, one thread per  *)
(* browser request, and the operating system, which may end the process    *)
(* between any two steps and may fail any step that touches the disk.      *)
(* The launcher lock admits one process at a time.                         *)
(***************************************************************************)
EXTENDS Naturals, FiniteSets, SetupDraft

CONSTANTS
    Tabs,          \* browser tabs of the page (the cookie is shared)
    Payloads,      \* the payloads a tab may submit
    MaxReviews,    \* bound: successful validations of one session
    MaxLaunches,   \* bound: starts of the launcher
    Nobody         \* no tab

ASSUME SetupAssumption ==
    /\ Payloads \subseteq Payload
    /\ MaxReviews \in Nat /\ MaxLaunches \in Nat
    /\ Nobody \notin Tabs

VARIABLES
    \* the disk
    inst,       \* the instance directory: its entries, {} when it is not there
    about,      \* of the instance: the draft and the secrets it was made of
    checked,    \* history: a staged tree was verified before its manifest
    stage,      \* the committer's stage directory: its entries, or {}
    strays,     \* stage directories an earlier process left: marked or not
    \* the launcher
    pc, launches, said,
    \* the session
    phase, reviewToken, draft, issued,
    \* the committer
    cphase, failing, published,
    \* the web controller and its threads
    capability, terminal, handed, expiring, interrupted,
    applying, reply, shown, portFree

disk == <<inst, about, checked, stage, strays>>
launcher == <<pc, launches, said>>
session == <<phase, reviewToken, draft, issued>>
committer == <<cphase, failing, published>>
controller == <<capability, terminal, handed, expiring, interrupted,
                applying, reply, shown>>
vars == <<disk, launcher, session, committer, controller, portFree>>

\* A directory that is there holds "dir"; the others are the files in it.
Entries == {"dir", "marker", "config", "secrets", "database", "opml", "manifest"}
NoDraft == [provider |-> "none"]
NotShown == [token |-> 0, draft |-> NoDraft]
NoReader == [draft |-> NoDraft, stored |-> {}]
Absorbing == {"complete", "recovery_required", "cancelled", "timed_out"}
Committing == {"staging_files", "staging_database", "verifying_stage",
               "marking_stage", "publishing", "postcheck"}

\* What a process that ends leaves of its stage.
Abandoned == IF stage = {} THEN {}
             ELSE IF "marker" \in stage THEN {"marked"} ELSE {"unmarked"}

\* SETUP_TRANSITIONS: the phase an event leads to; an event is refused
\* (TransitionError) in a phase it is not listed for.
SetupTransition(event) ==
    CASE event = "bootstrap" -> [p \in {"listening"} |-> "editing"]
      [] event = "invalid" -> [p \in {"editing"} |-> "editing"]
      [] event = "validate" -> [p \in {"editing", "failed"} |-> "reviewed"]
      [] event \in {"edit", "retry"} ->
            [p \in {IF event = "edit" THEN "reviewed" ELSE "failed"}
                |-> "editing"]
      [] event = "apply" -> [p \in {"reviewed"} |-> "committing"]
      [] event = "succeed" -> [p \in {"committing"} |-> "complete"]
      [] event = "fail" -> [p \in {"committing"} |-> "failed"]
      [] event = "require_recovery" ->
            [p \in {"committing"} |-> "recovery_required"]
      [] event = "cancel" ->
            [p \in {"listening", "editing", "reviewed", "failed"}
                |-> "cancelled"]
      [] event = "timeout" ->
            [p \in {"listening", "editing", "reviewed", "failed"}
                |-> "timed_out"]
      [] event = "replay" -> [p \in {"complete"} |-> "complete"]

Accepts(event) == phase \in DOMAIN SetupTransition(event)
After(event) == SetupTransition(event)[phase]

\* The session's lock is held from APPLY to the end of the commit, and every
\* other method of the session waits for it.
SessionFree == phase # "committing"

\* Requests reach the page only while the listener is up; the mutating ones
\* but bootstrap share mutation_lock, which a completion holds until it has
\* answered.
Open == pc = "setup"
MutationFree == applying = Nobody

DiskType ==
    /\ inst \in SUBSET Entries /\ stage \in SUBSET Entries
    /\ about \in {NoReader} \cup [draft : Drafts, stored : SUBSET Secrets]
    /\ checked \in BOOLEAN /\ strays \subseteq {"marked", "unmarked"}

LauncherType ==
    /\ pc \in {"off", "cleaning", "setup", "closing", "verifying",
               "unlocking", "starting", "serving"}
    /\ launches \in 0..MaxLaunches
    /\ said \in {"nothing", "no_changes", "recovery", "refused", "ready"}

SessionType ==
    /\ phase \in Absorbing \cup {"listening", "editing", "reviewed",
                                 "committing", "failed"}
    /\ reviewToken \in 0..MaxReviews /\ issued \in 0..MaxReviews
    /\ draft \in {NoDraft} \cup Drafts
    /\ phase = "committing" => draft # NoDraft

CommitterType ==
    /\ cphase \in Committing \cup {"idle", "complete", "rolled_back",
                                   "recovery_required"}
    /\ failing \in BOOLEAN /\ published \in BOOLEAN

ControllerType ==
    /\ capability \in BOOLEAN /\ terminal \in BOOLEAN /\ handed \in BOOLEAN
    /\ expiring \in BOOLEAN /\ interrupted \in BOOLEAN
    /\ applying \in {Nobody} \cup Tabs
    /\ reply \in {"none", "result", "recovery", "failure"}
    /\ shown \in [Tabs -> {NotShown}
                           \cup [token : 1..MaxReviews, draft : Drafts]]
    /\ portFree \in BOOLEAN

TypeOK == /\ DiskType /\ LauncherType /\ SessionType
          /\ CommitterType /\ ControllerType

FreshProcess ==
    /\ phase' = "listening" /\ reviewToken' = 0 /\ draft' = NoDraft
    /\ issued' = 0
    /\ cphase' = "idle" /\ failing' = FALSE /\ published' = FALSE
    /\ capability' = TRUE /\ terminal' = FALSE /\ handed' = FALSE
    /\ expiring' = FALSE /\ interrupted' = FALSE
    /\ applying' = Nobody /\ reply' = "none"
    /\ shown' = [t \in Tabs |-> NotShown]

Init ==
    /\ inst = {} /\ about = NoReader /\ checked = FALSE
    /\ stage = {} /\ strays = {}
    /\ pc = "off" /\ launches = 0 /\ said = "nothing"
    /\ phase = "listening" /\ reviewToken = 0 /\ draft = NoDraft
    /\ issued = 0
    /\ cphase = "idle" /\ failing = FALSE /\ published = FALSE
    /\ capability = TRUE /\ terminal = FALSE /\ handed = FALSE
    /\ expiring = FALSE /\ interrupted = FALSE
    /\ applying = Nobody /\ reply = "none"
    /\ shown = [t \in Tabs |-> NotShown]
    /\ portFree = TRUE

-----------------------------------------------------------------------------
(* The launcher *)

\* launcher_lock admits the process; nothing of an earlier one survives in
\* memory.
Launch ==
    /\ pc = "off" /\ launches < MaxLaunches
    /\ pc' = "cleaning" /\ launches' = launches + 1 /\ said' = "nothing"
    /\ FreshProcess
    /\ UNCHANGED <<disk, portFree>>

\* A stage that carries the exact marker is removed; a removal that fails ends
\* the start and may have taken the marker first.
CleanStage ==
    /\ pc = "cleaning" /\ "marked" \in strays
    /\ \/ strays' = strays \ {"marked"} /\ pc' = "cleaning"
       \/ strays' = (strays \ {"marked"}) \cup {"unmarked"} /\ pc' = "off"
    /\ UNCHANGED <<inst, about, checked, stage, launches, said, session,
                   committer, controller, portFree>>

\* classify_target, for the managed and the first-run kind.
Classify ==
    /\ pc = "cleaning" /\ "marked" \notin strays
    /\ \/ inst = {} /\ pc' = "setup" /\ UNCHANGED said
       \/ inst # {} /\ "config" \in inst
            /\ pc' = "verifying" /\ UNCHANGED said
       \/ inst # {} /\ "config" \notin inst
            /\ pc' = "off" /\ said' = "refused"
    /\ UNCHANGED <<disk, launches, session, committer, controller, portFree>>

\* verify_managed_instance: the manifest, the configuration and a sound
\* database are required; the OPML file is rebuilt from the database.
VerifyManaged ==
    /\ pc = "verifying"
    /\ \/ /\ {"manifest", "config", "database"} \subseteq inst
          /\ inst' = inst \cup {"opml"}
          /\ pc' = "unlocking" /\ UNCHANGED said
       \/ /\ ~({"manifest", "config", "database"} \subseteq inst)
          /\ pc' = "off" /\ said' = "refused" /\ UNCHANGED inst
    /\ UNCHANGED <<about, checked, stage, strays, launches, session,
                   committer, controller, portFree>>

\* _apply_managed_secrets: a store with unsafe permissions or contents ends
\* the start before anything of it is applied.
ApplySecrets ==
    /\ pc = "unlocking"
    /\ \/ pc' = "starting" /\ UNCHANGED said
       \/ "secrets" \in inst /\ pc' = "off" /\ said' = "refused"
    /\ UNCHANGED <<disk, launches, session, committer, controller, portFree>>

\* serve_reader: the listener first, then the application.
Serve ==
    /\ pc = "starting"
    /\ \/ portFree /\ pc' = "serving" /\ said' = "ready"
       \/ pc' = "off" /\ said' = "refused"
    /\ UNCHANGED <<disk, launches, session, committer, controller, portFree>>

\* While the reader runs: a change of the subscriptions commits to the
\* database before the OPML file is exported again.
ReaderEdits ==
    /\ pc = "serving"
    /\ inst' \in {inst \ {"opml"}, inst \cup {"opml"}}
    /\ UNCHANGED <<about, checked, stage, strays, launcher, session,
                   committer, controller, portFree>>

StopReader ==
    /\ pc = "serving" /\ pc' = "off"
    /\ UNCHANGED <<disk, launches, said, session, committer, controller,
                   portFree>>

\* The process ends between two steps: its memory is gone, its stage stays.
Crash ==
    /\ pc # "off" /\ pc' = "off" /\ said' = "nothing"
    /\ strays' = strays \cup Abandoned
    /\ stage' = {}
    /\ FreshProcess
    /\ UNCHANGED <<inst, about, checked, launches, portFree>>

PortChanges ==
    /\ portFree' = ~portFree
    /\ UNCHANGED <<disk, launcher, session, committer, controller>>

-----------------------------------------------------------------------------
(* Requests of the page.  Each method of the session is atomic: it holds the
   session's lock.  Only a completion holds it over several steps. *)

\* exchange_capability: the link works once, before the session moves.
Bootstrap ==
    /\ Open /\ SessionFree /\ capability
    /\ capability' = FALSE
    /\ phase' = IF Accepts("bootstrap") THEN After("bootstrap") ELSE phase
    /\ UNCHANGED <<disk, launcher, reviewToken, draft, issued, committer,
                   terminal, handed, expiring, interrupted, applying, reply,
                   shown, portFree>>

Authenticated == ~capability /\ phase # "listening"

\* SetupSession.validate: RETRY from a failure, EDIT from a review, and then
\* either the errors or a new draft under a new token.
Reviewed(p) ==
    \/ /\ Errors(p, portFree, {"OPENAI_API_KEY"}) # {}
       /\ phase' = SetupTransition("invalid")["editing"]
       /\ UNCHANGED <<reviewToken, draft, issued>>
    \/ /\ Errors(p, portFree, {"OPENAI_API_KEY"}) = {}
       /\ issued < MaxReviews
       /\ issued' = issued + 1
       /\ reviewToken' = issued'
       /\ draft' = Normalised(p)
       /\ phase' = SetupTransition("validate")["editing"]

\* The request: a tab that gets a new review keeps what it was shown.
Validate(t, p) ==
    /\ Open /\ SessionFree /\ MutationFree /\ Authenticated
    /\ phase \in {"editing", "reviewed", "failed"}
    /\ Reviewed(p)
    /\ shown' = IF issued' = issued THEN shown
                ELSE [shown EXCEPT ![t] = [token |-> reviewToken',
                                           draft |-> draft']]
    /\ UNCHANGED <<disk, launcher, committer, capability, terminal, handed,
                   expiring, interrupted, applying, reply, portFree>>

Edit ==
    /\ Open /\ SessionFree /\ MutationFree /\ Authenticated
    /\ Accepts("edit")
    /\ phase' = After("edit") /\ reviewToken' = 0
    /\ UNCHANGED <<disk, launcher, draft, issued, committer, controller,
                   portFree>>

Cancel ==
    /\ Open /\ SessionFree /\ MutationFree /\ Authenticated
    /\ Accepts("cancel")
    /\ phase' = After("cancel") /\ terminal' = TRUE
    /\ UNCHANGED <<disk, launcher, reviewToken, draft, issued, committer,
                   capability, handed, expiring, interrupted, applying, reply,
                   shown, portFree>>

\* SetupSession.complete up to the start of the commit: the phase, the token
\* this tab was given and the draft must agree; then the committer's own
\* refusals, which move the session to FAILED without a rollback.
\* Mutant: the token is not compared.
CompleteAnyToken(t) ==
    /\ Open /\ SessionFree /\ MutationFree /\ Authenticated
    /\ shown[t] # NotShown
    /\ phase = "reviewed" /\ draft # NoDraft
    /\ applying' = t
    /\ cphase # "recovery_required" /\ inst = {} /\ portFree
    /\ phase' = After("apply")
    /\ cphase' = "staging_files"
    /\ failing' = FALSE /\ published' = FALSE
    /\ UNCHANGED <<disk, launcher, reviewToken, draft, issued, capability,
                   terminal, handed, expiring, interrupted, reply, shown,
                   portFree>>

Complete(t) ==
    /\ Open /\ SessionFree /\ MutationFree /\ Authenticated
    /\ shown[t] # NotShown
    /\ phase = "reviewed" /\ shown[t].token = reviewToken /\ draft # NoDraft
    /\ applying' = t
    /\ \/ /\ cphase = "recovery_required" \/ inst # {} \/ ~portFree
          /\ phase' = "failed" /\ reply' = "failure"
          /\ UNCHANGED committer
       \/ /\ cphase # "recovery_required" /\ inst = {} /\ portFree
          /\ phase' = After("apply")
          /\ cphase' = "staging_files"
          /\ failing' = FALSE /\ published' = FALSE
          /\ UNCHANGED reply
    /\ UNCHANGED <<disk, launcher, reviewToken, draft, issued, capability,
                   terminal, handed, expiring, interrupted, shown, portFree>>

\* A repeated completion of a complete session returns the first result, and
\* its handler stores it again.
Replay(t) ==
    /\ Open /\ SessionFree /\ MutationFree /\ Authenticated
    /\ shown[t] # NotShown
    /\ Accepts("replay") /\ shown[t].token = reviewToken
    /\ phase' = After("replay")
    /\ applying' = t /\ reply' = "result"
    /\ UNCHANGED <<disk, launcher, reviewToken, draft, issued, committer,
                   capability, terminal, handed, expiring, interrupted, shown,
                   portFree>>

\* The handler after session.complete: the controller gets the result, or
\* the end of the session, or nothing.
Answer ==
    /\ applying # Nobody /\ reply # "none" /\ pc \in {"setup", "closing"}
    /\ terminal' = (terminal \/ reply \in {"result", "recovery"})
    /\ handed' = (handed \/ reply = "result")
    /\ applying' = Nobody /\ reply' = "none"
    /\ UNCHANGED <<disk, launcher, session, committer, capability, expiring,
                   interrupted, shown, portFree>>

-----------------------------------------------------------------------------
(* The committer, one step per durable change, in the thread of the request
   that completes *)

Running == phase = "committing" /\ ~failing /\ pc = "setup"

CommitterRest == <<launcher, session, controller, portFree>>

\* mkdtemp, and then the marker that makes the directory recognisable.
StageCreate ==
    /\ Running /\ cphase = "staging_files" /\ stage = {}
    /\ stage' = {"dir"} /\ checked' = FALSE
    /\ UNCHANGED <<inst, about, strays, committer, CommitterRest>>

StageMarker ==
    /\ Running /\ cphase = "staging_files" /\ stage = {"dir"}
    /\ stage' = {"dir", "marker"}
    /\ UNCHANGED <<inst, about, checked, strays, committer, CommitterRest>>

\* The configuration, the arXiv recipe and the secrets that are to be kept.
StageFiles ==
    /\ Running /\ cphase = "staging_files" /\ stage = {"dir", "marker"}
    /\ stage' = {"dir", "marker", "config"}
                 \cup (IF StoredSecrets(draft) = {} THEN {} ELSE {"secrets"})
    /\ cphase' = "staging_database"
    /\ UNCHANGED <<inst, about, checked, strays, failing, published,
                   CommitterRest>>

\* The database with its subscriptions, and the OPML file written from it.
StageDatabase ==
    /\ Running /\ cphase = "staging_database"
    /\ stage' = stage \cup {"database", "opml"}
    /\ cphase' = "verifying_stage"
    /\ UNCHANGED <<inst, about, checked, strays, failing, published,
                   CommitterRest>>

\* verify_instance without a manifest: what is missing is an exception.
Verified(tree, needed) == needed \cup {"config", "database", "opml"} \subseteq tree

VerifyStage ==
    /\ Running /\ cphase = "verifying_stage"
    /\ Verified(stage, {})
    /\ checked' = TRUE
    /\ cphase' = "marking_stage"
    /\ UNCHANGED <<inst, about, stage, strays, failing, published,
                   CommitterRest>>

\* Mutant: the manifest is written before the stage is verified.
MarkUnverified ==
    /\ Running /\ cphase \in {"verifying_stage", "marking_stage"}
    /\ stage' = stage \cup {"manifest"}
    /\ cphase' = "publishing"
    /\ UNCHANGED <<inst, about, checked, strays, failing, published,
                   CommitterRest>>

MarkStage ==
    /\ Running /\ cphase = "marking_stage"
    /\ stage' = stage \cup {"manifest"}
    /\ cphase' = "publishing"
    /\ UNCHANGED <<inst, about, checked, strays, failing, published,
                   CommitterRest>>

\* The port is looked at once more, and one rename makes the stage live.
Publish ==
    /\ Running /\ cphase = "publishing" /\ ~published /\ portFree
    /\ inst' = stage /\ stage' = {}
    /\ about' = [draft |-> draft, stored |-> StoredSecrets(draft)]
    /\ published' = TRUE /\ cphase' = "postcheck"
    /\ UNCHANGED <<checked, strays, failing, CommitterRest>>

\* verify_instance with the manifest; the commit returns and the session
\* succeeds under the same lock.
Postcheck ==
    /\ Running /\ cphase = "postcheck"
    /\ Verified(inst, {"manifest"})
    /\ cphase' = "complete"
    /\ phase' = After("succeed") /\ reply' = "result"
    /\ UNCHANGED <<disk, launcher, reviewToken, draft, issued, failing,
                   published, capability, terminal, handed, expiring,
                   interrupted, applying, shown, portFree>>

\* Any step may raise: a full disk, a refused permission, a verification that
\* fails, the port taken at the boundary.
StepFails ==
    /\ Running /\ cphase \in Committing
    /\ failing' = TRUE
    /\ UNCHANGED <<disk, cphase, published, CommitterRest>>

\* The rollback: a published instance becomes the stage again, ...
Unpublish ==
    /\ failing /\ phase = "committing" /\ pc = "setup"
    /\ published /\ inst # {} /\ stage = {}
    /\ stage' = inst /\ inst' = {} /\ about' = NoReader
    /\ published' = FALSE
    /\ UNCHANGED <<checked, strays, cphase, failing, CommitterRest>>

\* ... and the stage is removed entry by entry.
RemoveStage ==
    /\ failing /\ phase = "committing" /\ pc = "setup"
    /\ ~published /\ stage # {}
    /\ \E gone \in {{"marker"}, Entries \ {"dir", "marker"}, Entries} :
         stage' = stage \ gone
    /\ UNCHANGED <<inst, about, checked, strays, committer, CommitterRest>>

RolledBack ==
    /\ failing /\ phase = "committing" /\ pc = "setup"
    /\ ~published /\ stage = {}
    /\ cphase' = "rolled_back" /\ failing' = FALSE
    /\ phase' = After("fail") /\ reply' = "failure"
    /\ UNCHANGED <<disk, launcher, reviewToken, draft, issued, published,
                   capability, terminal, handed, expiring, interrupted,
                   applying, shown, portFree>>

\* The rename back or the removal itself fails: the draft and its token are
\* dropped, and nothing of this process touches the directory again.
RollbackFails ==
    /\ failing /\ phase = "committing" /\ pc = "setup"
    /\ published \/ stage # {}
    /\ cphase' = "recovery_required" /\ failing' = FALSE
    /\ phase' = After("require_recovery") /\ reply' = "recovery"
    /\ reviewToken' = 0 /\ draft' = NoDraft
    /\ UNCHANGED <<disk, launcher, issued, published, capability, terminal,
                   handed, expiring, interrupted, applying, shown, portFree>>

-----------------------------------------------------------------------------
(* The watcher, Ctrl-C and the end of run_setup *)

\* expire_if_due decides under the controller's lock and acts after it, when
\* it gets the session's lock.
ExpireDecides ==
    /\ Open /\ ~terminal /\ ~expiring
    /\ expiring' = TRUE
    /\ UNCHANGED <<disk, launcher, session, committer, capability, terminal,
                   handed, interrupted, applying, reply, shown, portFree>>

\* Mutants: it does not wait for the lock, or leaves a failed session alone.
ExpireUnlocked ==
    /\ Open /\ expiring /\ ~terminal
    /\ phase' = IF phase \in Absorbing THEN phase ELSE "timed_out"
    /\ terminal' = TRUE
    /\ UNCHANGED <<disk, launcher, reviewToken, draft, issued, committer,
                   capability, handed, expiring, interrupted, applying, reply,
                   shown, portFree>>
ExpireUnlessFailed ==
    /\ Open /\ expiring /\ ~terminal /\ SessionFree /\ phase # "failed"
    /\ phase' = IF phase \in Absorbing THEN phase ELSE After("timeout")
    /\ terminal' = TRUE
    /\ UNCHANGED <<disk, launcher, reviewToken, draft, issued, committer,
                   capability, handed, expiring, interrupted, applying, reply,
                   shown, portFree>>
Expire ==
    /\ Open /\ expiring /\ ~terminal /\ SessionFree
    /\ phase' = IF phase \in Absorbing THEN phase ELSE After("timeout")
    /\ terminal' = TRUE
    /\ UNCHANGED <<disk, launcher, reviewToken, draft, issued, committer,
                   capability, handed, expiring, interrupted, applying, reply,
                   shown, portFree>>

\* Ctrl-C ends serve_forever; the main thread then cancels, and waits for the
\* session's lock to do it.
Interrupt ==
    /\ Open /\ ~interrupted
    /\ interrupted' = TRUE
    /\ UNCHANGED <<disk, launcher, session, committer, capability, terminal,
                   handed, expiring, applying, reply, shown, portFree>>

InterruptCancels ==
    /\ Open /\ interrupted /\ SessionFree
    /\ phase' = IF Accepts("cancel") THEN After("cancel") ELSE phase
    /\ terminal' = TRUE
    /\ pc' = "closing"
    /\ UNCHANGED <<disk, launches, said, reviewToken, draft, issued, committer,
                   capability, handed, expiring, interrupted, applying, reply,
                   shown, portFree>>

\* The watcher sees the terminal event and shuts the listener down.
Shutdown ==
    /\ Open /\ terminal /\ ~interrupted /\ pc' = "closing"
    /\ UNCHANGED <<disk, launches, said, session, committer, controller,
                   portFree>>

\* run_setup returns.  The watcher's quarter of a second lets the handler of
\* an answer that is due store its result first.
EndSetup ==
    /\ pc = "closing" /\ reply = "none"
    /\ \/ phase = "recovery_required" /\ pc' = "off" /\ said' = "recovery"
       \/ phase # "recovery_required" /\ ~handed
            /\ pc' = "off" /\ said' = "no_changes"
       \/ phase # "recovery_required" /\ handed
            /\ IF inst # {} /\ "config" \in inst
                  THEN pc' = "verifying" /\ UNCHANGED said
                  ELSE pc' = "off" /\ said' = "refused"
    /\ strays' = strays \cup Abandoned
    /\ stage' = {}
    /\ UNCHANGED <<inst, about, checked, launches, session, committer,
                   controller, portFree>>

-----------------------------------------------------------------------------
MainSteps == Launch \/ CleanStage \/ Classify \/ VerifyManaged \/ ApplySecrets
                \/ Serve \/ ReaderEdits \/ StopReader \/ EndSetup

Requests == \/ Bootstrap \/ Edit \/ Cancel \/ Answer
            \/ \E t \in Tabs : \/ Complete(t) \/ Replay(t)
                              \/ \E p \in Payloads : Validate(t, p)

CommitSteps == \/ StageCreate \/ StageMarker \/ StageFiles \/ StageDatabase
               \/ VerifyStage \/ MarkStage \/ Publish \/ Postcheck
               \/ StepFails \/ Unpublish \/ RemoveStage \/ RolledBack
               \/ RollbackFails

Watch == ExpireDecides \/ Expire \/ Interrupt \/ InterruptCancels \/ Shutdown

Next == MainSteps \/ Requests \/ CommitSteps \/ Watch \/ Crash \/ PortChanges

Spec == Init /\ [][Next]_vars

\* The threads of the process run: the watcher and the main thread get their
\* turns, the deadline comes, and a commit that can go on goes on.  Nothing
\* is assumed of the browser.  A thread that waits for the session's lock gets
\* it although commits may take it again in between: strong fairness.
FairSpec == Spec /\ WF_vars(CommitSteps) /\ WF_vars(Answer)
                 /\ WF_vars(ExpireDecides) /\ SF_vars(Expire)
                 /\ SF_vars(InterruptCancels) /\ WF_vars(Shutdown)
                 /\ WF_vars(EndSetup)

-----------------------------------------------------------------------------
(* Properties *)

\* A setup that has not succeeded has not changed what the next start finds:
\* once a session has failed, timed out or been cancelled, whatever step of
\* the commit had failed, there is no instance ("Setup was cancelled. No
\* reader was created.", "Setup did not change the active reader").
NoReaderUnlessComplete ==
    /\ pc \in {"setup", "closing"}
         /\ phase \in {"listening", "editing", "reviewed", "failed",
                       "cancelled", "timed_out"} => inst = {}
    /\ said = "no_changes" => inst = {}

\* What the launcher serves went the whole way: the stage was verified before
\* the manifest that makes it acceptable was written, and every file the
\* manifest vouches for is there; a crash after the rename cannot publish
\* less.
ServedIsComplete ==
    pc = "serving" => /\ checked
                      /\ {"config", "database", "manifest"} \subseteq inst

\* What is live is what a tab reviewed: its services and the place of its key
\* are those of the Review that tab was shown before it completed, in
\* whatever order two tabs validated, edited and completed.
PublishedAsReviewed ==
    phase = "complete" /\ applying # Nobody =>
        /\ shown[applying] # NotShown
        /\ LET r == Review(shown[applying].draft)
           IN  /\ ("OPENAI_API_KEY" \in about.stored) <=> (r.key = "stored")
               /\ r.arxiv <=> "arxiv" \in Configured(about.draft)
               /\ (r.unasked # "never")
                    <=> "auto_summarize" \in Configured(about.draft)
               /\ Review(about.draft) = r

\* FirstRun implements SetupOutcome: a failed, cancelled, expired or crashed
\* setup leaves nothing behind that its visitor was told is not there, a reader
\* once created is never replaced, emptied or set up again, and only its own
\* commit takes it back ("Setup was cancelled. No reader was created.", "Setup
\* did not change the active reader").
Made(d) == [draft |-> d, stored |-> StoredSecrets(d)]
Readers == {Made(d) : d \in Drafts}
AtPage == pc \in {"setup", "closing"}
Visit == CASE ~AtPage -> "none"
           [] AtPage /\ phase = "committing" -> "creating"
           [] AtPage /\ phase = "complete" -> "created"
           [] AtPage /\ phase = "recovery_required" -> "unsure"
           [] AtPage /\ phase \in {"cancelled", "timed_out"} -> "given_up"
           [] AtPage /\ phase \in {"listening", "editing", "reviewed", "failed"} -> "open"

Live == IF inst = {} THEN NoReader ELSE about
Asked == IF Visit = "creating" THEN Made(draft) ELSE NoReader

Outcome == INSTANCE SetupOutcome WITH
    reader <- Live, visit <- Visit, wanted <- Asked, told <- said

OutcomeAsTold == Outcome!OutcomeSpec

\* The page ends, whatever the browser does and however often the commit
\* fails: its deadline waits for a commit but not for a visitor.
SetupEnds == pc = "setup" ~> pc # "setup"
=============================================================================
