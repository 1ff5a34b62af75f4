--------------------------- MODULE FirstRunProofs ---------------------------
(***************************************************************************)
(* Proofs about FirstRun, for any tabs, payloads and numbers of reviews    *)
(* and launches: a setup that did not succeed left no reader, what is      *)
(* served is complete, and what is published is what was reviewed.  The    *)
(* last sections: a published reader is kept, every commit ends, and       *)
(* FirstRun implements SetupOutcome.                                       *)
(***************************************************************************)
EXTENDS FirstRun, TLAPS

USE SetupAssumption

-----------------------------------------------------------------------------
(***************************************************************************)
(* The drafts and the transitions of the session.                          *)
(***************************************************************************)
\* A payload without errors becomes a draft, whatever the environment gave.
LEMMA PayloadsBecomeDrafts ==
    ASSUME NEW p \in Payloads, NEW free \in BOOLEAN,
           Errors(p, free, {"OPENAI_API_KEY"}) = {}
    PROVE  Normalised(p) \in Drafts
<1>1. p \in Payload
  BY DEF Payload
<1>2. \A f \in {"form", "openai_key", "arxiv_enabled", "auto_summarize",
                "ntfy_enabled"} : f \notin Errors(p, free, {"OPENAI_API_KEY"})
  OBVIOUS
<1>3. p.key \in KeySources
  BY <1>1 DEF Payload
<1>4. Errors(p, TRUE, Secrets) = {}
  BY <1>2, <1>3 DEF Errors, Secrets, KeySources, WellFormed
<1> QED
  BY <1>1, <1>4 DEF Drafts

\* What the Review page promises of a draft is what a commit stores.
LEMMA ReviewIsTrue ==
    ASSUME NEW d \in Drafts
    PROVE  /\ "OPENAI_API_KEY" \in StoredSecrets(d) <=> Review(d).key = "stored"
           /\ Review(d).arxiv <=> "arxiv" \in Configured(d)
           /\ Review(d).unasked # "never" <=> "auto_summarize" \in Configured(d)
<1>1. PICK p \in Payload : d = Normalised(p) /\ Errors(p, TRUE, Secrets) = {}
  BY DEF Drafts
<1>2. p.provider \in Providers /\ p.key \in KeySources /\ p.storeKey \in BOOLEAN
      /\ p.arxiv \in BOOLEAN /\ p.auto \in BOOLEAN /\ p.budget \in BOOLEAN
  BY DEF Payload
<1>3. "openai_key" \notin Errors(p, TRUE, Secrets)
  BY <1>1
<1>4. p.provider = "openai" => p.key # "none"
  BY <1>3 DEF Errors
<1>5. /\ d.provider = p.provider /\ d.storeKey = p.storeKey /\ d.arxiv = p.arxiv
      /\ d.auto = p.auto /\ d.budget = p.budget
  BY <1>1 DEF Normalised
<1>6. "OPENAI_API_KEY" \in d.secrets <=> p.provider = "openai"
  BY <1>1, <1>4 DEF Normalised, Secrets
<1>7. "OPENAI_API_KEY" \in StoredSecrets(d) <=> p.provider = "openai" /\ p.storeKey
  BY <1>5, <1>6 DEF StoredSecrets, LaunchSecrets
<1>8. Review(d).key = "stored" <=> p.provider = "openai" /\ p.storeKey
  BY <1>2, <1>5 DEF Review
<1>9. Review(d).unasked # "never" <=> p.auto
  BY <1>2, <1>5 DEF Review
<1> QED
  BY <1>2, <1>5, <1>7, <1>8, <1>9 DEF Review, Configured

\* A draft has a place for what is stored.
LEMMA StoredAreSecrets ==
    ASSUME NEW d \in Drafts
    PROVE  StoredSecrets(d) \in SUBSET Secrets
  BY DEF StoredSecrets, LaunchSecrets, Secrets

\* No draft is the absent one.
LEMMA NoDraftIsNone == NoDraft \notin Drafts
<1> SUFFICES ASSUME NoDraft \in Drafts PROVE FALSE
  OBVIOUS
<1>1. PICK p \in Payload : NoDraft = Normalised(p)
  BY DEF Drafts
<1>2. p.provider \in Providers /\ Normalised(p).provider = p.provider
  BY DEF Payload, Normalised
<1> QED
  BY <1>1, <1>2 DEF NoDraft, Providers

\* SETUP_TRANSITIONS, phase by phase.
LEMMA Transitions ==
    /\ Accepts("bootstrap") <=> phase = "listening"
    /\ Accepts("bootstrap") => After("bootstrap") = "editing"
    /\ SetupTransition("invalid")["editing"] = "editing"
    /\ SetupTransition("validate")["editing"] = "reviewed"
    /\ Accepts("edit") <=> phase = "reviewed"
    /\ Accepts("edit") => After("edit") = "editing"
    /\ phase = "reviewed" => After("apply") = "committing"
    /\ phase = "committing" => /\ After("succeed") = "complete"
                               /\ After("fail") = "failed"
                               /\ After("require_recovery") = "recovery_required"
    /\ Accepts("cancel") <=> phase \in {"listening", "editing", "reviewed", "failed"}
    /\ Accepts("cancel") => After("cancel") = "cancelled"
    /\ phase \in {"listening", "editing", "reviewed", "failed"}
         => After("timeout") = "timed_out"
    /\ Accepts("replay") <=> phase = "complete"
    /\ Accepts("replay") => After("replay") = "complete"
  BY DEF Accepts, After, SetupTransition

-----------------------------------------------------------------------------
(***************************************************************************)
(* The inductive invariant.                                                *)
(***************************************************************************)
\* The instance of a setup is there exactly while it is published, and only a
\* commit, a success or an unconfirmed rollback leaves it there.
LiveIsPublished ==
    pc \in {"setup", "closing"} =>
        /\ inst # {} <=> published
        /\ published => phase \in {"committing", "complete", "recovery_required"}

\* A commit belongs to one request of an open page, and is in its last phase
\* once it has published.
OneCommit ==
    phase = "committing" =>
        /\ pc = "setup" /\ applying # Nobody /\ reply = "none"
        /\ cphase \in Committing
        /\ published => cphase = "postcheck"

\* The result goes to the controller, and only a success has one.
ResultIsHanded ==
    /\ reply = "result" \/ handed => phase = "complete"
    /\ phase = "complete" /\ pc \in {"setup", "closing"} => handed \/ reply = "result"
    /\ applying = Nobody => reply = "none"
    /\ applying # Nobody => /\ pc \in {"setup", "closing"}
                            /\ phase = "committing" \/ reply # "none"
    /\ said = "no_changes" => pc = "off" /\ inst = {}

\* What the stage holds, phase by phase; a stage that is being removed is no
\* longer published.
StageGrows ==
    phase = "committing" /\ ~failing =>
        /\ cphase = "staging_database" => {"dir", "config"} \subseteq stage
        /\ cphase \in {"verifying_stage", "marking_stage"}
             => {"dir", "config", "database"} \subseteq stage
        /\ cphase \in {"marking_stage", "publishing"} => checked
        /\ cphase = "publishing"
             => {"dir", "config", "database", "manifest"} \subseteq stage

\* An instance is whole from the moment of the rename.
InstanceIsWhole ==
    /\ inst # {} => /\ checked
                    /\ {"dir", "config", "database", "manifest"} \subseteq inst
    /\ pc \in {"unlocking", "starting", "serving"} => inst # {}

\* A token stands for the draft it was issued with.
TokensMeanDrafts ==
    /\ reviewToken <= issued
    /\ \A t \in Tabs : shown[t] # NotShown =>
          /\ shown[t].token <= issued
          /\ shown[t].token = reviewToken => shown[t].draft = draft
    /\ phase \in {"committing", "complete"} => draft \in Drafts
    /\ phase \in {"committing", "complete"} /\ applying # Nobody =>
          shown[applying] # NotShown /\ shown[applying].token = reviewToken
    /\ phase = "complete" \/ (phase = "committing" /\ published) =>
          about = [draft |-> draft, stored |-> StoredSecrets(draft)]

\* A process starts afresh, and a page that is ending has reached a phase that
\* nothing leaves.
EndsAreAbsorbing ==
    /\ pc = "cleaning" => /\ phase = "listening" /\ ~published
                          /\ ~handed /\ reply = "none"
    /\ reply = "recovery" => phase = "recovery_required"
    /\ terminal => phase \in Absorbing

Rest == /\ LiveIsPublished /\ OneCommit /\ ResultIsHanded /\ StageGrows
        /\ InstanceIsWhole /\ TokensMeanDrafts /\ EndsAreAbsorbing

IInv == TypeOK /\ Rest

-----------------------------------------------------------------------------
(***************************************************************************)
(* Every step keeps the type.                                              *)
(***************************************************************************)
\* One step per action; where one leaf is too large, one per part of the type.
LEMMA TypeStep ==
    ASSUME TypeOK, [Next]_vars
    PROVE  TypeOK'
<1> USE DEF TypeOK, DiskType, LauncherType, SessionType, CommitterType,
            ControllerType, Entries, Absorbing, Committing, disk, launcher,
            session, committer, controller, CommitterRest
<1>1. ASSUME Launch PROVE TypeOK'
  <2>1. DiskType'
    BY <1>1 DEF Launch, FreshProcess
  <2>2. LauncherType'
    BY <1>1 DEF Launch, FreshProcess
  <2>3. SessionType'
    BY <1>1 DEF Launch, FreshProcess
  <2>4. CommitterType'
    BY <1>1 DEF Launch, FreshProcess
  <2>5. ControllerType'
    BY <1>1 DEF Launch, FreshProcess
  <2> QED
    BY <2>1, <2>2, <2>3, <2>4, <2>5
<1>2. ASSUME CleanStage PROVE TypeOK'
  <2>1. DiskType'
    BY <1>2 DEF CleanStage
  <2>2. LauncherType'
    BY <1>2 DEF CleanStage
  <2>3. SessionType'
    BY <1>2 DEF CleanStage
  <2>4. CommitterType'
    BY <1>2 DEF CleanStage
  <2>5. ControllerType'
    BY <1>2 DEF CleanStage
  <2> QED
    BY <2>1, <2>2, <2>3, <2>4, <2>5
<1>3. ASSUME Classify PROVE TypeOK'
  BY <1>3 DEF Classify
<1>4. ASSUME VerifyManaged PROVE TypeOK'
  <2>1. DiskType'
    BY <1>4 DEF VerifyManaged
  <2>2. LauncherType'
    BY <1>4 DEF VerifyManaged
  <2>3. SessionType'
    BY <1>4 DEF VerifyManaged
  <2>4. CommitterType'
    BY <1>4 DEF VerifyManaged
  <2>5. ControllerType'
    BY <1>4 DEF VerifyManaged
  <2> QED
    BY <2>1, <2>2, <2>3, <2>4, <2>5
<1>5. ASSUME ApplySecrets PROVE TypeOK'
  BY <1>5 DEF ApplySecrets
<1>6. ASSUME Serve PROVE TypeOK'
  BY <1>6 DEF Serve
<1>7. ASSUME ReaderEdits PROVE TypeOK'
  BY <1>7 DEF ReaderEdits
<1>8. ASSUME StopReader PROVE TypeOK'
  BY <1>8 DEF StopReader
<1>9. ASSUME EndSetup PROVE TypeOK'
  BY <1>9 DEF EndSetup, Abandoned
<1>10. ASSUME Bootstrap PROVE TypeOK'
  <2>1. DiskType'
    BY <1>10, Transitions DEF Bootstrap, Open, SessionFree, MutationFree,
         Authenticated
  <2>2. LauncherType'
    BY <1>10, Transitions DEF Bootstrap, Open, SessionFree, MutationFree,
         Authenticated
  <2>3. SessionType'
    BY <1>10, Transitions DEF Bootstrap, Open, SessionFree, MutationFree,
         Authenticated
  <2>4. CommitterType'
    BY <1>10, Transitions DEF Bootstrap, Open, SessionFree, MutationFree,
         Authenticated
  <2>5. ControllerType'
    BY <1>10, Transitions DEF Bootstrap, Open, SessionFree, MutationFree,
         Authenticated
  <2> QED
    BY <2>1, <2>2, <2>3, <2>4, <2>5
<1>11. ASSUME Edit PROVE TypeOK'
  BY <1>11, Transitions DEF Edit, Open, SessionFree, MutationFree,
       Authenticated
<1>12. ASSUME Cancel PROVE TypeOK'
  BY <1>12, Transitions DEF Cancel, Open, SessionFree, MutationFree,
       Authenticated
<1>13. ASSUME Answer PROVE TypeOK'
  BY <1>13 DEF Answer
<1>14. ASSUME NEW t \in Tabs, Complete(t) PROVE TypeOK'
  <2>1. DiskType'
    BY <1>14, Transitions DEF Complete, Open, SessionFree, MutationFree,
         Authenticated
  <2>2. LauncherType'
    BY <1>14, Transitions DEF Complete, Open, SessionFree, MutationFree,
         Authenticated
  <2>3. SessionType'
    BY <1>14, Transitions DEF Complete, Open, SessionFree, MutationFree,
         Authenticated
  <2>4. CommitterType'
    BY <1>14, Transitions DEF Complete, Open, SessionFree, MutationFree,
         Authenticated
  <2>5. ControllerType'
    BY <1>14, Transitions DEF Complete, Open, SessionFree, MutationFree,
         Authenticated
  <2> QED
    BY <2>1, <2>2, <2>3, <2>4, <2>5
<1>15. ASSUME NEW t \in Tabs, Replay(t) PROVE TypeOK'
  BY <1>15, Transitions DEF Replay, Open, SessionFree, MutationFree,
       Authenticated
<1>16. ASSUME NEW t \in Tabs, NEW p \in Payloads, Validate(t, p) PROVE TypeOK'
  BY <1>16, Transitions, PayloadsBecomeDrafts DEF Validate, Open,
       SessionFree, MutationFree, Authenticated, Reviewed
<1>17. ASSUME StageCreate PROVE TypeOK'
  <2>1. DiskType'
    BY <1>17 DEF StageCreate, Running
  <2>2. LauncherType'
    BY <1>17 DEF StageCreate, Running
  <2>3. SessionType'
    BY <1>17 DEF StageCreate, Running
  <2>4. CommitterType'
    BY <1>17 DEF StageCreate, Running
  <2>5. ControllerType'
    BY <1>17 DEF StageCreate, Running
  <2> QED
    BY <2>1, <2>2, <2>3, <2>4, <2>5
<1>18. ASSUME StageMarker PROVE TypeOK'
  BY <1>18 DEF StageMarker, Running
<1>19. ASSUME StageFiles PROVE TypeOK'
  BY <1>19 DEF StageFiles, Running
<1>20. ASSUME StageDatabase PROVE TypeOK'
  BY <1>20 DEF StageDatabase, Running
<1>21. ASSUME VerifyStage PROVE TypeOK'
  BY <1>21 DEF VerifyStage, Running, Verified
<1>22. ASSUME MarkStage PROVE TypeOK'
  BY <1>22 DEF MarkStage, Running
<1>23. ASSUME Publish PROVE TypeOK'
  BY <1>23, StoredAreSecrets DEF Publish, Running
<1>24. ASSUME Postcheck PROVE TypeOK'
  BY <1>24, Transitions DEF Postcheck, Running, Verified
<1>25. ASSUME StepFails PROVE TypeOK'
  BY <1>25 DEF StepFails, Running
<1>26. ASSUME Unpublish PROVE TypeOK'
  <2>1. DiskType'
    BY <1>26 DEF Unpublish
  <2>2. LauncherType'
    BY <1>26 DEF Unpublish
  <2>3. SessionType'
    BY <1>26 DEF Unpublish
  <2>4. CommitterType'
    BY <1>26 DEF Unpublish
  <2>5. ControllerType'
    BY <1>26 DEF Unpublish
  <2> QED
    BY <2>1, <2>2, <2>3, <2>4, <2>5
<1>27. ASSUME RemoveStage PROVE TypeOK'
  BY <1>27 DEF RemoveStage
<1>28. ASSUME RolledBack PROVE TypeOK'
  BY <1>28, Transitions DEF RolledBack
<1>29. ASSUME RollbackFails PROVE TypeOK'
  <2>1. DiskType'
    BY <1>29, Transitions DEF RollbackFails
  <2>2. LauncherType'
    BY <1>29, Transitions DEF RollbackFails
  <2>3. SessionType'
    BY <1>29, Transitions DEF RollbackFails
  <2>4. CommitterType'
    BY <1>29, Transitions DEF RollbackFails
  <2>5. ControllerType'
    BY <1>29, Transitions DEF RollbackFails
  <2> QED
    BY <2>1, <2>2, <2>3, <2>4, <2>5
<1>30. ASSUME ExpireDecides PROVE TypeOK'
  BY <1>30 DEF ExpireDecides, Open, SessionFree, MutationFree,
       Authenticated
<1>31. ASSUME Expire PROVE TypeOK'
  BY <1>31, Transitions DEF Expire, Open, SessionFree, MutationFree,
       Authenticated
<1>32. ASSUME Interrupt PROVE TypeOK'
  BY <1>32 DEF Interrupt, Open, SessionFree, MutationFree, Authenticated
<1>33. ASSUME InterruptCancels PROVE TypeOK'
  BY <1>33, Transitions DEF InterruptCancels, Open, SessionFree,
       MutationFree, Authenticated
<1>34. ASSUME Shutdown PROVE TypeOK'
  BY <1>34 DEF Shutdown, Open, SessionFree, MutationFree, Authenticated
<1>35. ASSUME Crash PROVE TypeOK'
  <2>1. DiskType'
    BY <1>35 DEF Crash, FreshProcess, Abandoned
  <2>2. LauncherType'
    BY <1>35 DEF Crash, FreshProcess, Abandoned
  <2>3. SessionType'
    BY <1>35 DEF Crash, FreshProcess, Abandoned
  <2>4. CommitterType'
    BY <1>35 DEF Crash, FreshProcess, Abandoned
  <2>5. ControllerType'
    BY <1>35 DEF Crash, FreshProcess, Abandoned
  <2> QED
    BY <2>1, <2>2, <2>3, <2>4, <2>5
<1>36. ASSUME PortChanges PROVE TypeOK'
  BY <1>36 DEF PortChanges
<1>37. CASE UNCHANGED vars
  BY <1>37 DEF vars
<1> QED
  BY <1>1, <1>2, <1>3, <1>4, <1>5, <1>6, <1>7, <1>8, <1>9, <1>10, <1>11,
       <1>12, <1>13, <1>14, <1>15, <1>16, <1>17, <1>18, <1>19, <1>20, <1>21,
       <1>22, <1>23, <1>24, <1>25, <1>26, <1>27, <1>28, <1>29, <1>30, <1>31,
       <1>32, <1>33, <1>34, <1>35, <1>36, <1>37 DEF Next, MainSteps, Requests,
       CommitSteps, Watch

-----------------------------------------------------------------------------
(***************************************************************************)
(* Every step keeps the other conjuncts.                                   *)
(***************************************************************************)
\* One step per action.
LEMMA RestStep ==
    ASSUME IInv, [Next]_vars
    PROVE  Rest'
<1> USE DEF IInv, Rest, LiveIsPublished, OneCommit, ResultIsHanded, StageGrows,
            InstanceIsWhole, TokensMeanDrafts, EndsAreAbsorbing, NotShown,
            TypeOK, DiskType, LauncherType, SessionType, CommitterType,
            ControllerType, Entries, Absorbing, Committing, disk, launcher,
            session, committer, controller, CommitterRest
<1>1. ASSUME Launch PROVE Rest'
  BY <1>1 DEF Launch, FreshProcess
<1>2. ASSUME CleanStage PROVE Rest'
  BY <1>2 DEF CleanStage
<1>3. ASSUME Classify PROVE Rest'
  BY <1>3 DEF Classify
<1>4. ASSUME VerifyManaged PROVE Rest'
  BY <1>4 DEF VerifyManaged
<1>5. ASSUME ApplySecrets PROVE Rest'
  BY <1>5 DEF ApplySecrets
<1>6. ASSUME Serve PROVE Rest'
  BY <1>6 DEF Serve
<1>7. ASSUME ReaderEdits PROVE Rest'
  BY <1>7 DEF ReaderEdits
<1>8. ASSUME StopReader PROVE Rest'
  BY <1>8 DEF StopReader
<1>9. ASSUME EndSetup PROVE Rest'
  <2>1. LiveIsPublished'
    BY <1>9 DEF EndSetup, Abandoned
  <2>2. OneCommit'
    BY <1>9 DEF EndSetup, Abandoned
  <2>3. ResultIsHanded'
    BY <1>9 DEF EndSetup, Abandoned
  <2>4. StageGrows'
    BY <1>9 DEF EndSetup, Abandoned
  <2>5. InstanceIsWhole'
    BY <1>9 DEF EndSetup, Abandoned
  <2>6. TokensMeanDrafts'
    BY <1>9 DEF EndSetup, Abandoned
  <2>7. EndsAreAbsorbing'
    BY <1>9 DEF EndSetup, Abandoned
  <2> QED
    BY <2>1, <2>2, <2>3, <2>4, <2>5, <2>6, <2>7
<1>10. ASSUME Bootstrap PROVE Rest'
  BY <1>10, Transitions DEF Bootstrap, Open, SessionFree, MutationFree,
       Authenticated
<1>11. ASSUME Edit PROVE Rest'
  BY <1>11, Transitions DEF Edit, Open, SessionFree, MutationFree,
       Authenticated
<1>12. ASSUME Cancel PROVE Rest'
  BY <1>12, Transitions DEF Cancel, Open, SessionFree, MutationFree,
       Authenticated
<1>13. ASSUME Answer PROVE Rest'
  BY <1>13 DEF Answer
<1>14. ASSUME NEW t \in Tabs, Complete(t) PROVE Rest'
  <2>1. LiveIsPublished'
    BY <1>14, Transitions, NoDraftIsNone DEF Complete, Open, SessionFree,
         MutationFree, Authenticated
  <2>2. OneCommit'
    BY <1>14, Transitions, NoDraftIsNone DEF Complete, Open, SessionFree,
         MutationFree, Authenticated
  <2>3. ResultIsHanded'
    BY <1>14, Transitions, NoDraftIsNone DEF Complete, Open, SessionFree,
         MutationFree, Authenticated
  <2>4. StageGrows'
    BY <1>14, Transitions, NoDraftIsNone DEF Complete, Open, SessionFree,
         MutationFree, Authenticated
  <2>5. InstanceIsWhole'
    BY <1>14, Transitions, NoDraftIsNone DEF Complete, Open, SessionFree,
         MutationFree, Authenticated
  <2>6. TokensMeanDrafts'
    BY <1>14, Transitions, NoDraftIsNone DEF Complete, Open, SessionFree,
         MutationFree, Authenticated
  <2>7. EndsAreAbsorbing'
    BY <1>14, Transitions, NoDraftIsNone DEF Complete, Open, SessionFree,
         MutationFree, Authenticated
  <2> QED
    BY <2>1, <2>2, <2>3, <2>4, <2>5, <2>6, <2>7
<1>15. ASSUME NEW t \in Tabs, Replay(t) PROVE Rest'
  BY <1>15, Transitions DEF Replay, Open, SessionFree, MutationFree,
       Authenticated
<1>16. ASSUME NEW t \in Tabs, NEW p \in Payloads, Validate(t, p) PROVE Rest'
  BY <1>16, Transitions, PayloadsBecomeDrafts DEF Validate, Open,
       SessionFree, MutationFree, Authenticated, Reviewed
<1>17. ASSUME StageCreate PROVE Rest'
  BY <1>17 DEF StageCreate, Running
<1>18. ASSUME StageMarker PROVE Rest'
  BY <1>18 DEF StageMarker, Running
<1>19. ASSUME StageFiles PROVE Rest'
  BY <1>19 DEF StageFiles, Running
<1>20. ASSUME StageDatabase PROVE Rest'
  BY <1>20 DEF StageDatabase, Running
<1>21. ASSUME VerifyStage PROVE Rest'
  BY <1>21 DEF VerifyStage, Running, Verified
<1>22. ASSUME MarkStage PROVE Rest'
  BY <1>22 DEF MarkStage, Running
<1>23. ASSUME Publish PROVE Rest'
  <2>1. LiveIsPublished'
    BY <1>23 DEF Publish, Running
  <2>2. OneCommit'
    BY <1>23 DEF Publish, Running
  <2>3. ResultIsHanded'
    BY <1>23 DEF Publish, Running
  <2>4. StageGrows'
    BY <1>23 DEF Publish, Running
  <2>5. InstanceIsWhole'
    BY <1>23 DEF Publish, Running
  <2>6. TokensMeanDrafts'
    BY <1>23 DEF Publish, Running
  <2>7. EndsAreAbsorbing'
    BY <1>23 DEF Publish, Running
  <2> QED
    BY <2>1, <2>2, <2>3, <2>4, <2>5, <2>6, <2>7
<1>24. ASSUME Postcheck PROVE Rest'
  <2>1. LiveIsPublished'
    BY <1>24, Transitions, NoDraftIsNone DEF Postcheck, Running, Verified
  <2>2. OneCommit'
    BY <1>24, Transitions, NoDraftIsNone DEF Postcheck, Running, Verified
  <2>3. ResultIsHanded'
    BY <1>24, Transitions, NoDraftIsNone DEF Postcheck, Running, Verified
  <2>4. StageGrows'
    BY <1>24, Transitions, NoDraftIsNone DEF Postcheck, Running, Verified
  <2>5. InstanceIsWhole'
    BY <1>24, Transitions, NoDraftIsNone DEF Postcheck, Running, Verified
  <2>6. TokensMeanDrafts'
    BY <1>24, Transitions, NoDraftIsNone DEF Postcheck, Running, Verified
  <2>7. EndsAreAbsorbing'
    BY <1>24, Transitions, NoDraftIsNone DEF Postcheck, Running, Verified
  <2> QED
    BY <2>1, <2>2, <2>3, <2>4, <2>5, <2>6, <2>7
<1>25. ASSUME StepFails PROVE Rest'
  BY <1>25 DEF StepFails, Running
<1>26. ASSUME Unpublish PROVE Rest'
  BY <1>26 DEF Unpublish
<1>27. ASSUME RemoveStage PROVE Rest'
  BY <1>27 DEF RemoveStage
<1>28. ASSUME RolledBack PROVE Rest'
  BY <1>28, Transitions DEF RolledBack
<1>29. ASSUME RollbackFails PROVE Rest'
  BY <1>29, Transitions, NoDraftIsNone DEF RollbackFails
<1>30. ASSUME ExpireDecides PROVE Rest'
  BY <1>30 DEF ExpireDecides, Open, SessionFree, MutationFree,
       Authenticated
<1>31. ASSUME Expire PROVE Rest'
  BY <1>31, Transitions DEF Expire, Open, SessionFree, MutationFree,
       Authenticated
<1>32. ASSUME Interrupt PROVE Rest'
  BY <1>32 DEF Interrupt, Open, SessionFree, MutationFree, Authenticated
<1>33. ASSUME InterruptCancels PROVE Rest'
  BY <1>33, Transitions DEF InterruptCancels, Open, SessionFree,
       MutationFree, Authenticated
<1>34. ASSUME Shutdown PROVE Rest'
  BY <1>34 DEF Shutdown, Open, SessionFree, MutationFree, Authenticated
<1>35. ASSUME Crash PROVE Rest'
  BY <1>35 DEF Crash, FreshProcess, Abandoned
<1>36. ASSUME PortChanges PROVE Rest'
  BY <1>36 DEF PortChanges
<1>37. CASE UNCHANGED vars
  BY <1>37 DEF vars
<1> QED
  BY <1>1, <1>2, <1>3, <1>4, <1>5, <1>6, <1>7, <1>8, <1>9, <1>10, <1>11,
       <1>12, <1>13, <1>14, <1>15, <1>16, <1>17, <1>18, <1>19, <1>20, <1>21,
       <1>22, <1>23, <1>24, <1>25, <1>26, <1>27, <1>28, <1>29, <1>30, <1>31,
       <1>32, <1>33, <1>34, <1>35, <1>36, <1>37 DEF Next, MainSteps, Requests,
       CommitSteps, Watch

-----------------------------------------------------------------------------
(***************************************************************************)
(* The theorems.                                                           *)
(***************************************************************************)
\* The first state has the type.
LEMMA InitialType == Init => TypeOK
<1> SUFFICES ASSUME Init PROVE TypeOK
  OBVIOUS
<1>1. DiskType
  BY DEF Init, DiskType, Entries
<1>2. LauncherType
  BY DEF Init, LauncherType
<1>3. SessionType
  BY DEF Init, SessionType
<1>4. CommitterType
  BY DEF Init, CommitterType
<1>5. ControllerType
  BY DEF Init, ControllerType
<1> QED
  BY <1>1, <1>2, <1>3, <1>4, <1>5 DEF TypeOK

\* Whatever the number of tabs, payloads, reviews and starts: every variable
\* keeps its type.
THEOREM SetupTypeCorrect == Spec => []TypeOK
<1>1. Init => TypeOK
  BY InitialType
<1>2. TypeOK /\ [Next]_vars => TypeOK'
  BY TypeStep
<1> QED
  BY <1>1, <1>2, PTL DEF Spec

\* The inductive invariant holds.
LEMMA SetupInductive == Spec => []IInv
<1>1. Init => IInv
  <2>1. Init => TypeOK
    BY InitialType
  <2>2. ASSUME Init PROVE Rest
    BY <2>2 DEF Init, Rest, LiveIsPublished, OneCommit, ResultIsHanded,
                StageGrows, InstanceIsWhole, TokensMeanDrafts,
                EndsAreAbsorbing
  <2> QED
    BY <2>1, <2>2 DEF IInv
<1>2. IInv /\ [Next]_vars => IInv'
  BY TypeStep, RestStep DEF IInv
<1> QED
  BY <1>1, <1>2, PTL DEF Spec

\* A setup that failed, was cancelled or ran out of time left no instance, and
\* the launcher says "without changes" only when there is none.
THEOREM FailedSetupLeavesNoReader == Spec => []NoReaderUnlessComplete
<1>1. IInv => NoReaderUnlessComplete
  BY DEF IInv, Rest, LiveIsPublished, ResultIsHanded, NoReaderUnlessComplete
<1> QED
  BY <1>1, SetupInductive, PTL

\* What is served was verified before it was vouched for, after any crash.
THEOREM ServedInstanceIsWhole == Spec => []ServedIsComplete
<1>1. IInv => ServedIsComplete
  BY DEF IInv, Rest, InstanceIsWhole, ServedIsComplete
<1> QED
  BY <1>1, SetupInductive, PTL

\* The instance a tab completed is the one that tab had reviewed.
THEOREM PublishedWasReviewed == Spec => []PublishedAsReviewed
<1>1. ASSUME IInv, phase = "complete", applying # Nobody
      PROVE  /\ shown[applying] # NotShown /\ shown[applying].draft = draft
             /\ draft \in Drafts
             /\ about.draft = draft /\ about.stored = StoredSecrets(draft)
  BY <1>1 DEF IInv, Rest, TypeOK, ControllerType, TokensMeanDrafts
<1>2. IInv => PublishedAsReviewed
  BY <1>1, ReviewIsTrue DEF PublishedAsReviewed
<1> QED
  BY <1>2, SetupInductive, PTL

-----------------------------------------------------------------------------
(***************************************************************************)
(* What is published stays.                                                *)
(***************************************************************************)
\* An instance is neither replaced nor emptied; the only step that takes one
\* away is the rollback of the commit that published it.
ReaderStays == about' = about /\ inst \ {"opml"} \subseteq inst'

RolledBackInTime ==
    /\ pc = "setup" /\ phase = "committing" /\ failing /\ published
    /\ reply = "none" /\ ~handed

ReaderIsKept == inst # {} => ReaderStays \/ (inst' = {} /\ RolledBackInTime)

\* A commit does not find an instance in its way.
LEMMA CommitKeepsReader ==
    ASSUME IInv, CommitSteps
    PROVE  ReaderIsKept
<1>1. CASE Publish
  BY <1>1 DEF Publish, Running, IInv, Rest, LiveIsPublished, ReaderIsKept
<1>2. CASE Unpublish
  <2>1. phase = "committing" /\ failing /\ pc = "setup" /\ published /\ inst' = {}
    BY <1>2 DEF Unpublish
  <2>2. reply = "none" /\ ~handed
    BY <2>1 DEF IInv, Rest, OneCommit, ResultIsHanded
  <2> QED
    BY <2>1, <2>2 DEF ReaderIsKept, RolledBackInTime
<1>3. CASE StageCreate \/ StageMarker \/ StageFiles \/ StageDatabase \/ VerifyStage \/ MarkStage
           \/ Postcheck \/ StepFails \/ RemoveStage \/ RolledBack \/ RollbackFails
  BY <1>3 DEF StageCreate, StageMarker, StageFiles, StageDatabase, VerifyStage, MarkStage,
     Postcheck, StepFails, RemoveStage, RolledBack, RollbackFails, disk, ReaderIsKept, ReaderStays
<1> QED
  BY <1>1, <1>2, <1>3 DEF CommitSteps

\* Whatever is there when a process starts, and whatever a session has
\* completed, stays there: no later start, tab, commit, rollback or crash
\* replaces or empties it.  Only the commit that published an instance may
\* take it back, and then before anybody was given the result.
THEOREM PublishedIsKept == Spec => [][ReaderIsKept]_vars
<1>1. ASSUME IInv, Next
      PROVE  ReaderIsKept
  <2> USE DEF ReaderIsKept, ReaderStays, disk
  <2>1. CASE Launch \/ CleanStage \/ Classify \/ ApplySecrets \/ Serve \/ StopReader \/ EndSetup
    BY <2>1 DEF Launch, CleanStage, Classify, ApplySecrets, Serve, StopReader, EndSetup
  <2>2. CASE VerifyManaged
    BY <2>2 DEF VerifyManaged
  <2>3. CASE ReaderEdits
    BY <2>3 DEF ReaderEdits
  <2>4. CASE Requests
    BY <2>4 DEF Requests, Bootstrap, Edit, Cancel, Answer, Complete, Replay, Validate
  <2>5. CASE Watch
    BY <2>5 DEF Watch, ExpireDecides, Expire, Interrupt, InterruptCancels, Shutdown
  <2>6. CASE Crash \/ PortChanges
    BY <2>6 DEF Crash, PortChanges
  <2> QED
    BY <1>1, <2>1, <2>2, <2>3, <2>4, <2>5, <2>6, CommitKeepsReader DEF Next, MainSteps
<1>2. IInv /\ [Next]_vars => [ReaderIsKept]_vars
  BY <1>1
<1> QED
  BY <1>2, SetupInductive, PTL DEF Spec

-----------------------------------------------------------------------------
(***************************************************************************)
(* A commit ends: the safety half of SetupEnds, whose deadline waits for   *)
(* the lock that a commit holds.                                           *)
(***************************************************************************)
\* What is left of a stage to remove.
Parts(tree) ==
    (IF "dir" \in tree THEN 1 ELSE 0) + (IF "marker" \in tree THEN 1 ELSE 0)
    + (IF tree \subseteq {"dir", "marker"} THEN 0 ELSE 1)

\* The steps ahead of a commit that nothing has failed of.
Ahead(label, tree) ==
    CASE label = "staging_files" -> IF tree = {} THEN 7 ELSE IF tree = {"dir"} THEN 6 ELSE 5
      [] label = "staging_database" -> 4
      [] label = "verifying_stage" -> 3
      [] label = "marking_stage" -> 2
      [] label = "publishing" -> 1
      [] OTHER -> 0

\* While a commit holds the session's lock: its steps, or those of its
\* rollback.
LockLeft ==
    IF phase # "committing" THEN 0
    ELSE IF ~failing THEN 6 + Ahead(cphase, stage)
    ELSE IF published THEN 5 ELSE 1 + Parts(stage)

LockCountsDown ==
    phase = "committing" => /\ LockLeft' <= LockLeft
                            /\ CommitSteps /\ vars' # vars => LockLeft' < LockLeft

\* What is left is a number.
LEMMA LockIsBounded ==
    ASSUME NEW label, NEW tree
    PROVE  Ahead(label, tree) \in 0 .. 7 /\ Parts(tree) \in 0 .. 3
  BY DEF Ahead, Parts

\* Each step of a commit, and each of its rollback, is one less.
LEMMA CommitCountsDown ==
    ASSUME IInv, CommitSteps
    PROVE  /\ LockLeft' <= LockLeft
           /\ vars' # vars => LockLeft' < LockLeft
<1> USE DEF LockLeft, CommitterRest, session
<1>1. phase = "committing"
  BY DEF CommitSteps, StageCreate, StageMarker, StageFiles, StageDatabase, VerifyStage, MarkStage,
     Publish, Postcheck, StepFails, Unpublish, RemoveStage, RolledBack, RollbackFails, Running
<1>2. CASE StageCreate \/ StageMarker
  BY <1>1, <1>2 DEF StageCreate, StageMarker, Running, Ahead, committer
<1>3. CASE StageFiles \/ StageDatabase \/ VerifyStage \/ MarkStage \/ Publish
  <2>1. phase' = "committing" /\ ~failing /\ ~failing'
    BY <1>1, <1>3 DEF StageFiles, StageDatabase, VerifyStage, MarkStage, Publish, Running
  <2>2. Ahead(cphase', stage') < Ahead(cphase, stage)
    BY <1>1, <1>3 DEF StageFiles, StageDatabase, VerifyStage, MarkStage, Publish, Running, Ahead
  <2> QED
    BY <1>1, <2>1, <2>2, LockIsBounded
<1>4. CASE Postcheck \/ RolledBack \/ RollbackFails
  <2>1. phase' # "committing"
    BY <1>1, <1>4, Transitions DEF Postcheck, RolledBack, RollbackFails
  <2>2. LockLeft \in Nat /\ LockLeft > 0
    BY <1>1, LockIsBounded
  <2> QED
    BY <2>1, <2>2
<1>5. CASE StepFails
  <2>1. phase' = "committing" /\ ~failing /\ failing'
    BY <1>1, <1>5 DEF StepFails, Running
  <2> QED
    BY <1>1, <2>1, LockIsBounded
<1>6. CASE Unpublish
  <2>1. phase' = "committing" /\ failing /\ failing' /\ published /\ ~published'
    BY <1>1, <1>6 DEF Unpublish
  <2> QED
    BY <1>1, <2>1, LockIsBounded
<1>7. CASE RemoveStage
  <2>1. /\ phase' = "committing" /\ failing /\ failing' /\ ~published /\ ~published'
        /\ UNCHANGED <<inst, about, checked, strays, committer, CommitterRest>>
    BY <1>1, <1>7 DEF RemoveStage, committer
  <2>2. stage' = stage => vars' = vars
    BY <2>1 DEF vars, disk
  <2>3. stage' # stage => Parts(stage') < Parts(stage)
    BY <1>7 DEF RemoveStage, Parts, Entries, IInv, TypeOK, DiskType
  <2> QED
    BY <1>1, <2>1, <2>2, <2>3, LockIsBounded
<1> QED
  BY <1>2, <1>3, <1>4, <1>5, <1>6, <1>7 DEF CommitSteps

\* A commit holds the session's lock for 13 steps at most: each of them, or
\* of its rollback, is one less, and neither tabs, the watcher, Ctrl-C nor
\* the port add any.  So the deadline and the cancellation that wait for the
\* lock find it free again.
THEOREM CommitsEnd ==
    Spec => [](LockLeft \in 0 .. 13) /\ [][LockCountsDown]_vars
<1>1. ASSUME IInv, Next, ~CommitSteps, phase = "committing"
      PROVE  LockLeft' <= LockLeft
  <2>1. LockLeft \in Nat
    BY LockIsBounded DEF LockLeft
  <2>2. /\ pc = "setup" /\ reply = "none" /\ ~terminal /\ ~SessionFree
    BY <1>1 DEF IInv, Rest, OneCommit, EndsAreAbsorbing, Absorbing, SessionFree
  <2>3. ~MainSteps
    BY <2>2 DEF MainSteps, Launch, CleanStage, Classify, VerifyManaged, ApplySecrets, Serve,
       ReaderEdits, StopReader, EndSetup
  <2>4. ~Requests
    BY <2>2 DEF Requests, Bootstrap, Edit, Cancel, Answer, Complete, Replay, Validate
  <2>5. CASE Crash
    <3>1. LockLeft' = 0
      BY <2>5 DEF Crash, FreshProcess, LockLeft
    <3> QED
      BY <2>1, <3>1
  <2>6. CASE Watch \/ PortChanges
    <3>1. UNCHANGED <<phase, failing, cphase, stage, published>>
      BY <2>2, <2>6 DEF Watch, ExpireDecides, Expire, Interrupt, InterruptCancels, Shutdown,
         PortChanges, disk, session, committer
    <3>2. LockLeft' = LockLeft
      BY <3>1 DEF LockLeft
    <3> QED
      BY <2>1, <3>2
  <2> QED
    BY <1>1, <2>3, <2>4, <2>5, <2>6 DEF Next
<1>2. IInv /\ [Next]_vars => [LockCountsDown]_vars
  BY <1>1, CommitCountsDown DEF LockCountsDown
<1>3. LockLeft \in 0 .. 13
  BY LockIsBounded DEF LockLeft
<1> QED
  BY <1>2, <1>3, SetupInductive, PTL DEF Spec

-----------------------------------------------------------------------------
(***************************************************************************)
(* FirstRun implements SetupOutcome.                                       *)
(***************************************************************************)
\* What the mapping needs beside IInv: an instance is somebody's reader, a page
\* that is closing has come to its end, a start begins in silence, and what
\* has been completed is there.
MappedWell ==
    /\ inst # {} => about \in Readers
    /\ pc = "closing" => phase \in Absorbing
    /\ pc = "cleaning" => said = "nothing"
    /\ AtPage /\ phase = "complete" => inst # {}

\* A draft makes a reader, and no reader is none.
LEMMA DraftsMakeReaders ==
    /\ NoReader \notin Readers
    /\ \A d \in Drafts : Made(d) \in Readers
<1>1. \A d \in Drafts : Made(d) # NoReader
  BY NoDraftIsNone DEF Made, NoReader
<1> QED
  BY <1>1 DEF Readers

\* A request or the watcher leaves the directory alone, and what was said.
LEMMA PageLeavesDisk ==
    ASSUME Requests \/ Watch
    PROVE  UNCHANGED <<inst, about, said>>
  BY DEF Requests, Watch, Bootstrap, Edit, Cancel, Answer, Complete, Replay, Validate, ExpireDecides,
     Expire, Interrupt, InterruptCancels, Shutdown, disk, launcher

\* The visit, and what was asked for, by the position of the launcher and the
\* phase of the session.
LEMMA Visits ==
    ASSUME TypeOK
    PROVE  /\ ~AtPage => Visit = "none" /\ Asked = NoReader
           /\ AtPage /\ phase = "committing" => Visit = "creating" /\ Asked = Made(draft)
           /\ AtPage /\ phase = "complete" => Visit = "created" /\ Asked = NoReader
           /\ AtPage /\ phase = "recovery_required" => Visit = "unsure" /\ Asked = NoReader
           /\ AtPage /\ phase \in {"cancelled", "timed_out"}
                => Visit = "given_up" /\ Asked = NoReader
           /\ AtPage /\ phase \in {"listening", "editing", "reviewed", "failed"}
                => Visit = "open" /\ Asked = NoReader
  BY DEF Visit, Asked

\* Every step keeps what the mapping needs.
LEMMA MappedWellStep ==
    ASSUME IInv, MappedWell, [Next]_vars
    PROVE  MappedWell'
<1>1. CASE MainSteps
  <2> USE DEF MappedWell, disk, IInv, Rest, InstanceIsWhole
  <2>1. CASE Launch \/ CleanStage \/ Classify \/ ApplySecrets \/ Serve \/ StopReader \/ EndSetup
    BY <2>1 DEF Launch, CleanStage, Classify, ApplySecrets, Serve, StopReader, EndSetup,
       FreshProcess, session, AtPage, EndsAreAbsorbing
  <2>2. CASE VerifyManaged
    BY <2>2 DEF VerifyManaged, AtPage
  <2>3. CASE ReaderEdits
    BY <2>3 DEF ReaderEdits, launcher, AtPage
  <2> QED
    BY <1>1, <2>1, <2>2, <2>3 DEF MainSteps
<1>2. CASE Requests
  <2>1. pc' = pc /\ (pc = "closing" => phase' = phase)
    BY <1>2 DEF Requests, Bootstrap, Edit, Cancel, Answer, Complete, Replay, Validate, Open,
       launcher, session
  <2>2. phase' = "complete" => phase = "complete"
    BY <1>2, Transitions DEF Requests, Bootstrap, Edit, Cancel, Answer, Complete, Replay, Validate,
       Reviewed, session
  <2> QED
    BY <1>2, <2>1, <2>2, PageLeavesDisk DEF MappedWell, AtPage
<1>3. CASE CommitSteps
  <2>1. pc' = pc /\ said' = said /\ pc = "setup"
    BY <1>3 DEF CommitSteps, StageCreate, StageMarker, StageFiles, StageDatabase, VerifyStage,
       MarkStage, Publish, Postcheck, StepFails, Unpublish, RemoveStage, RolledBack, RollbackFails,
       Running, CommitterRest, launcher
  <2>2. CASE Publish
    <3>1. draft \in Drafts /\ about' = Made(draft)
      BY <2>2 DEF Publish, Running, IInv, Rest, TokensMeanDrafts, Made
    <3> QED
      BY <2>1, <2>2, <3>1, DraftsMakeReaders DEF MappedWell, Publish, Running, CommitterRest, session
  <2>3. CASE ~Publish
    <3>2. phase' = "complete" => inst' # {}
      BY <1>3, <2>3, Transitions DEF CommitSteps, StageCreate, StageMarker, StageFiles,
         StageDatabase, VerifyStage, MarkStage, Postcheck, Verified, StepFails, Unpublish, RemoveStage,
         RolledBack, RollbackFails, Running, CommitterRest, session, disk
    <3>1. inst' = {} \/ UNCHANGED <<inst, about>>
      BY <1>3, <2>3 DEF CommitSteps, StageCreate, StageMarker, StageFiles, StageDatabase,
         VerifyStage, MarkStage, Postcheck, StepFails, Unpublish, RemoveStage, RolledBack,
         RollbackFails, disk
    <3> QED
      BY <2>1, <3>1, <3>2 DEF MappedWell
  <2> QED
    BY <2>2, <2>3
<1>4. CASE Watch
  <2>1. pc' = "closing" => phase' \in Absorbing
    <3>1. CASE InterruptCancels
      BY <3>1, Transitions DEF InterruptCancels, SessionFree, IInv, TypeOK, SessionType, Absorbing
    <3>2. CASE Shutdown
      BY <3>2 DEF Shutdown, session, IInv, Rest, EndsAreAbsorbing
    <3>3. CASE ExpireDecides \/ Expire \/ Interrupt
      BY <3>3 DEF ExpireDecides, Expire, Interrupt, Open, launcher
    <3> QED
      BY <1>4, <3>1, <3>2, <3>3 DEF Watch
  <2>2. (pc' = "cleaning" => pc = "cleaning") /\ (AtPage' => AtPage)
    BY <1>4 DEF Watch, ExpireDecides, Expire, Interrupt, InterruptCancels, Shutdown, Open, launcher,
       AtPage
  <2>3. phase' = "complete" => phase = "complete"
    BY <1>4, Transitions DEF Watch, ExpireDecides, Expire, Interrupt, InterruptCancels, Shutdown,
       SessionFree, session, IInv, TypeOK, SessionType, Absorbing
  <2> QED
    BY <1>4, <2>1, <2>2, <2>3, PageLeavesDisk DEF MappedWell
<1>5. CASE Crash \/ PortChanges \/ UNCHANGED vars
  BY <1>5 DEF Crash, PortChanges, vars, disk, launcher, session, MappedWell, AtPage
<1> QED
  BY <1>1, <1>2, <1>3, <1>4, <1>5 DEF Next

\* The launcher's own steps: a start that serves or refuses, a page that opens
\* or closes.
LEMMA MainStepsMap ==
    ASSUME IInv, MappedWell, MainSteps
    PROVE  [Outcome!OutcomeNext]_Outcome!setupVars
<1>p. TypeOK
  BY DEF IInv
<1>1. CASE Launch \/ CleanStage \/ ApplySecrets \/ Serve \/ StopReader
  <2>1. ~AtPage /\ ~AtPage' /\ UNCHANGED <<inst, about>>
    BY <1>1 DEF Launch, CleanStage, ApplySecrets, Serve, StopReader, AtPage, disk
  <2>2. Visit = "none" /\ Visit' = "none" /\ UNCHANGED <<Live, Asked>>
    BY <1>p, <2>1, Visits DEF Live, Asked, Visit
  <2>3. said' = said \/ said' \in {"nothing", "refused"} \/ (said' = "ready" /\ Live # NoReader)
    BY <1>1, DraftsMakeReaders DEF Launch, CleanStage, ApplySecrets, Serve, StopReader, IInv, Rest,
       InstanceIsWhole, MappedWell, Live
  <2> QED
    BY <2>2, <2>3 DEF Outcome!OutcomeNext, Outcome!Say, Outcome!setupVars
<1>2. CASE Classify
  <2>1. ~AtPage /\ Visit = "none" /\ said = "nothing" /\ Asked = NoReader
    BY <1>2, <1>p, Visits DEF Classify, AtPage, MappedWell
  <2>2. Live' = Live
    BY <1>2 DEF Classify, disk, Live
  <2>3. CASE pc' = "setup"
    <3>1. Live = NoReader /\ said' = said /\ phase' = "listening" /\ AtPage'
      BY <1>2, <2>3 DEF Classify, Live, session, AtPage, IInv, Rest, EndsAreAbsorbing
    <3>2. Visit' = "open" /\ Asked' = NoReader
      BY <3>1 DEF Visit, Asked
    <3> QED
      BY <2>1, <2>2, <3>1, <3>2 DEF Outcome!OutcomeNext, Outcome!OpenPage
  <2>4. CASE pc' # "setup"
    <3>1. ~AtPage' /\ said' \in {said, "refused"}
      BY <1>2, <2>4 DEF Classify, AtPage
    <3>2. Visit' = "none" /\ Asked' = NoReader
      BY <3>1 DEF Visit, Asked
    <3> QED
      BY <2>1, <2>2, <3>1, <3>2 DEF Outcome!OutcomeNext, Outcome!Say
  <2> QED
    BY <2>3, <2>4
<1>3. CASE VerifyManaged \/ ReaderEdits
  <2>1. ~AtPage /\ ~AtPage' /\ said' \in {said, "refused"}
    BY <1>3 DEF VerifyManaged, ReaderEdits, launcher, AtPage
  <2>2. about' = about /\ (inst = {} <=> inst' = {})
    BY <1>3 DEF VerifyManaged, ReaderEdits, IInv, Rest, InstanceIsWhole
  <2>3. Visit = "none" /\ Visit' = "none" /\ UNCHANGED <<Live, Asked>>
    BY <2>1, <2>2 DEF Live, Asked, Visit
  <2> QED
    BY <2>1, <2>3 DEF Outcome!OutcomeNext, Outcome!Say, Outcome!setupVars
<1>4. CASE EndSetup
  <2>1. AtPage /\ ~AtPage' /\ phase \in Absorbing /\ reply = "none"
    BY <1>4 DEF EndSetup, AtPage, MappedWell
  <2>2. Live' = Live /\ Visit' = "none" /\ Asked' = NoReader /\ Asked = NoReader
    BY <1>4, <2>1, <1>p, Visits DEF EndSetup, Live, Asked, Visit, Absorbing
  <2>3. CASE phase = "recovery_required"
    BY <1>4, <2>1, <2>2, <2>3, <1>p, Visits DEF EndSetup, Outcome!OutcomeNext, Outcome!Close
  <2>4. CASE phase = "complete"
    <3>1. handed /\ inst # {} /\ "config" \in inst
      BY <1>4, <2>1, <2>4 DEF EndSetup, IInv, Rest, ResultIsHanded, InstanceIsWhole,
         MappedWell
    <3>2. Live # NoReader /\ said' = said
      BY <1>4, <2>4, <3>1, DraftsMakeReaders DEF EndSetup, Live, MappedWell
    <3> QED
      BY <2>1, <2>2, <2>4, <3>2, <1>p, Visits DEF Outcome!OutcomeNext, Outcome!Close
  <2>5. CASE phase \in {"cancelled", "timed_out"}
    <3>1. ~handed /\ inst = {}
      BY <1>4, <2>1, <2>5 DEF EndSetup, IInv, Rest, ResultIsHanded, LiveIsPublished, AtPage
    <3>2. Live = NoReader /\ said' = "no_changes"
      BY <1>4, <2>5, <3>1 DEF EndSetup, Live
    <3> QED
      BY <2>1, <2>2, <2>5, <3>2, <1>p, Visits DEF Outcome!OutcomeNext, Outcome!Close
  <2> QED
    BY <2>1, <2>3, <2>4, <2>5 DEF Absorbing
<1> QED
  BY <1>1, <1>2, <1>3, <1>4 DEF MainSteps

\* A request moves the page, asks for a reader, or changes nothing that counts.
LEMMA RequestsMap ==
    ASSUME IInv, Requests
    PROVE  [Outcome!OutcomeNext]_Outcome!setupVars
<1>p. TypeOK /\ UNCHANGED <<Live, said>>
  BY PageLeavesDisk DEF IInv, Live
<1>1. CASE Answer
  <2>1. UNCHANGED <<pc, phase, draft>>
    BY <1>1 DEF Answer, launcher, session
  <2> QED
    BY <1>p, <2>1 DEF Visit, Asked, AtPage, Outcome!setupVars
<1>2. CASE ~Answer
  <2>1. pc = "setup" /\ pc' = "setup" /\ phase # "committing"
    BY <1>2 DEF Requests, Bootstrap, Edit, Cancel, Complete, Replay, Validate, Open, SessionFree,
       launcher
  <2>2. Asked = NoReader
    BY <1>p, <2>1, Visits DEF AtPage, TypeOK, SessionType, Absorbing
  <2>3. CASE phase' = "committing"
    <3>1. phase = "reviewed" /\ draft' = draft /\ draft \in Drafts
      <4>1. PICK t \in Tabs : Complete(t)
        BY <1>2, <2>1, <2>3, Transitions DEF Requests, Bootstrap, Edit, Cancel, Replay, Validate,
           Reviewed
      <4> QED
        BY <1>p, <2>3, <4>1 DEF Complete, TypeOK, SessionType
    <3>2. Visit = "open" /\ Visit' = "creating" /\ Asked' = Made(draft)
      BY <2>1, <2>3, <3>1 DEF Visit, Asked, AtPage
    <3> QED
      BY <1>p, <3>1, <3>2, DraftsMakeReaders DEF Outcome!OutcomeNext, Outcome!Ask
  <2>4. CASE phase' # "committing"
    <3>1. \/ phase' = phase
          \/ /\ phase \in {"listening", "editing", "reviewed", "failed"}
             /\ phase' \in {"listening", "editing", "reviewed", "failed", "cancelled"}
      BY <1>2, <2>4, Transitions DEF Requests, Bootstrap, Edit, Cancel, Complete, Replay, Validate,
         Reviewed, session
    <3>2. Asked' = NoReader
      BY <2>1, <2>4, <3>1, <1>p DEF Visit, Asked, AtPage, TypeOK, SessionType, Absorbing
    <3>3. Visit' = Visit \/ (Visit = "open" /\ Visit' = "given_up")
      BY <2>1, <3>1 DEF Visit, AtPage
    <3> QED
      BY <1>p, <2>2, <3>2, <3>3 DEF Outcome!OutcomeNext, Outcome!GiveUp, Outcome!setupVars
  <2> QED
    BY <2>3, <2>4
<1> QED
  BY <1>1, <1>2

\* The steps of a commit create, take back and return.
LEMMA CommitStepsMap ==
    ASSUME IInv, MappedWell, CommitSteps
    PROVE  [Outcome!OutcomeNext]_Outcome!setupVars
<1>1. /\ phase = "committing" /\ pc = "setup" /\ pc' = pc /\ said' = said
      /\ Visit = "creating" /\ Asked = Made(draft)
  <2>1. phase = "committing" /\ pc = "setup" /\ pc' = pc /\ said' = said
    BY DEF CommitSteps, StageCreate, StageMarker, StageFiles, StageDatabase, VerifyStage,
       MarkStage, Publish, Postcheck, StepFails, Unpublish, RemoveStage, RolledBack, RollbackFails,
       Running, CommitterRest, launcher
  <2> QED
    BY <2>1 DEF Visit, Asked, AtPage
<1>2. CASE StageCreate \/ StageMarker \/ StageFiles \/ StageDatabase \/ VerifyStage \/ MarkStage
           \/ StepFails \/ RemoveStage
  <2>1. UNCHANGED <<inst, about, phase, draft>>
    BY <1>2 DEF StageCreate, StageMarker, StageFiles, StageDatabase, VerifyStage, MarkStage,
       StepFails, RemoveStage, CommitterRest, session, disk
  <2> QED
    BY <1>1, <2>1 DEF Live, Visit, Asked, AtPage, Outcome!setupVars
<1>3. CASE Publish
  <2>1. inst = {} /\ inst' # {} /\ about' = Made(draft) /\ UNCHANGED <<phase, draft>>
    BY <1>1, <1>3 DEF Publish, Running, CommitterRest, session, Made, IInv, Rest, LiveIsPublished,
       StageGrows
  <2>2. Live = NoReader /\ Live' = Asked /\ Visit' = Visit /\ Asked' = Asked
    BY <1>1, <2>1 DEF Live, Visit, Asked, AtPage
  <2> QED
    BY <1>1, <2>2 DEF Outcome!OutcomeNext, Outcome!Create
<1>4. CASE Unpublish
  <2>1. inst # {} /\ inst' = {} /\ UNCHANGED <<phase, draft>>
    BY <1>4 DEF Unpublish, CommitterRest, session
  <2>2. Live # NoReader /\ Live' = NoReader /\ Visit' = Visit /\ Asked' = Asked
    BY <1>1, <2>1, DraftsMakeReaders DEF Live, Visit, Asked, AtPage, MappedWell
  <2> QED
    BY <1>1, <2>2 DEF Outcome!OutcomeNext, Outcome!TakeBack
<1>5. CASE Postcheck
  <2>1. phase' = "complete" /\ UNCHANGED <<inst, about>> /\ inst # {}
    BY <1>1, <1>5, Transitions DEF Postcheck, Verified, disk
  <2>2. published /\ about = Made(draft)
    BY <1>1, <2>1 DEF IInv, Rest, LiveIsPublished, TokensMeanDrafts, Made
  <2>3. Live = Asked /\ Live' = Live /\ Visit' = "created" /\ Asked' = NoReader
    BY <1>1, <2>1, <2>2 DEF Live, Visit, Asked, AtPage
  <2> QED
    BY <1>1, <2>3 DEF Outcome!OutcomeNext, Outcome!Return
<1>6. CASE RolledBack
  <2>1. phase' = "failed" /\ UNCHANGED <<inst, about>> /\ inst = {}
    BY <1>1, <1>6, Transitions DEF RolledBack, disk, IInv, Rest, LiveIsPublished
  <2>2. Live = NoReader /\ Live' = Live /\ Visit' = "open" /\ Asked' = NoReader
    BY <1>1, <2>1 DEF Live, Visit, Asked, AtPage
  <2> QED
    BY <1>1, <2>2 DEF Outcome!OutcomeNext, Outcome!Return
<1>7. CASE RollbackFails
  <2>1. phase' = "recovery_required" /\ UNCHANGED <<inst, about>>
    BY <1>1, <1>7, Transitions DEF RollbackFails, disk
  <2>2. Live' = Live /\ Visit' = "unsure" /\ Asked' = NoReader
    BY <1>1, <2>1 DEF Live, Visit, Asked, AtPage
  <2> QED
    BY <1>1, <2>2 DEF Outcome!OutcomeNext, Outcome!Return
<1> QED
  BY <1>2, <1>3, <1>4, <1>5, <1>6, <1>7 DEF CommitSteps

\* The deadline and Ctrl-C give up, and never during a commit.
LEMMA WatchMaps ==
    ASSUME IInv, Watch
    PROVE  [Outcome!OutcomeNext]_Outcome!setupVars
<1>p. TypeOK /\ UNCHANGED <<Live, said>> /\ AtPage /\ AtPage' /\ draft' = draft
  BY PageLeavesDisk DEF IInv, Live, AtPage, Watch, ExpireDecides, Expire, Interrupt,
     InterruptCancels, Shutdown, Open, launcher, session
<1>1. \/ phase' = phase
      \/ /\ phase \in {"listening", "editing", "reviewed", "failed"}
         /\ phase' \in {"cancelled", "timed_out"}
  BY <1>p, Transitions DEF Watch, ExpireDecides, Expire, Interrupt, InterruptCancels, Shutdown,
     SessionFree, session, TypeOK, SessionType
<1>2. (Visit' = Visit /\ Asked' = Asked)
      \/ (Visit = "open" /\ Visit' = "given_up" /\ Asked = NoReader /\ Asked' = NoReader)
  BY <1>p, <1>1 DEF Visit, Asked
<1> QED
  BY <1>p, <1>2 DEF Outcome!OutcomeNext, Outcome!GiveUp, Outcome!setupVars

\* The first start implements what it promises: every step of the launcher, of
\* the page's threads, of a commit and of the deadline, and a crash between any
\* two of them, is a step of SetupOutcome or leaves everything as it was.
THEOREM FirstRunKeepsItsWord == Spec => OutcomeAsTold
<1>1. Init => MappedWell /\ Outcome!OutcomeInit
  BY DEF Init, MappedWell, AtPage, Live, Visit, Asked, Outcome!OutcomeInit
<1>2. IInv /\ MappedWell /\ [Next]_vars => MappedWell'
  BY MappedWellStep
<1>3. IInv /\ MappedWell /\ [Next]_vars => [Outcome!OutcomeNext]_Outcome!setupVars
  <2> SUFFICES ASSUME IInv, MappedWell, [Next]_vars
               PROVE  [Outcome!OutcomeNext]_Outcome!setupVars
    OBVIOUS
  <2>1. CASE Crash
    <3>1. Live' = Live /\ Visit' = "none" /\ Asked' = NoReader /\ said' = "nothing"
      BY <2>1 DEF Crash, Live, Visit, Asked, AtPage
    <3> QED
      BY <3>1 DEF Outcome!OutcomeNext, Outcome!Vanish
  <2>2. CASE PortChanges \/ UNCHANGED vars
    <3>1. UNCHANGED <<inst, about, pc, phase, draft, said>>
      BY <2>2 DEF PortChanges, vars, disk, launcher, session
    <3> QED
      BY <3>1 DEF Live, Visit, Asked, AtPage, Outcome!setupVars
  <2> QED
    BY <2>1, <2>2, MainStepsMap, RequestsMap, CommitStepsMap, WatchMaps DEF Next
<1> QED
  BY <1>1, <1>2, <1>3, SetupInductive, PTL DEF Spec, OutcomeAsTold, Outcome!OutcomeSpec
=============================================================================
