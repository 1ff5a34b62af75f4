---------------------------- MODULE SetupOutcome ----------------------------
(***************************************************************************)
(* What the first start promises its visitor, without a disk, tabs,        *)
(* threads or a deadline.  A page opens only where there is no reader.  A  *)
(* completion creates the reader that was asked for, or takes it back; it  *)
(* returns, goes back to the page, or is left unsure.  Nothing else makes, *)
(* replaces or removes a reader: no later start, and no end of the page or *)
(* of the process, which may come at any moment.  What the launcher says   *)
(* when the page has closed is true of the reader.                         *)
(***************************************************************************)
CONSTANTS Readers, NoReader

VARIABLES
    reader,  \* the reader that is there, or NoReader
    visit,   \* where the page is, or "none"
    wanted,  \* the reader that a completion creates
    told     \* what the launcher has said

setupVars == <<reader, visit, wanted, told>>

OutcomeInit ==
    /\ reader = NoReader /\ visit = "none"
    /\ wanted = NoReader /\ told = "nothing"

OpenPage ==
    /\ visit = "none" /\ reader = NoReader /\ told = "nothing"
    /\ visit' = "open"
    /\ UNCHANGED <<reader, wanted, told>>

Ask ==
    /\ visit = "open" /\ visit' = "creating"
    /\ wanted' \in Readers
    /\ UNCHANGED <<reader, told>>

Create ==
    /\ visit = "creating" /\ reader = NoReader
    /\ reader' = wanted
    /\ UNCHANGED <<visit, wanted, told>>

TakeBack ==
    /\ visit = "creating" /\ reader # NoReader
    /\ reader' = NoReader
    /\ UNCHANGED <<visit, wanted, told>>

\* A completion ends with its reader, without one, or not knowing.
Return ==
    /\ visit = "creating"
    /\ \/ visit' = "created" /\ reader = wanted
       \/ visit' = "open" /\ reader = NoReader
       \/ visit' = "unsure"
    /\ wanted' = NoReader
    /\ UNCHANGED <<reader, told>>

\* The visitor cancels, or the time is over: not while a completion is at work.
GiveUp ==
    /\ visit = "open" /\ visit' = "given_up"
    /\ UNCHANGED <<reader, wanted, told>>

\* A reader that was created is checked before it is served.
Close ==
    /\ visit' = "none"
    /\ \/ visit = "given_up" /\ reader = NoReader /\ told' = "no_changes"
       \/ visit = "unsure" /\ told' = "recovery"
       \/ visit = "created" /\ reader # NoReader /\ told' = told
    /\ UNCHANGED <<reader, wanted>>

\* The process ends, whatever it was doing.
Vanish ==
    /\ visit' = "none" /\ wanted' = NoReader /\ told' = "nothing"
    /\ UNCHANGED reader

\* A start that opens no page: it serves the reader or refuses to.
Say ==
    /\ visit = "none" /\ told' \in {"nothing", "refused", "ready"}
    /\ told' = "ready" => reader # NoReader
    /\ UNCHANGED <<reader, visit, wanted>>

OutcomeNext ==
    \/ OpenPage \/ Ask \/ Create \/ TakeBack \/ Return \/ GiveUp \/ Close
    \/ Vanish \/ Say

OutcomeSpec == OutcomeInit /\ [][OutcomeNext]_setupVars
=============================================================================
