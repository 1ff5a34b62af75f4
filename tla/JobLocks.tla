------------------------------ MODULE JobLocks ------------------------------
(***************************************************************************)
(* The job_locks table of rss_reader/db.py: named leases that serialise    *)
(* every update and restore across the threads and processes that share    *)
(* one SQLite database.  A row carries its owner, the time it has left and *)
(* a cancellation flag.  An expired row stays in the table until the next  *)
(* caller of acquire_lock or reconcile_interrupted_state deletes it.       *)
(*                                                                         *)
(* Every operator below is one SQLite transaction.  Time is counted in     *)
(* ticks of an hour: TTL gives the leases their length in ticks, and a row *)
(* with left = 0 has expired.  An owner is a random identifier in the code *)
(* and the job that drew it here.                                          *)
(***************************************************************************)
EXTENDS Naturals

CONSTANTS
    Jobs,   \* the attempts at an update or a restore that may own a lease
    None,   \* the owner of a name that has no row
    TTL     \* length of a lease on each name, in ticks

LockNames == {"feed-refresh", "llm-summary", "summary-update", "maintenance"}

ASSUME LeaseAssumption ==
    /\ None \notin Jobs
    /\ TTL \in [LockNames -> Nat \ {0}]

VARIABLES
    holder,   \* holder[n]: the owner column of the row named n, or None
    left,     \* left[n]: ticks before the row named n expires
    stop      \* stop[n]: its cancel_requested column

lockVars == <<holder, left, stop>>

LockTypeOK ==
    /\ holder \in [LockNames -> Jobs \cup {None}]
    /\ left \in [LockNames -> Nat]
    /\ stop \in [LockNames -> BOOLEAN]
    /\ \A n \in LockNames : holder[n] = None => left[n] = 0 /\ ~stop[n]

LockInit ==
    /\ holder = [n \in LockNames |-> None]
    /\ left = [n \in LockNames |-> 0]
    /\ stop = [n \in LockNames |-> FALSE]

Live(n) == left[n] > 0

Owns(j, n) == holder[n] = j

\* Mutant: a deleted row leaves its flag to the next owner of the name.
KeepFlags(Kept) ==
    /\ holder' = [n \in LockNames |-> IF n \in Kept THEN holder[n] ELSE None]
    /\ left' = [n \in LockNames |-> IF n \in Kept THEN left[n] ELSE 0]
    /\ UNCHANGED stop

(***************************************************************************)
(* The table after every row outside Kept is deleted.                      *)
(***************************************************************************)
KeepOnly(Kept) ==
    /\ holder' = [n \in LockNames |-> IF n \in Kept THEN holder[n] ELSE None]
    /\ left' = [n \in LockNames |-> IF n \in Kept THEN left[n] ELSE 0]
    /\ stop' = [n \in LockNames |-> n \in Kept /\ stop[n]]

LiveNames == {n \in LockNames : Live(n)}

DeleteExpired == KeepOnly(LiveNames)

-----------------------------------------------------------------------------

\* Mutant: an exclusive lease looks at its own name only.
GrantOwnName(n, exclusive) == ~Live(n) /\ ~Live("maintenance")

(***************************************************************************)
(* acquire_lock deletes the expired rows first, so only live ones refuse:  *)
(* any row refuses an exclusive lease; a maintenance row, or a row of the  *)
(* same name (the primary key), refuses a shared one.                      *)
(***************************************************************************)
Grantable(n, exclusive) ==
    IF exclusive THEN LiveNames = {} ELSE ~Live("maintenance") /\ ~Live(n)

\* Mutant: expired rows stay, and a new owner inherits the flag of the old one.
InheritFlag(n, j, ticks, exclusive) ==
    /\ Grantable(n, exclusive)
    /\ holder' = [holder EXCEPT ![n] = j]
    /\ left' = [left EXCEPT ![n] = ticks]
    /\ UNCHANGED stop

AcquireLock(n, j, ticks, exclusive) ==
    /\ Grantable(n, exclusive)
    /\ holder' = [m \in LockNames |-> IF m = n THEN j
                                      ELSE IF Live(m) THEN holder[m] ELSE None]
    /\ left' = [left EXCEPT ![n] = ticks]
    /\ stop' = [m \in LockNames |-> m # n /\ Live(m) /\ stop[m]]

\* The transaction commits the deletion of expired rows even when it refuses.
RefuseLock(n, exclusive) == ~Grantable(n, exclusive) /\ DeleteExpired

\* Mutant: the row is deleted by name alone.
ReleaseName(n, j) == KeepOnly(LockNames \ {n})

ReleaseLock(n, j) ==
    KeepOnly({m \in LockNames : m # n \/ ~Owns(j, m)})

\* Mutant: the row is renewed whether or not it has expired.
RenewAnyway(n, j) ==
    /\ Owns(j, n)
    /\ left' = [left EXCEPT ![n] = TTL[n]]
    /\ UNCHANGED <<holder, stop>>

\* renew_lock matches the row by name, owner and expires_at>=now.
RenewLock(n, j) ==
    /\ Owns(j, n) /\ Live(n)
    /\ left' = [left EXCEPT ![n] = TTL[n]]
    /\ UNCHANGED <<holder, stop>>

\* cancellation_requested reads the owner's row, expired or not.
CancellationRequested(n, j) == Owns(j, n) /\ stop[n]

\* request_job_cancellation flags the live rows among the requested names.
Flagged(names) == names \cap LiveNames

FlagRows(names) ==
    /\ Flagged(names) # {}
    /\ stop' = [n \in LockNames |-> stop[n] \/ n \in Flagged(names)]
    /\ UNCHANGED <<holder, left>>

\* An hour passes.
Elapse ==
    /\ left' = [n \in LockNames |-> IF Live(n) THEN left[n] - 1 ELSE 0]
    /\ UNCHANGED <<holder, stop>>
=============================================================================
