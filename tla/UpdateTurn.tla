----------------------------- MODULE UpdateTurn -----------------------------
(***************************************************************************)
(* What the coordination of updates promises, without leases, clocks or    *)
(* program counters: one job at a time has the turn, an operation record   *)
(* is accepted and begun only by the job whose turn it is, it goes queued, *)
(* running, terminal and never back, and somebody else may fail the record *)
(* of a job only when the job is gone or has given up its turn.            *)
(***************************************************************************)
CONSTANTS Jobs, None

VARIABLES
    turn,     \* the job that may update the database, or None
    gone,     \* the jobs whose process died or whose request failed
    record    \* record[j]: the state of the operation record of j

turnVars == <<turn, gone, record>>

Open == {"queued", "running"}
Closed == {"success", "partial", "empty", "blocked", "failed", "cancelled"}

TurnInit ==
    /\ turn = None
    /\ gone = {}
    /\ record = [j \in Jobs |-> "none"]

Take(j) ==
    /\ turn = None /\ j \notin gone
    /\ turn' = j
    /\ UNCHANGED <<gone, record>>

\* The owner leaves, or what is left of an owner that is gone expires.
Leave ==
    /\ turn # None
    /\ turn' = None
    /\ UNCHANGED <<gone, record>>

Vanish(S) ==
    /\ gone' = gone \cup S
    /\ UNCHANGED <<turn, record>>

Accept(j) ==
    /\ turn = j /\ j \notin gone /\ record[j] = "none"
    /\ record' = [record EXCEPT ![j] = "queued"]
    /\ UNCHANGED <<turn, gone>>

Begin(j) ==
    /\ turn = j /\ j \notin gone /\ record[j] = "queued"
    /\ record' = [record EXCEPT ![j] = "running"]
    /\ UNCHANGED <<turn, gone>>

\* The job reports how it ended; it may have left its turn already.
Conclude(j) ==
    /\ j \notin gone
    /\ \/ record[j] = "running" /\ \E s \in Closed : record' = [record EXCEPT ![j] = s]
       \/ record[j] = "queued" /\ record' = [record EXCEPT ![j] = "failed"]
    /\ UNCHANGED <<turn, gone>>

Failed(S) == [j \in Jobs |-> IF j \in S THEN "failed" ELSE record[j]]

FailOrphans(S) ==
    /\ \A j \in S : record[j] \in Open /\ (j \in gone \/ turn # j)
    /\ record' = Failed(S)
    /\ UNCHANGED <<turn, gone>>

\* A local restart ends the turn and every open record at once.
StartAfresh ==
    /\ turn \in gone \cup {None}
    /\ turn' = None
    /\ record' = Failed({j \in Jobs : record[j] \in Open})
    /\ UNCHANGED gone

\* A restore replaces the records with those of a backup made before them.
Replace ==
    /\ turn # None /\ turn \notin gone
    /\ record' = [j \in Jobs |-> "none"]
    /\ UNCHANGED <<turn, gone>>

TurnNext ==
    \/ \E j \in Jobs : Take(j) \/ Accept(j) \/ Begin(j) \/ Conclude(j)
    \/ \E S \in SUBSET Jobs : Vanish(S) \/ FailOrphans(S)
    \/ Leave \/ StartAfresh \/ Replace

TurnSpec == TurnInit /\ [][TurnNext]_turnVars
=============================================================================
