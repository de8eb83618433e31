------------------------------ MODULE LogRoster ------------------------------
(***************************************************************************)
(* Which logs are followed (src/cmd/serve.rs, spawn_ingest_workers): at    *)
(* startup a worker is spawned for every usable log of the list, and every *)
(* six hours one for each usable log that has no row in ingest_cursors.    *)
(* The row stands for "has a worker": a worker makes its row before it     *)
(* polls (src/ingest/worker.rs, spawn), and rows outlive the process.      *)
(*                                                                         *)
(* A worker makes its row long before the next refresh, six hours later.   *)
(***************************************************************************)
EXTENDS Integers, FiniteSets

CONSTANTS
    Logs,       \* the logs of the list, of the operators allowed
    MaxWorkers, \* bound: the cursors can be listed when a log has so many workers
    Faults      \* "upsert", "db", "crash": what may fail

ASSUME RosterAssumption ==
    /\ MaxWorkers \in Nat
    /\ Faults \subseteq {"upsert", "db", "crash"}

VARIABLES
    listed,    \* listed[l]: the log's state in the log list
    rows,      \* the logs with a row in ingest_cursors
    up,        \* the process runs
    starting,  \* starting[l]: workers spawned that have not made the row yet
    polling,   \* polling[l]: workers in their loop
    found,     \* the usable logs the refresh has fetched
    refreshing,\* the refresh has fetched the list and not yet the cursors
    faults     \* history: what has failed so far

vars == <<listed, rows, up, starting, polling, found, refreshing, faults>>

workers == <<starting, polling>>

-----------------------------------------------------------------------------
Usable == {l \in Logs : listed[l] = "usable"}

Workers(l) == starting[l] + polling[l]

Fault(k) == k \in Faults /\ faults' = faults \cup {k}

(* worker::spawn for each log of S *)
Spawn(S) == starting' = [l \in Logs |-> IF l \in S THEN starting[l] + 1 ELSE starting[l]]

-----------------------------------------------------------------------------
(* The log list changes (external): a log becomes usable, later retired. *)
ListChanges(l) ==
    /\ listed[l] # "retired"
    /\ listed' = [listed EXCEPT ![l] = IF @ = "pending" THEN "usable" ELSE "retired"]
    /\ UNCHANGED <<rows, up, workers, found, refreshing, faults>>

(* run: fetch the list, filter it and spawn the workers. (If the list       *)
(* cannot be fetched the process exits and is started again.)               *)
Startup ==
    /\ ~up
    /\ up' = TRUE
    /\ Spawn(Usable)
    /\ UNCHANGED <<listed, rows, polling, found, refreshing, faults>>

(* Mutant: a worker polls without a row. *)
RegisterNoRow(l) ==
    /\ starting[l] > 0
    /\ starting' = [starting EXCEPT ![l] = @ - 1]
    /\ polling' = [polling EXCEPT ![l] = @ + 1]
    /\ UNCHANGED <<listed, rows, up, found, refreshing, faults>>

(* worker::spawn: cursors::upsert, then the polling loop, *)
Register(l) ==
    /\ starting[l] > 0
    /\ rows' = rows \cup {l}
    /\ starting' = [starting EXCEPT ![l] = @ - 1]
    /\ polling' = [polling EXCEPT ![l] = @ + 1]
    /\ UNCHANGED <<listed, up, found, refreshing, faults>>

(* or an error, and the worker returns. *)
RegisterFails(l) ==
    /\ starting[l] > 0
    /\ Fault("upsert")
    /\ rows' \in {rows, rows \cup {l}}
    /\ starting' = [starting EXCEPT ![l] = @ - 1]
    /\ UNCHANGED <<listed, up, polling, found, refreshing>>

(* The refresh: fetch the list (or go on with the next tick), *)
Fetch ==
    /\ up /\ ~refreshing
    /\ \A l \in Logs : starting[l] = 0
    /\ found' = Usable
    /\ refreshing' = TRUE
    /\ UNCHANGED <<listed, rows, up, workers, faults>>

(* Mutant: every usable log gets a worker. *)
RefreshAll ==
    /\ refreshing
    /\ Spawn(found)
    /\ refreshing' = FALSE
    /\ UNCHANGED <<listed, rows, up, polling, found, faults>>

(* Mutant: the workers are those of the last start. *)
RefreshNone ==
    /\ refreshing
    /\ Spawn({})
    /\ refreshing' = FALSE
    /\ UNCHANGED <<listed, rows, up, polling, found, faults>>

(* then list the cursors and spawn a worker for each log without one, *)
Refresh ==
    /\ refreshing
    /\ Spawn(found \ rows)
    /\ refreshing' = FALSE
    /\ UNCHANGED <<listed, rows, up, polling, found, faults>>

(* or, if they cannot be listed, for every log (unwrap_or_default). *)
RefreshBlind ==
    /\ refreshing
    /\ \A l \in Logs : Workers(l) < MaxWorkers
    /\ Fault("db")
    /\ Spawn(found)
    /\ refreshing' = FALSE
    /\ UNCHANGED <<listed, rows, up, polling, found>>

(* The process dies. *)
Crash ==
    /\ up
    /\ Fault("crash")
    /\ up' = FALSE
    /\ starting' = [l \in Logs |-> 0]
    /\ polling' = [l \in Logs |-> 0]
    /\ found' = {}
    /\ refreshing' = FALSE
    /\ UNCHANGED <<listed, rows>>

-----------------------------------------------------------------------------
Init ==
    /\ listed \in [Logs -> {"pending", "usable"}]
    /\ rows = {}
    /\ up = FALSE
    /\ starting = [l \in Logs |-> 0]
    /\ polling = [l \in Logs |-> 0]
    /\ found = {}
    /\ refreshing = FALSE
    /\ faults = {}

Next ==
    \/ Startup
    \/ \E l \in Logs : ListChanges(l) \/ Register(l) \/ RegisterFails(l)
    \/ Fetch \/ Refresh \/ RefreshBlind
    \/ Crash

Spec == Init /\ [][Next]_vars

(* The process is started, its tasks run and the refresh's timer ticks.     *)
Fairness ==
    /\ WF_vars(Startup)
    /\ \A l \in Logs : WF_vars(Register(l))
    /\ WF_vars(Fetch) /\ WF_vars(Refresh)

LiveSpec == Spec /\ Fairness

(* The same of a process that dies any number of times, and not for ever.   *)
StableSpec == LiveSpec /\ <>[][~Crash]_vars

-----------------------------------------------------------------------------
TypeOK ==
    /\ listed \in [Logs -> {"pending", "usable", "retired"}]
    /\ rows \subseteq Logs
    /\ up \in BOOLEAN /\ refreshing \in BOOLEAN
    /\ starting \in [Logs -> Nat]
    /\ polling \in [Logs -> Nat]
    /\ found \subseteq Logs
    /\ faults \subseteq Faults
    /\ \A l \in Logs : polling[l] > 0 => l \in rows

(* A log has one worker at a time, through restarts and failed upserts: the *)
(* cursor row a worker leaves keeps the refresh from spawning another       *)
(* (spawn_ingest_workers).                                                  *)
OneWorkerPerLog == "db" \notin faults => \A l \in Logs : Workers(l) <= 1

(* The same step by step, and for good: a log that has a worker gets        *)
(* another only in a refresh that could not list the cursors, and one at a  *)
(* time; whatever failed before, no start, no other refresh and no change   *)
(* of the list doubles a worker (spawn_ingest_workers, unwrap_or_default).  *)
OnlyBlindDoubles ==
    [][\A l \in Logs : Workers(l)' > Workers(l) =>
          /\ Workers(l)' = Workers(l) + 1
          /\ Workers(l) = 0 \/ RefreshBlind]_vars

(* A usable log gets a worker: when it becomes usable, by the next refresh; *)
(* after the process has died, at the start, since its row then keeps the   *)
(* refresh from it, unless an upsert failed (spawn_ingest_workers).         *)
UsablePickedUp ==
    \A l \in Logs :
        listed[l] = "usable" ~> polling[l] > 0 \/ listed[l] = "retired" \/ "upsert" \in faults
=============================================================================
