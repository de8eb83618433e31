---------------------------- MODULE RosterProofs ----------------------------
(***************************************************************************)
(* LogRoster: a log has one worker at a time, for any number of logs and   *)
(* any bound on the workers.                                               *)
(***************************************************************************)
EXTENDS LogRoster, TLAPS

(* What the refresh and the rows keep from a log: nothing runs while the    *)
(* process is down; no worker is about to start while a refresh is under    *)
(* way; and until cursors::list has failed, every log has at most one.      *)
Staffed ==
    /\ ~up => (~refreshing /\ \A l \in Logs : starting[l] = 0 /\ polling[l] = 0)
    /\ refreshing => \A l \in Logs : starting[l] = 0
    /\ "db" \notin faults => \A l \in Logs : starting[l] + polling[l] <= 1

RosterInv == TypeOK /\ Staffed

-----------------------------------------------------------------------------
LEMMA RosterStart == Init => RosterInv
<1> SUFFICES ASSUME Init
             PROVE  RosterInv
    OBVIOUS
<1>1. TypeOK
    <2>1. listed \in [Logs -> {"pending", "usable", "retired"}]
        BY DEF Init
    <2>2. QED
        <3>1. rows \subseteq Logs /\ found \subseteq Logs /\ faults \subseteq Faults
            BY DEF Init
        <3>2. starting \in [Logs -> Nat] /\ polling \in [Logs -> Nat]
            BY DEF Init
        <3>3. \A l \in Logs : polling[l] > 0 => l \in rows
            BY DEF Init
        <3>4. up \in BOOLEAN /\ refreshing \in BOOLEAN
            BY DEF Init
        <3>5. QED
            BY <2>1, <3>1, <3>2, <3>3, <3>4 DEF TypeOK
<1>2. Staffed
    BY DEF Init, Staffed
<1>3. QED
    BY <1>1, <1>2 DEF RosterInv

(* Each action of the roster keeps the invariant.                           *)
LEMMA RosterStep == RosterInv /\ [Next]_vars => RosterInv'
<1> SUFFICES ASSUME RosterInv, [Next]_vars
             PROVE  RosterInv'
    OBVIOUS
<1> USE DEF RosterInv, TypeOK, Staffed
<1>1. CASE Startup
    BY <1>1 DEF Startup, Spawn, Usable
<1>2. ASSUME NEW l \in Logs, ListChanges(l)
      PROVE  RosterInv'
    BY <1>2 DEF ListChanges, workers
<1>3. ASSUME NEW l \in Logs, Register(l)
      PROVE  RosterInv'
    BY <1>3 DEF Register
<1>4. ASSUME NEW l \in Logs, RegisterFails(l)
      PROVE  RosterInv'
    BY <1>4 DEF RegisterFails, Fault
<1>5. CASE Fetch
    BY <1>5 DEF Fetch, Usable, Workers, workers
<1>6. CASE Refresh
    <2> DEFINE S == found \ rows
    <2>1. /\ starting' = [l \in Logs |-> IF l \in S THEN starting[l] + 1 ELSE starting[l]]
          /\ \A l \in Logs : starting[l] = 0
          /\ up /\ refreshing' = FALSE
          /\ UNCHANGED <<listed, rows, up, polling, found>>
          /\ faults' \subseteq Faults
        BY <1>6 DEF Refresh, Spawn
    <2>2. \A l \in Logs : starting'[l] \in {0, 1} /\ (l \notin S => starting'[l] = 0)
        BY <2>1
    <2>3. starting' \in [Logs -> Nat]
        BY <2>1
    <2>4. TypeOK'
        BY <2>1, <2>3
    <2>5. ASSUME NEW l \in Logs, "db" \notin faults'
          PROVE  starting'[l] + polling'[l] <= 1
        <3>1. CASE l \in S
            BY <2>1, <2>2, <3>1
        <3>2. CASE l \notin S
            BY <1>6, <2>1, <2>2, <2>5, <3>2 DEF Refresh
        <3>3. QED
            BY <3>1, <3>2
    <2>6. QED
        BY <2>1, <2>4, <2>5
<1>7. CASE RefreshBlind
    <2> DEFINE S == found
    <2>1. /\ starting' = [l \in Logs |-> IF l \in S THEN starting[l] + 1 ELSE starting[l]]
          /\ \A l \in Logs : starting[l] = 0
          /\ up /\ refreshing' = FALSE
          /\ UNCHANGED <<listed, rows, up, polling, found>>
          /\ faults' \subseteq Faults
        BY <1>7 DEF RefreshBlind, Spawn, Fault
    <2>2. \A l \in Logs : starting'[l] \in {0, 1} /\ (l \notin S => starting'[l] = 0)
        BY <2>1
    <2>3. starting' \in [Logs -> Nat]
        BY <2>1
    <2>4. TypeOK'
        BY <2>1, <2>3
    <2>5. "db" \in faults'
        BY <1>7 DEF RefreshBlind, Fault
    <2>6. QED
        BY <2>1, <2>4, <2>5
<1>8. CASE Crash
    <2>1. /\ starting' = [l \in Logs |-> 0] /\ polling' = [l \in Logs |-> 0]
          /\ ~up' /\ up' \in BOOLEAN /\ ~refreshing' /\ refreshing' \in BOOLEAN
          /\ found' = {} /\ UNCHANGED <<listed, rows>>
        BY <1>8 DEF Crash
    <2>2. faults' \subseteq Faults
        BY <1>8 DEF Crash, Fault
    <2>3. \A l \in Logs : starting'[l] = 0 /\ polling'[l] = 0
        BY <2>1
    <2>4. starting' \in [Logs -> Nat] /\ polling' \in [Logs -> Nat]
        BY <2>1
    <2>5. TypeOK'
        BY <2>1, <2>2, <2>3, <2>4
    <2>6. Staffed'
        BY <2>1, <2>3
    <2>7. QED
        BY <2>5, <2>6
<1>9. CASE UNCHANGED vars
    BY <1>9 DEF vars, workers
<1>10. QED
    BY <1>1, <1>2, <1>3, <1>4, <1>5, <1>6, <1>7, <1>8, <1>9 DEF Next

(* The inductive invariant holds of every run of the roster.                *)
THEOREM RosterInvariance == Spec => []RosterInv
BY RosterStart, RosterStep, PTL DEF Spec

(* The variables keep their types, and a log that is polled has its row     *)
(* (src/ingest/worker.rs, spawn).                                           *)
THEOREM RosterTypes == Spec => []TypeOK
<1>1. RosterInv => TypeOK
    BY DEF RosterInv
<1>2. QED
    BY <1>1, RosterInvariance, PTL

(* A step that spawns the workers of S adds one for each log of S.          *)
LEMMA Doubling ==
    ASSUME RosterInv, [Next]_vars, NEW l \in Logs, Workers(l)' > Workers(l)
    PROVE  Workers(l)' = Workers(l) + 1 /\ (Workers(l) = 0 \/ RefreshBlind)
<1> USE DEF RosterInv, TypeOK, Staffed, Workers
<1>1. CASE Startup
    BY <1>1 DEF Startup, Spawn, Usable
<1>2. ASSUME NEW m \in Logs, ListChanges(m) \/ Register(m) \/ RegisterFails(m)
      PROVE  FALSE
    <2>1. /\ starting[l] \in Nat /\ polling[l] \in Nat
          /\ starting[m] \in Nat /\ polling[m] \in Nat
        OBVIOUS
    <2>2. ~ListChanges(m)
        BY <2>1 DEF ListChanges, workers
    <2>3. CASE Register(m) \/ RegisterFails(m)
        <3>1. starting' = [starting EXCEPT ![m] = @ - 1]
            BY <2>3 DEF Register, RegisterFails
        <3>2. polling' = polling \/ polling' = [polling EXCEPT ![m] = @ + 1]
            BY <2>3 DEF Register, RegisterFails
        <3>3. starting'[l] = (IF l = m THEN starting[l] - 1 ELSE starting[l])
            BY <3>1
        <3>4. polling'[l] = polling[l] \/ (l = m /\ polling'[l] = polling[l] + 1)
            BY <3>2
        <3>5. QED
            BY <2>1, <3>3, <3>4
    <2>4. QED
        BY <1>2, <2>2, <2>3
<1>3. CASE Fetch \/ UNCHANGED vars
    BY <1>3 DEF Fetch, vars, workers
<1>4. CASE Refresh
    BY <1>4 DEF Refresh, Spawn
<1>5. CASE RefreshBlind
    BY <1>5 DEF RefreshBlind, Spawn
<1>6. CASE Crash
    BY <1>6 DEF Crash
<1>7. QED
    BY <1>1, <1>2, <1>3, <1>4, <1>5, <1>6 DEF Next

(* Only a refresh that cannot list the cursors gives a log a second worker, *)
(* also after one has done so (spawn_ingest_workers, unwrap_or_default).    *)
THEOREM DoubledOnlyBlind == Spec => OnlyBlindDoubles
<1>1. RosterInv /\ [Next]_vars =>
          [\A l \in Logs : Workers(l)' > Workers(l) =>
              /\ Workers(l)' = Workers(l) + 1
              /\ Workers(l) = 0 \/ RefreshBlind]_vars
    BY Doubling
<1>2. QED
    BY <1>1, RosterInvariance, PTL DEF Spec, OnlyBlindDoubles

(* A log has one worker at a time, through restarts and failed upserts, as  *)
(* long as the cursors could always be listed (src/cmd/serve.rs,            *)
(* spawn_ingest_workers).                                                   *)
THEOREM OneEach == Spec => []OneWorkerPerLog
<1>1. RosterInv => OneWorkerPerLog
    BY DEF RosterInv, Staffed, OneWorkerPerLog, Workers
<1>2. QED
    BY <1>1, RosterInvariance, PTL
=============================================================================
