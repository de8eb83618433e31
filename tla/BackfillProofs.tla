--------------------------- MODULE BackfillProofs ---------------------------
(***************************************************************************)
(* What `ctwatch backfill` guarantees for any logs, any number of          *)
(* overlapping invocations and any batch size.                             *)
(*                                                                         *)
(* The argument: the search keeps everything below its lower bound before  *)
(* Since (the log being in order of time), so nothing below a job's start  *)
(* is of the window; and a task writes a progress it walked up to itself   *)
(* from a start or a progress, below which everything had been handed over *)
(* already, whoever wrote that row in between. In one process, a job moves *)
(* from the channel to the batch to the table, and is in one of them.      *)
(***************************************************************************)
EXTENDS BackfillRun, FiniteSetTheorems, TLAPS

(* The pcs at which the search's bounds mean something. *)
Searching == {"search", "find", "insert", "reread", "walk", "send", "progress", "complete"}

Walking == {"walk", "send", "progress", "complete"}

(* No entry of l below n is of the window. *)
Before(l, n) == Sorted(l) => \A i \in 0 .. n - 1 : TimeAt(l, i) < Since

(* All of the window below n was handed over. *)
Covered(l, n) == "empty" \notin faults /\ Sorted(l) => HandedBelow(l, n)

(* The search's bounds. *)
SearchPart(t) ==
    tpc[t] \in Searching =>
        /\ my[t].lo <= my[t].hi /\ my[t].hi <= my[t].last
        /\ my[t].last < Len(Entries[TaskLog[t]])
        /\ Before(TaskLog[t], my[t].lo)

(* The walk's position. *)
WalkPart(t) ==
    /\ tpc[t] \in Walking => Covered(TaskLog[t], my[t].pos)
    /\ tpc[t] = "send" => my[t].pos <= my[t].upto /\ my[t].upto <= my[t].last + 1
    /\ tpc[t] = "complete" => my[t].last <= my[t].pos

TaskOK(t) == SearchPart(t) /\ WalkPart(t)

RowOK(l, k) == Before(l, jobs[l][k].start) /\ Covered(l, jobs[l][k].progress)

RowsOK == \A l \in Logs : \A k \in 1 .. Len(jobs[l]) : RowOK(l, k)

IInv == TasksTypeOK /\ (\A t \in Tasks : TaskOK(t)) /\ RowsOK

-----------------------------------------------------------------------------
(* The middle of two bounds. *)
LEMMA Middle ==
  ASSUME NEW a \in Nat, NEW b \in Nat, a < b
  PROVE  LET m == a + (b - a) \div 2 IN m \in Nat /\ a <= m /\ m < b
  OBVIOUS

(* The assumptions on the logs' entries and times. *)
LEMMA LogFacts ==
  ASSUME NEW t \in Tasks
  PROVE  /\ TaskLog[t] \in Logs
         /\ Len(Entries[TaskLog[t]]) \in Nat
         /\ TimeOf[TaskLog[t]] \in Seq(Nat)
         /\ Len(TimeOf[TaskLog[t]]) = Len(Entries[TaskLog[t]])
         /\ \A i \in 0 .. Len(Entries[TaskLog[t]]) - 1 : TimeAt(TaskLog[t], i) \in Nat
  <1>1. TaskLog[t] \in Logs
    BY TasksAssumption
  <1>2. Entries[TaskLog[t]] \in Seq(Certs \cup {Undecodable, Ignored})
    BY <1>1, EntriesAssumption
  <1>3. TimeOf[TaskLog[t]] \in Seq(Nat) /\ Len(TimeOf[TaskLog[t]]) = Len(Entries[TaskLog[t]])
    BY <1>1, TasksAssumption
  <1>4. ASSUME NEW i \in 0 .. Len(Entries[TaskLog[t]]) - 1
        PROVE  TimeAt(TaskLog[t], i) \in Nat
    <2>1. i + 1 \in 1 .. Len(TimeOf[TaskLog[t]])
      BY <1>2, <1>3
    <2> QED BY <2>1, <1>3 DEF TimeAt
  <1> QED BY <1>1, <1>2, <1>3, <1>4

(* Setting one local variable, or the three GetSth sets. *)
LEMMA SetLocal ==
  ASSUME NEW r \in Locals, NEW n \in Nat
  PROVE  /\ [r EXCEPT !.lo = n] \in Locals
         /\ [r EXCEPT !.hi = n] \in Locals
         /\ [r EXCEPT !.job = n] \in Locals
         /\ [r EXCEPT !.pos = n] \in Locals
         /\ [r EXCEPT !.upto = n] \in Locals
         /\ [r EXCEPT !.lo = 0, !.hi = n, !.last = n] \in Locals
  BY DEF Locals

(* What is covered stays covered. *)
LEMMA CoveredStays ==
  ASSUME NEW l, NEW n \in Nat, Covered(l, n), handed \subseteq handed', faults \subseteq faults'
  PROVE  Covered(l, n)'
  BY DEF Covered, HandedBelow, InWindow, Sorted

(* Nothing of the window is below its start. *)
LEMMA CoveredFromStart ==
  ASSUME NEW l \in Logs, NEW n \in Nat, Before(l, n), n <= Len(Entries[l])
  PROVE  Covered(l, n)
  <1> SUFFICES ASSUME Sorted(l), NEW i \in 0 .. n - 1, InWindow(l, i)
               PROVE  FALSE
    BY DEF Covered, HandedBelow
  <1>1. TimeAt(l, i) < Since /\ TimeAt(l, i) >= Since
    BY DEF Before, InWindow
  <1>2. TimeAt(l, i) \in Nat
    <2>1. TimeOf[l] \in Seq(Nat) /\ Len(TimeOf[l]) = Len(Entries[l]) /\ Len(Entries[l]) \in Nat
      BY TasksAssumption, EntriesAssumption
    <2>2. i + 1 \in 1 .. Len(TimeOf[l])
      BY <2>1
    <2> QED BY <2>1, <2>2 DEF TimeAt
  <1> QED BY <1>1, <1>2, TasksAssumption

(* A row of the table is updated in place. *)
LEMMA RowUpdate ==
  ASSUME NEW l \in Logs, jobs \in [Logs -> Seq(JobRow)],
         NEW k \in 1 .. Len(jobs[l]), NEW r \in JobRow
  PROVE  LET new == [jobs EXCEPT ![l] = [jobs[l] EXCEPT ![k] = r]] IN
         /\ new \in [Logs -> Seq(JobRow)]
         /\ \A m \in Logs : Len(new[m]) = Len(jobs[m])
         /\ \A m \in Logs : \A i \in 1 .. Len(jobs[m]) :
               new[m][i] = IF m = l /\ i = k THEN r ELSE jobs[m][i]
  <1> DEFINE s == [jobs[l] EXCEPT ![k] = r]
  <1>1. jobs[l] \in Seq(JobRow)
    OBVIOUS
  <1>2. s \in Seq(JobRow) /\ Len(s) = Len(jobs[l])
    BY <1>1
  <1>3. \A i \in 1 .. Len(jobs[l]) : s[i] = IF i = k THEN r ELSE jobs[l][i]
    BY <1>1
  <1> QED BY <1>2, <1>3

(* A new row comes at the end. *)
LEMMA RowInsert ==
  ASSUME NEW l \in Logs, jobs \in [Logs -> Seq(JobRow)], NEW r \in JobRow
  PROVE  LET new == [jobs EXCEPT ![l] = Append(jobs[l], r)] IN
         /\ new \in [Logs -> Seq(JobRow)]
         /\ \A m \in Logs : Len(new[m]) = IF m = l THEN Len(jobs[l]) + 1 ELSE Len(jobs[m])
         /\ \A m \in Logs : \A i \in 1 .. Len(jobs[m]) : new[m][i] = jobs[m][i]
         /\ new[l][Len(jobs[l]) + 1] = r
  <1>1. jobs[l] \in Seq(JobRow)
    OBVIOUS
  <1>2. Append(jobs[l], r) \in Seq(JobRow) /\ Len(Append(jobs[l], r)) = Len(jobs[l]) + 1
    BY <1>1
  <1>3. /\ \A i \in 1 .. Len(jobs[l]) : Append(jobs[l], r)[i] = jobs[l][i]
        /\ Append(jobs[l], r)[Len(jobs[l]) + 1] = r
    BY <1>1
  <1> QED BY <1>2, <1>3

-----------------------------------------------------------------------------
(* A step that touches one task keeps the others' part of the invariant. *)
LEMMA OneTask ==
  ASSUME IInv, TasksTypeOK', NEW t \in Tasks, TaskOK(t)', RowsOK',
         handed \subseteq handed', faults \subseteq faults',
         \A u \in Tasks \ {t} : tpc'[u] = tpc[u] /\ my'[u] = my[u]
  PROVE  IInv'
  <1>1. ASSUME NEW u \in Tasks, u # t PROVE TaskOK(u)'
    <2>1. TaskOK(u) /\ tpc'[u] = tpc[u] /\ my'[u] = my[u] /\ my[u].pos \in Nat
      BY <1>1 DEF IInv, TasksTypeOK, Locals
    <2>2. Covered(TaskLog[u], my[u].pos) => Covered(TaskLog[u], my[u].pos)'
      BY <2>1 DEF Covered, HandedBelow, InWindow, Sorted
    <2> QED BY <2>1, <2>2 DEF TaskOK, SearchPart, WalkPart, Before, Sorted
  <1> QED BY <1>1 DEF IInv

(* A step that leaves the table alone keeps its rows' part. *)
LEMMA RowsStay ==
  ASSUME IInv, jobs' = jobs, handed \subseteq handed', faults \subseteq faults'
  PROVE  RowsOK'
  <1> SUFFICES ASSUME NEW l \in Logs, NEW k \in 1 .. Len(jobs[l])
               PROVE  RowOK(l, k)'
    BY DEF RowsOK
  <1>1. RowOK(l, k) /\ jobs[l][k] \in JobRow
    BY DEF IInv, RowsOK, TasksTypeOK
  <1>2. Covered(l, jobs[l][k].progress)'
    <2>1. Covered(l, jobs[l][k].progress) /\ jobs[l][k].progress \in Nat
      BY <1>1 DEF RowOK, JobRow
    <2>2. DEFINE n == jobs[l][k].progress
    <2>3. \A m \in Nat : Covered(l, m) => Covered(l, m)'
      BY CoveredStays
    <2> QED BY <2>1, <2>3 DEF Covered, HandedBelow, InWindow, Sorted
  <1>3. Before(l, jobs[l][k].start)'
    BY <1>1 DEF RowOK, Before, Sorted, TimeAt
  <1> QED BY <1>2, <1>3 DEF RowOK

(* A task that returns needs nothing any more. *)
LEMMA Returns ==
  ASSUME IInv, NEW t \in Tasks, Return(t), jobs' = jobs,
         handed' = handed, tree' = tree, faults \subseteq faults', faults' \subseteq Faults
  PROVE  IInv'
  <1>1. TasksTypeOK'
    BY DEF IInv, TasksTypeOK, Return, Goto, TaskPC, Locals, Blank, HasJob
  <1>2. TaskOK(t)'
    BY DEF IInv, TasksTypeOK, TaskOK, SearchPart, WalkPart, Return, Goto, Searching, Walking
  <1>3. \A u \in Tasks \ {t} : tpc'[u] = tpc[u] /\ my'[u] = my[u]
    BY DEF IInv, TasksTypeOK, Return, Goto
  <1> QED BY <1>1, <1>2, <1>3, RowsStay, OneTask

-----------------------------------------------------------------------------
(* The steps before the walk. *)
LEMMA SearchStep ==
  ASSUME IInv, NEW t \in Tasks,
         \/ \E s \in 1 .. tree[TaskLog[t]] : GetSth(t, s)
         \/ Probe(t)
         \/ SearchDone(t)
         \/ FindActive(t)
         \/ Acquire(t)
  PROVE  IInv'
  <1> DEFINE l == TaskLog[t]
  <1>0. /\ tpc \in [Tasks -> TaskPC] /\ my \in [Tasks -> Locals]
        /\ TaskOK(t) /\ UNCHANGED <<jobs, handed, faults>>
        /\ my[t] \in Locals /\ l \in Logs /\ tree[l] <= Len(Entries[l]) /\ tree[l] \in Nat
    BY LogFacts DEF IInv, TasksTypeOK, GetSth, Probe, SearchDone, FindActive, Acquire
  <1>1. CASE \E s \in 1 .. tree[TaskLog[t]] : GetSth(t, s)
    <2> PICK s \in 1 .. tree[TaskLog[t]] : GetSth(t, s)
      BY <1>1
    <2>1. TasksTypeOK'
      <3>1. my' \in [Tasks -> Locals]
        <4>1. s - 1 \in Nat
          BY <1>0
        <4>2. [my[t] EXCEPT !.lo = 0, !.hi = s - 1, !.last = s - 1] \in Locals
          BY <1>0, <4>1, SetLocal
        <4> QED BY <1>0, <4>2 DEF GetSth
      <3>2. tpc' \in [Tasks -> TaskPC] /\ tpc'[t] = "search" /\ tree' = tree
            /\ \A u \in Tasks \ {t} : tpc'[u] = tpc[u] /\ my'[u] = my[u]
        BY <1>0 DEF GetSth, Goto, TaskPC
      <3> QED BY <1>0, <3>1, <3>2 DEF IInv, TasksTypeOK, HasJob
    <2>2. TaskOK(t)'
      <3>1. /\ my'[t].lo = 0 /\ my'[t].hi = s - 1 /\ my'[t].last = s - 1
            /\ tpc'[t] = "search"
        BY <1>0 DEF GetSth, Goto, Locals
      <3>2. Before(l, 0)
        BY DEF Before
      <3> QED BY <1>0, <3>1, <3>2 DEF TaskOK, SearchPart, WalkPart, Walking, Before, Sorted, TimeAt
    <2> QED BY <1>0, <2>1, <2>2, OneTask, RowsStay DEF GetSth, Goto
  <1>2. CASE Probe(t)
    <2> DEFINE m == Mid(t)
    <2>1. /\ my[t].lo < my[t].hi /\ my[t].hi <= my[t].last
          /\ my[t].last < Len(Entries[l]) /\ Before(l, my[t].lo)
          /\ my[t].lo \in Nat /\ my[t].hi \in Nat /\ my[t].last \in Nat
      BY <1>0, <1>2 DEF Probe, TaskOK, SearchPart, WalkPart, Searching, Locals
    <2>2. m \in Nat /\ my[t].lo <= m /\ m < my[t].hi
      BY <2>1, Middle DEF Mid
    <2>3. CASE TimeAt(l, m) >= Since
      <3>1. my' = [my EXCEPT ![t].hi = m] /\ tpc' = tpc /\ tree' = tree
        BY <1>2, <2>3 DEF Probe, Halve
      <3>2. TasksTypeOK'
        <4>1. my' \in [Tasks -> Locals] /\ \A u \in Tasks : my'[u].job = my[u].job
          <5>1. [my[t] EXCEPT !.hi = m] \in Locals
            BY <1>0, <2>2, SetLocal
          <5>2. my' \in [Tasks -> Locals]
            BY <1>0, <3>1, <5>1
          <5> QED BY <1>0, <3>1, <5>2 DEF Locals
        <4> QED BY <1>0, <3>1, <4>1 DEF IInv, TasksTypeOK, HasJob
      <3>3. TaskOK(t)'
        BY <1>0, <1>2, <2>1, <2>2, <3>1
        DEF Probe, TaskOK, SearchPart, WalkPart, Searching, Walking, Locals, Before, Sorted, TimeAt
      <3> QED BY <1>0, <3>1, <3>2, <3>3, OneTask, RowsStay
    <2>4. CASE ~(TimeAt(l, m) >= Since)
      <3>1. my' = [my EXCEPT ![t].lo = m + 1] /\ tpc' = tpc /\ tree' = tree
        BY <1>2, <2>4 DEF Probe, Halve
      <3>2. TasksTypeOK'
        <4>1. my' \in [Tasks -> Locals] /\ \A u \in Tasks : my'[u].job = my[u].job
          <5>1. [my[t] EXCEPT !.lo = m + 1] \in Locals
            <6>1. m + 1 \in Nat
              BY <2>2
            <6> QED BY <1>0, <6>1, SetLocal
          <5>2. my' \in [Tasks -> Locals]
            BY <1>0, <3>1, <5>1
          <5> QED BY <1>0, <3>1, <5>2 DEF Locals
        <4> QED BY <1>0, <3>1, <4>1 DEF IInv, TasksTypeOK, HasJob
      <3>3. Before(l, m + 1)
        <4> SUFFICES ASSUME Sorted(l), NEW i \in 0 .. m PROVE TimeAt(l, i) < Since
          BY <2>2 DEF Before
        <4>1. i \in 0 .. Len(TimeOf[l]) - 1 /\ m \in 0 .. Len(TimeOf[l]) - 1 /\ i <= m
          <5>1. Len(TimeOf[l]) \in Nat /\ m < Len(TimeOf[l])
            <6>1. Len(Entries[l]) \in Nat /\ Len(TimeOf[l]) = Len(Entries[l])
              BY LogFacts
            <6> QED BY <2>1, <2>2, <6>1
          <5>2. i \in Int /\ 0 <= i /\ i <= m
            BY <2>2
          <5> QED BY <2>2, <5>1, <5>2
        <4>2. TimeAt(l, i) <= TimeAt(l, m)
          BY <4>1 DEF Sorted
        <4>3. TimeAt(l, i) \in Nat /\ TimeAt(l, m) \in Nat
          BY <4>1, LogFacts
        <4> QED BY <4>2, <4>3, <2>4, TasksAssumption
      <3>4. my'[t].lo = m + 1 /\ my'[t].hi = my[t].hi /\ my'[t].last = my[t].last
        BY <1>0, <3>1 DEF Locals
      <3>5. TaskOK(t)'
        <4>1. SearchPart(t)'
          BY <2>1, <2>2, <3>3, <3>4 DEF SearchPart, Before, Sorted, TimeAt
        <4>2. WalkPart(t)'
          BY <1>2, <3>1 DEF Probe, WalkPart, Walking
        <4> QED BY <4>1, <4>2 DEF TaskOK
      <3> QED BY <1>0, <3>1, <3>2, <3>5, OneTask, RowsStay
    <2> QED BY <2>3, <2>4
  <1>3. CASE SearchDone(t) \/ Acquire(t)
    <2>1. TasksTypeOK'
      BY <1>0, <1>3 DEF SearchDone, Acquire, IInv, TasksTypeOK, Goto, TaskPC, HasJob
    <2>2. TaskOK(t)'
      BY <1>0, <1>3
      DEF SearchDone, Acquire, Goto, TaskOK, SearchPart, WalkPart, Searching, Walking, Before, Sorted, TimeAt
    <2> QED BY <1>0, <1>3, <2>1, <2>2, OneTask, RowsStay DEF SearchDone, Acquire, Goto
  <1>4. CASE FindActive(t)
    <2>1. TasksTypeOK'
      <3>1. my' \in [Tasks -> Locals] /\ tpc' \in [Tasks -> TaskPC] /\ tree' = tree
        <4>1. \A k \in Running(l) : [my[t] EXCEPT !.job = k] \in Locals
          <5> SUFFICES ASSUME NEW k \in Running(l)
                       PROVE  [my[t] EXCEPT !.job = k] \in Locals
            OBVIOUS
          <5>1. k \in Nat
            BY <1>0 DEF Running
          <5> QED BY <1>0, <5>1, SetLocal
        <4> QED BY <1>0, <1>4, <4>1 DEF FindActive, Goto, TaskPC
      <3>2. tpc'[t] = "reread" => my'[t].job \in 1 .. Len(jobs[l])
        BY <1>0, <1>4 DEF FindActive, Goto, Running, Locals
      <3>3. /\ tpc'[t] \in {"insert", "reread"}
            /\ \A u \in Tasks \ {t} : tpc'[u] = tpc[u] /\ my'[u] = my[u]
        BY <1>0, <1>4 DEF FindActive, Goto
      <3> QED BY <1>0, <3>1, <3>2, <3>3 DEF IInv, TasksTypeOK, HasJob
    <2>2. /\ my'[t].lo = my[t].lo /\ my'[t].hi = my[t].hi /\ my'[t].last = my[t].last
          /\ tpc'[t] \in {"insert", "reread"} /\ tpc[t] = "find"
      BY <1>0, <1>4 DEF FindActive, Goto, Locals
    <2>3. TaskOK(t)'
      BY <1>0, <2>2 DEF TaskOK, SearchPart, WalkPart, Searching, Walking, Before, Sorted, TimeAt
    <2> QED BY <1>0, <1>4, <2>1, <2>3, OneTask, RowsStay DEF FindActive, Goto
  <1> QED BY <1>1, <1>2, <1>3, <1>4

-----------------------------------------------------------------------------
(* The steps that change the table. *)

(* What the table's change must do for its step to keep the rows' part. *)
LEMMA RowsChange ==
  ASSUME IInv, NEW l \in Logs, NEW k \in Nat,
         handed' = handed, faults \subseteq faults',
         \A m \in Logs : \A i \in 1 .. Len(jobs'[m]) :
             ~(m = l /\ i = k) => i \in 1 .. Len(jobs[m]) /\ jobs'[m][i] = jobs[m][i],
         k \in 1 .. Len(jobs'[l]) => RowOK(l, k)'
  PROVE  RowsOK'
  <1> SUFFICES ASSUME NEW m \in Logs, NEW i \in 1 .. Len(jobs'[m]), ~(m = l /\ i = k)
               PROVE  RowOK(m, i)'
    BY DEF RowsOK
  <1>1. jobs'[m][i] = jobs[m][i] /\ RowOK(m, i)
    BY DEF IInv, RowsOK
  <1> QED BY <1>1 DEF RowOK, Before, Covered, HandedBelow, InWindow, Sorted, TimeAt

(* insert *)
LEMMA InsertedOK ==
  ASSUME IInv, NEW t \in Tasks, tpc[t] = "insert", jobs' = Inserted(t),
         handed' = handed, faults \subseteq faults'
  PROVE  /\ RowsOK'
         /\ jobs' \in [Logs -> Seq(JobRow)]
         /\ \A m \in Logs : Len(jobs[m]) <= Len(jobs'[m])
         /\ Len(jobs'[TaskLog[t]]) = Len(jobs[TaskLog[t]]) + 1
  <1> DEFINE l == TaskLog[t]  r == NewJob(my[t].lo, my[t].last)
  <1>1. /\ l \in Logs /\ my[t] \in Locals /\ jobs \in [Logs -> Seq(JobRow)]
        /\ TaskOK(t) /\ Len(Entries[l]) \in Nat
    BY LogFacts DEF IInv, TasksTypeOK
  <1>2. r \in JobRow /\ r.start = my[t].lo /\ r.progress = my[t].lo
    BY <1>1 DEF NewJob, JobRow, Locals
  <1>3. jobs' = [jobs EXCEPT ![l] = Append(jobs[l], r)]
    BY DEF Inserted
  <1>4. /\ jobs' \in [Logs -> Seq(JobRow)]
        /\ \A m \in Logs : Len(jobs'[m]) = IF m = l THEN Len(jobs[l]) + 1 ELSE Len(jobs[m])
        /\ \A m \in Logs : \A i \in 1 .. Len(jobs[m]) : jobs'[m][i] = jobs[m][i]
        /\ jobs'[l][Len(jobs[l]) + 1] = r
    BY <1>1, <1>2, <1>3, RowInsert
  <1>5. \A m \in Logs : Len(jobs[m]) \in Nat
    BY <1>1
  <1>6. PICK k \in Nat : k = Len(jobs[l]) + 1
    BY <1>1, <1>5
  <1>7. RowOK(l, k)'
    <2>1. Before(l, my[t].lo) /\ my[t].lo \in Nat /\ my[t].lo <= Len(Entries[l])
      BY <1>1 DEF TaskOK, SearchPart, WalkPart, Searching, Locals
    <2>2. Covered(l, my[t].lo)
      BY <1>1, <2>1, CoveredFromStart
    <2>3. jobs'[l][k].start = my[t].lo /\ jobs'[l][k].progress = my[t].lo
      BY <1>2, <1>4, <1>6
    <2> QED BY <2>1, <2>2, <2>3
            DEF RowOK, Before, Covered, HandedBelow, InWindow, Sorted, TimeAt
  <1>8. \A m \in Logs : \A i \in 1 .. Len(jobs'[m]) :
           ~(m = l /\ i = k) => i \in 1 .. Len(jobs[m]) /\ jobs'[m][i] = jobs[m][i]
    BY <1>1, <1>4, <1>5, <1>6
  <1>9. RowsOK'
    BY <1>1, <1>7, <1>8, RowsChange
  <1> QED BY <1>1, <1>4, <1>5, <1>9

(* update_progress and complete, on the row whose id the task holds *)
LEMMA UpdatedOK ==
  ASSUME IInv, NEW t \in Tasks, handed' = handed, faults \subseteq faults',
         \/ tpc[t] = "progress" /\ jobs' = Progressed(t)
         \/ tpc[t] = "complete" /\ jobs' = Completed(t)
  PROVE  /\ RowsOK'
         /\ jobs' \in [Logs -> Seq(JobRow)]
         /\ \A m \in Logs : Len(jobs[m]) <= Len(jobs'[m])
  <1> DEFINE l == TaskLog[t]
  <1>1. /\ l \in Logs /\ my[t] \in Locals /\ jobs \in [Logs -> Seq(JobRow)]
        /\ TaskOK(t) /\ Len(Entries[l]) \in Nat /\ my[t].job \in 1 .. Len(jobs[l])
    BY LogFacts DEF IInv, TasksTypeOK, HasJob
  <1>2. PICK k \in Nat : k = my[t].job
    BY <1>1
  <1>3. k \in 1 .. Len(jobs[l]) /\ jobs[l][k] \in JobRow /\ RowOK(l, k)
    BY <1>1, <1>2 DEF IInv, RowsOK
  <1>4. \A m \in Logs : Len(jobs[m]) \in Nat
    BY <1>1
  <1>5. CASE tpc[t] = "progress" /\ jobs' = Progressed(t)
    <2> DEFINE r == [jobs[l][k] EXCEPT !.progress = my[t].pos]
    <2>1. r \in JobRow /\ r.start = jobs[l][k].start /\ r.progress = my[t].pos
      BY <1>1, <1>3 DEF JobRow, Locals
    <2>2. jobs' = [jobs EXCEPT ![l] = [jobs[l] EXCEPT ![k] = r]]
      BY <1>2, <1>5 DEF Progressed
    <2>3. /\ jobs' \in [Logs -> Seq(JobRow)]
          /\ \A m \in Logs : Len(jobs'[m]) = Len(jobs[m])
          /\ \A m \in Logs : \A i \in 1 .. Len(jobs[m]) :
                jobs'[m][i] = IF m = l /\ i = k THEN r ELSE jobs[m][i]
      <3> HIDE DEF r
      <3>1. LET new == [jobs EXCEPT ![l] = [jobs[l] EXCEPT ![k] = r]] IN
            /\ new \in [Logs -> Seq(JobRow)]
            /\ \A m \in Logs : Len(new[m]) = Len(jobs[m])
            /\ \A m \in Logs : \A i \in 1 .. Len(jobs[m]) :
                  new[m][i] = IF m = l /\ i = k THEN r ELSE jobs[m][i]
        BY <1>1, <1>3, <2>1, RowUpdate
      <3> QED BY <2>2, <3>1
    <2>4. RowOK(l, k)'
      <3>1. Before(l, jobs[l][k].start) /\ Covered(l, my[t].pos)
        BY <1>1, <1>3, <1>5 DEF RowOK, TaskOK, SearchPart, WalkPart, Walking
      <3>2. jobs'[l][k].start = jobs[l][k].start /\ jobs'[l][k].progress = my[t].pos
        BY <1>1, <1>3, <2>1, <2>3
      <3> QED BY <3>1, <3>2 DEF RowOK, Before, Covered, HandedBelow, InWindow, Sorted, TimeAt
    <2>5. \A m \in Logs : \A i \in 1 .. Len(jobs'[m]) :
             ~(m = l /\ i = k) => i \in 1 .. Len(jobs[m]) /\ jobs'[m][i] = jobs[m][i]
      BY <1>4, <2>3
    <2>6. RowsOK'
      BY <1>1, <2>4, <2>5, RowsChange
    <2> QED BY <1>4, <2>3, <2>6
  <1>6. CASE tpc[t] = "complete" /\ jobs' = Completed(t)
    <2> DEFINE r == [jobs[l][k] EXCEPT !.done = TRUE]
    <2>1. r \in JobRow /\ r.start = jobs[l][k].start /\ r.progress = jobs[l][k].progress
      BY <1>3 DEF JobRow
    <2>2. jobs' = [jobs EXCEPT ![l] = [jobs[l] EXCEPT ![k] = r]]
      BY <1>2, <1>6 DEF Completed
    <2>3. /\ jobs' \in [Logs -> Seq(JobRow)]
          /\ \A m \in Logs : Len(jobs'[m]) = Len(jobs[m])
          /\ \A m \in Logs : \A i \in 1 .. Len(jobs[m]) :
                jobs'[m][i] = IF m = l /\ i = k THEN r ELSE jobs[m][i]
      <3> HIDE DEF r
      <3>1. LET new == [jobs EXCEPT ![l] = [jobs[l] EXCEPT ![k] = r]] IN
            /\ new \in [Logs -> Seq(JobRow)]
            /\ \A m \in Logs : Len(new[m]) = Len(jobs[m])
            /\ \A m \in Logs : \A i \in 1 .. Len(jobs[m]) :
                  new[m][i] = IF m = l /\ i = k THEN r ELSE jobs[m][i]
        BY <1>1, <1>3, <2>1, RowUpdate
      <3> QED BY <2>2, <3>1
    <2>4. RowOK(l, k)'
      <3>1. Before(l, jobs[l][k].start) /\ Covered(l, jobs[l][k].progress)
        BY <1>3 DEF RowOK
      <3>2. /\ jobs'[l][k].start = jobs[l][k].start
            /\ jobs'[l][k].progress = jobs[l][k].progress
        BY <1>1, <1>3, <2>1, <2>3
      <3> QED BY <3>1, <3>2 DEF RowOK, Before, Covered, HandedBelow, InWindow, Sorted, TimeAt
    <2>5. \A m \in Logs : \A i \in 1 .. Len(jobs'[m]) :
             ~(m = l /\ i = k) => i \in 1 .. Len(jobs[m]) /\ jobs'[m][i] = jobs[m][i]
      BY <1>4, <2>3
    <2>6. RowsOK'
      BY <1>1, <2>4, <2>5, RowsChange
    <2> QED BY <1>4, <2>3, <2>6
  <1> QED BY <1>5, <1>6

(* The steps that take a statement's effect. *)
LEMMA TableStep ==
  ASSUME IInv, NEW t \in Tasks,
         InsertJob(t) \/ UpdateProgress(t) \/ Complete(t) \/ StatementFails(t)
  PROVE  IInv'
  <1> DEFINE l == TaskLog[t]
  <1>0. /\ tpc \in [Tasks -> TaskPC] /\ my \in [Tasks -> Locals]
        /\ TaskOK(t) /\ my[t] \in Locals /\ l \in Logs
        /\ jobs \in [Logs -> Seq(JobRow)]
        /\ \A m \in Logs : Len(jobs[m]) \in Nat
        /\ handed' = handed /\ tree' = tree
        /\ faults \subseteq faults' /\ faults' \subseteq Faults
    BY LogFacts
    DEF IInv, TasksTypeOK, InsertJob, UpdateProgress, Complete, StatementFails, May
  <1>1. ASSUME RowsOK', jobs' \in [Logs -> Seq(JobRow)],
               \A m \in Logs : Len(jobs[m]) <= Len(jobs'[m]),
               my' \in [Tasks -> Locals], tpc' \in [Tasks -> TaskPC],
               \A u \in Tasks \ {t} : tpc'[u] = tpc[u] /\ my'[u] = my[u],
               HasJob(t)' => my'[t].job \in 1 .. Len(jobs'[l]),
               TaskOK(t)'
        PROVE  IInv'
    <2>1. TasksTypeOK'
      <3>1. ASSUME NEW u \in Tasks, HasJob(u)'
            PROVE  my'[u].job \in 1 .. Len(jobs'[TaskLog[u]])
        <4>1. CASE u = t
          BY <1>1, <3>1, <4>1
        <4>2. CASE u # t
          <5>1. HasJob(u) /\ my'[u] = my[u]
            BY <1>1, <3>1, <4>2 DEF HasJob
          <5>2. my[u].job \in 1 .. Len(jobs[TaskLog[u]]) /\ TaskLog[u] \in Logs
            BY <5>1, LogFacts DEF IInv, TasksTypeOK
          <5>3. Len(jobs'[TaskLog[u]]) \in Nat
            BY <1>1, <5>2
          <5> QED BY <1>0, <1>1, <5>1, <5>2, <5>3
        <4> QED BY <4>1, <4>2
      <3> QED BY <1>0, <1>1, <3>1 DEF IInv, TasksTypeOK
    <2> QED BY <1>0, <1>1, <2>1, OneTask
  <1>2. CASE InsertJob(t)
    <2>1. /\ RowsOK' /\ jobs' \in [Logs -> Seq(JobRow)]
          /\ \A m \in Logs : Len(jobs[m]) <= Len(jobs'[m])
          /\ Len(jobs'[l]) = Len(jobs[l]) + 1
      BY <1>0, <1>2, InsertedOK DEF InsertJob
    <2>2. [my[t] EXCEPT !.job = Len(jobs[l]) + 1] \in Locals
      <3>1. Len(jobs[l]) + 1 \in Nat
        BY <1>0
      <3> QED BY <1>0, <3>1, SetLocal
    <2>3. /\ my' \in [Tasks -> Locals] /\ tpc' \in [Tasks -> TaskPC]
          /\ \A u \in Tasks \ {t} : tpc'[u] = tpc[u] /\ my'[u] = my[u]
          /\ tpc[t] = "insert" /\ tpc'[t] = "reread"
          /\ my'[t] = [my[t] EXCEPT !.job = Len(jobs[l]) + 1]
      BY <1>0, <1>2, <2>2 DEF InsertJob, Goto, TaskPC
    <2>4. /\ my'[t].lo = my[t].lo /\ my'[t].hi = my[t].hi
          /\ my'[t].last = my[t].last /\ my'[t].job = Len(jobs[l]) + 1
      BY <1>0, <2>3 DEF Locals
    <2>5. TaskOK(t)'
      BY <1>0, <2>3, <2>4 DEF TaskOK, SearchPart, WalkPart, Searching, Walking, Before, Sorted, TimeAt
    <2>6. my'[t].job \in 1 .. Len(jobs'[l])
      BY <1>0, <2>1, <2>4
    <2> QED BY <1>1, <2>1, <2>3, <2>5, <2>6
  <1>3. CASE UpdateProgress(t)
    <2>1. /\ RowsOK' /\ jobs' \in [Logs -> Seq(JobRow)]
          /\ \A m \in Logs : Len(jobs[m]) <= Len(jobs'[m])
      BY <1>0, <1>3, UpdatedOK DEF UpdateProgress
    <2>2. /\ my' = my /\ tpc' \in [Tasks -> TaskPC]
          /\ \A u \in Tasks \ {t} : tpc'[u] = tpc[u]
          /\ tpc[t] = "progress" /\ tpc'[t] = AfterBatch(t, my[t].pos)
      BY <1>0, <1>3 DEF UpdateProgress, Goto, TaskPC, AfterBatch
    <2>3. TaskOK(t)'
      <3>1. /\ my[t].pos \in Nat /\ my[t].last \in Nat
            /\ \/ my[t].pos < my[t].last /\ tpc'[t] = "walk"
               \/ my[t].last <= my[t].pos /\ tpc'[t] = "complete"
        BY <1>0, <2>2 DEF AfterBatch, Locals
      <3>2. Covered(l, my[t].pos) => Covered(l, my[t].pos)'
        BY <1>0, <2>2 DEF Covered, HandedBelow, InWindow, Sorted, TimeAt
      <3>3. Before(l, my[t].lo) => Before(l, my[t].lo)'
        BY <2>2 DEF Before, Sorted, TimeAt
      <3> QED BY <1>0, <2>2, <3>1, <3>2, <3>3 DEF TaskOK, SearchPart, WalkPart, Searching, Walking
    <2>4. my[t].job \in 1 .. Len(jobs'[l])
      <3>1. my[t].job \in 1 .. Len(jobs[l]) /\ Len(jobs'[l]) \in Nat
        BY <1>0, <2>1, <2>2 DEF IInv, TasksTypeOK, HasJob
      <3> QED BY <1>0, <2>1, <3>1
    <2> QED BY <1>0, <1>1, <2>1, <2>2, <2>3, <2>4
  <1>4. CASE Complete(t) \/ StatementFails(t)
    <2>1. tpc'[t] = "done" /\ tpc' \in [Tasks -> TaskPC] /\ my' \in [Tasks -> Locals]
          /\ \A u \in Tasks \ {t} : tpc'[u] = tpc[u] /\ my'[u] = my[u]
      <3>1. Return(t) /\ Blank \in Locals
        BY <1>4 DEF Complete, StatementFails, Locals, Blank
      <3> QED BY <1>0, <3>1 DEF Return, Goto, TaskPC
    <2>2. TaskOK(t)' /\ ~HasJob(t)'
      BY <2>1 DEF TaskOK, SearchPart, WalkPart, HasJob, Searching, Walking
    <2>3. CASE jobs' = jobs
      BY <1>0, <1>1, <2>1, <2>2, <2>3, RowsStay
    <2>4. CASE tpc[t] = "insert" /\ jobs' = Inserted(t)
      BY <1>0, <1>1, <2>1, <2>2, <2>4, InsertedOK
    <2>5. CASE \/ tpc[t] = "progress" /\ jobs' = Progressed(t)
               \/ tpc[t] = "complete" /\ jobs' = Completed(t)
      BY <1>0, <1>1, <2>1, <2>2, <2>5, UpdatedOK
    <2> QED BY <1>4, <2>3, <2>4, <2>5 DEF Complete, StatementFails
  <1> QED BY <1>2, <1>3, <1>4

(* The steps after which the task has returned. *)
LEMMA ReturnStep ==
  ASSUME IInv, NEW t \in Tasks,
         \/ GetSthEmpty(t) \/ ProbeUndecodable(t) \/ NothingToWalk(t)
         \/ InsertRefused(t) \/ RequestFails(t)
  PROVE  IInv'
  <1>1. /\ Return(t) /\ UNCHANGED <<jobs, handed, tree>>
        /\ faults \subseteq faults' /\ faults' \subseteq Faults
    BY DEF IInv, TasksTypeOK, GetSthEmpty, ProbeUndecodable, NothingToWalk,
           InsertRefused, RequestFails, May
  <1> QED BY <1>1, Returns

-----------------------------------------------------------------------------
(* A step of the walk that leaves the table alone: what it must establish. *)
LEMMA WalkFrame ==
  ASSUME IInv, NEW t \in Tasks, UNCHANGED <<jobs, tree>>,
         handed \subseteq handed', handed' \subseteq Jobs,
         faults \subseteq faults', faults' \subseteq Faults,
         tpc' \in [Tasks -> TaskPC], my' \in [Tasks -> Locals],
         \A u \in Tasks \ {t} : tpc'[u] = tpc[u] /\ my'[u] = my[u],
         tpc[t] \in Searching, HasJob(t),
         my'[t].lo = my[t].lo, my'[t].hi = my[t].hi,
         my'[t].last = my[t].last, my'[t].job = my[t].job,
         WalkPart(t)'
  PROVE  IInv'
  <1>1. TasksTypeOK'
    BY DEF IInv, TasksTypeOK, HasJob
  <1>2. TaskOK(t)'
    <2>1. TaskOK(t)
      BY DEF IInv
    <2>2. Before(TaskLog[t], my[t].lo)'
      BY <2>1 DEF TaskOK, SearchPart, WalkPart, Before, Sorted, TimeAt
    <2> QED BY <2>1, <2>2 DEF TaskOK, SearchPart, WalkPart
  <1> QED BY <1>1, <1>2, OneTask, RowsStay

(* The steps of the walk that leave the table alone. *)
LEMMA WalkStep ==
  ASSUME IInv, NEW t \in Tasks,
         \/ \E p \in WalkFrom(t) : ReadProgress(t, p)
         \/ \E n \in 1 .. BatchSize : GetEntries(t, n)
         \/ GetNoEntries(t)
         \/ SendEntry(t) \/ SkipEntry(t)
         \/ BatchSent(t)
  PROVE  IInv'
  <1> DEFINE l == TaskLog[t]
  <1>0. /\ tpc \in [Tasks -> TaskPC] /\ my \in [Tasks -> Locals]
        /\ TaskOK(t) /\ my[t] \in Locals /\ l \in Logs
        /\ jobs \in [Logs -> Seq(JobRow)] /\ Len(Entries[l]) \in Nat
        /\ handed \subseteq Jobs /\ faults \subseteq Faults
        /\ UNCHANGED <<jobs, tree>>
    BY LogFacts
    DEF IInv, TasksTypeOK, ReadProgress, GetEntries, GetNoEntries, SendEntry,
        SkipEntry, BatchSent
  <1>1. CASE \E p \in WalkFrom(t) : ReadProgress(t, p)
    <2> PICK p \in WalkFrom(t) : ReadProgress(t, p)
      BY <1>1
    <2>1. p \in Nat /\ Covered(l, p) /\ tpc[t] = "reread"
      <3>1. tpc[t] = "reread"
        BY DEF ReadProgress
      <3>2. CASE p = my[t].lo
        BY <1>0, <3>1, <3>2, CoveredFromStart DEF TaskOK, SearchPart, WalkPart, Searching, Locals
      <3>3. ASSUME NEW k \in Running(l), p = jobs[l][k].progress
            PROVE  p \in Nat /\ Covered(l, p)
        <4>1. k \in 1 .. Len(jobs[l]) /\ jobs[l][k] \in JobRow
          BY <1>0 DEF Running
        <4> QED BY <1>0, <3>3, <4>1 DEF IInv, RowsOK, RowOK, JobRow
      <3> QED BY <3>1, <3>2, <3>3 DEF WalkFrom
    <2>2. [my[t] EXCEPT !.pos = p] \in Locals
      BY <1>0, <2>1, SetLocal
    <2>3. /\ my' \in [Tasks -> Locals] /\ my'[t] = [my[t] EXCEPT !.pos = p]
          /\ tpc' \in [Tasks -> TaskPC] /\ tpc'[t] = AfterBatch(t, p)
          /\ \A u \in Tasks \ {t} : tpc'[u] = tpc[u] /\ my'[u] = my[u]
          /\ UNCHANGED <<handed, faults>>
      BY <1>0, <2>2 DEF ReadProgress, Goto, AfterBatch, TaskPC
    <2>4. /\ my'[t].lo = my[t].lo /\ my'[t].hi = my[t].hi /\ my'[t].pos = p
          /\ my'[t].last = my[t].last /\ my'[t].job = my[t].job
      BY <1>0, <2>3 DEF Locals
    <2>5. Covered(l, my[t].pos)'
      BY <2>1, <2>3, <2>4 DEF Covered, HandedBelow, InWindow, Sorted, TimeAt
    <2>6. tpc'[t] = "walk" \/ (tpc'[t] = "complete" /\ my[t].last <= p)
      <3>1. my[t].last \in Nat
        BY <1>0 DEF Locals
      <3>2. p < my[t].last \/ my[t].last <= p
        BY <2>1, <3>1
      <3>3. tpc'[t] = IF p < my[t].last THEN "walk" ELSE "complete"
        BY <2>3 DEF AfterBatch
      <3> QED BY <2>1, <3>1, <3>2, <3>3
    <2>7. tpc[t] \in Searching /\ HasJob(t)
      BY <2>1 DEF Searching, HasJob
    <2>8. WalkPart(t)'
      BY <2>4, <2>5, <2>6 DEF WalkPart
    <2>9. handed \subseteq handed' /\ handed' \subseteq Jobs /\ faults \subseteq faults' /\ faults' \subseteq Faults
      BY <1>0, <2>3
    <2> QED BY <1>0, <2>3, <2>4, <2>7, <2>8, <2>9, WalkFrame
  <1>2. CASE \E n \in 1 .. BatchSize : GetEntries(t, n)
    <2> PICK n \in 1 .. BatchSize : GetEntries(t, n)
      BY <1>2
    <2>1. /\ tpc[t] = "walk" /\ my[t].pos + n \in Nat /\ my[t].pos + n <= my[t].last + 1
          /\ my[t].pos \in Nat
      BY <1>0, TasksAssumption DEF GetEntries, Locals
    <2>2. [my[t] EXCEPT !.upto = my[t].pos + n] \in Locals
      BY <1>0, <2>1, SetLocal
    <2>3. /\ my' \in [Tasks -> Locals] /\ my'[t] = [my[t] EXCEPT !.upto = my[t].pos + n]
          /\ tpc' \in [Tasks -> TaskPC] /\ tpc'[t] = "send"
          /\ \A u \in Tasks \ {t} : tpc'[u] = tpc[u] /\ my'[u] = my[u]
          /\ handed' = handed /\ faults' = faults
      BY <1>0, <2>2 DEF GetEntries, Goto, TaskPC
    <2>4. /\ my'[t].lo = my[t].lo /\ my'[t].hi = my[t].hi /\ my'[t].pos = my[t].pos
          /\ my'[t].last = my[t].last /\ my'[t].job = my[t].job
          /\ my'[t].upto = my[t].pos + n
      BY <1>0, <2>3 DEF Locals
    <2>5. Covered(l, my[t].pos)'
      <3>1. Covered(l, my[t].pos)
        BY <1>0, <2>1 DEF TaskOK, WalkPart, Walking
      <3> QED BY <3>1, <2>3, <2>4 DEF Covered, HandedBelow, InWindow, Sorted, TimeAt
    <2>6. WalkPart(t)'
      BY <1>0, <2>1, <2>3, <2>4, <2>5, TasksAssumption DEF WalkPart
    <2>7. tpc[t] \in Searching /\ HasJob(t)
      BY <2>1 DEF Searching, HasJob
    <2> QED BY <1>0, <2>3, <2>4, <2>6, <2>7, WalkFrame
  <1>3. CASE GetNoEntries(t)
    <2>1. /\ tpc[t] = "walk" /\ my[t].pos + 1 \in Nat /\ my[t].pos \in Nat
          /\ handed' = handed /\ faults' = faults \cup {"empty"} /\ faults' \subseteq Faults
      BY <1>0, <1>3 DEF GetNoEntries, Locals, Fault
    <2>2. [my[t] EXCEPT !.pos = my[t].pos + 1] \in Locals
      BY <1>0, <2>1, SetLocal
    <2>3. /\ my' \in [Tasks -> Locals] /\ my'[t] = [my[t] EXCEPT !.pos = my[t].pos + 1]
          /\ tpc' \in [Tasks -> TaskPC] /\ tpc'[t] = "progress"
          /\ \A u \in Tasks \ {t} : tpc'[u] = tpc[u] /\ my'[u] = my[u]
      BY <1>0, <1>3, <2>2 DEF GetNoEntries, Goto, TaskPC
    <2>4. /\ my'[t].lo = my[t].lo /\ my'[t].hi = my[t].hi
          /\ my'[t].last = my[t].last /\ my'[t].job = my[t].job
      BY <1>0, <2>3 DEF Locals
    <2>5. WalkPart(t)'
      BY <2>1, <2>3 DEF WalkPart, Covered
    <2>6. tpc[t] \in Searching /\ HasJob(t)
      BY <2>1 DEF Searching, HasJob
    <2> QED BY <1>0, <2>1, <2>3, <2>4, <2>5, <2>6, WalkFrame
  <1>4. CASE SendEntry(t) \/ SkipEntry(t)
    <2>1. /\ tpc[t] = "send" /\ my[t].pos + 1 \in Nat /\ my[t].pos \in Nat
          /\ my[t].pos < my[t].upto /\ my[t].upto \in Nat /\ my[t].last \in Nat
          /\ tpc' = tpc /\ faults' = faults
          /\ \/ handed' = handed \cup {JobOf(l, my[t].pos)}
             \/ EntryAt(l, my[t].pos) = Undecodable /\ handed' = handed
      BY <1>0, <1>4 DEF SendEntry, SkipEntry, Locals
    <2>2. [my[t] EXCEPT !.pos = my[t].pos + 1] \in Locals
      BY <1>0, <2>1, SetLocal
    <2>3. /\ my' \in [Tasks -> Locals] /\ my'[t] = [my[t] EXCEPT !.pos = my[t].pos + 1]
          /\ \A u \in Tasks \ {t} : tpc'[u] = tpc[u] /\ my'[u] = my[u]
      BY <1>0, <1>4, <2>2 DEF SendEntry, SkipEntry
    <2>4. /\ my'[t].lo = my[t].lo /\ my'[t].hi = my[t].hi /\ my'[t].pos = my[t].pos + 1
          /\ my'[t].last = my[t].last /\ my'[t].job = my[t].job
          /\ my'[t].upto = my[t].upto
      BY <1>0, <2>3 DEF Locals
    <2>5. my[t].upto <= my[t].last + 1 /\ my[t].last < Len(Entries[l]) /\ Covered(l, my[t].pos)
      BY <1>0, <2>1 DEF TaskOK, SearchPart, WalkPart, Searching, Walking
    <2>6. JobOf(l, my[t].pos) \in Jobs
      BY <1>0, <2>1, <2>5 DEF JobOf, Jobs
    <2>7. handed \subseteq handed' /\ handed' \subseteq Jobs
      BY <1>0, <2>1, <2>6
    <2>8. Covered(l, my[t].pos)'
      <3> SUFFICES ASSUME "empty" \notin faults, Sorted(l),
                          NEW i \in 0 .. my[t].pos, InWindow(l, i)
                   PROVE  JobOf(l, i) \in handed'
        <4>1. my'[t].pos - 1 = my[t].pos
          BY <2>1, <2>4
        <4> QED BY <2>1, <4>1 DEF Covered, HandedBelow, Sorted, TimeAt, InWindow
      <3>1. CASE i = my[t].pos
        BY <2>1, <3>1 DEF InWindow
      <3>2. CASE i # my[t].pos
        BY <2>1, <2>5, <2>7, <3>2 DEF Covered, HandedBelow
      <3> QED BY <3>1, <3>2
    <2>9. WalkPart(t)'
      BY <2>1, <2>4, <2>5, <2>8 DEF WalkPart
    <2>10. tpc[t] \in Searching /\ HasJob(t)
      BY <2>1 DEF Searching, HasJob
    <2> QED BY <1>0, <2>1, <2>3, <2>4, <2>7, <2>9, <2>10, WalkFrame
  <1>5. CASE BatchSent(t)
    <2>1. /\ tpc[t] = "send" /\ tpc' \in [Tasks -> TaskPC] /\ tpc'[t] = "progress"
          /\ \A u \in Tasks \ {t} : tpc'[u] = tpc[u]
          /\ my' = my /\ handed' = handed /\ faults' = faults
      BY <1>0, <1>5 DEF BatchSent, Goto, TaskPC
    <2>2. Covered(l, my[t].pos)
      BY <1>0, <2>1 DEF TaskOK, WalkPart, Walking
    <2>3. WalkPart(t)'
      BY <2>1, <2>2 DEF WalkPart, Covered, HandedBelow, InWindow, Sorted, TimeAt
    <2>4. tpc[t] \in Searching /\ HasJob(t)
      BY <2>1 DEF Searching, HasJob
    <2> QED BY <1>0, <2>1, <2>3, <2>4, WalkFrame
  <1> QED BY <1>1, <1>2, <1>3, <1>4, <1>5

-----------------------------------------------------------------------------
(* The steps that are not of one task. *)
LEMMA PublishStep ==
  ASSUME IInv, NEW l \in Logs, Publish(l)
  PROVE  IInv'
  <1>1. /\ UNCHANGED <<jobs, tpc, my, handed, faults>>
        /\ tree' = [tree EXCEPT ![l] = tree[l] + 1]
        /\ tree[l] < Len(Entries[l])
    BY DEF Publish
  <1>2. TasksTypeOK'
    <2>1. tree \in [Logs -> Nat] /\ \A m \in Logs : tree[m] <= Len(Entries[m]) /\ Len(Entries[m]) \in Nat
      BY EntriesAssumption DEF IInv, TasksTypeOK
    <2>2. tree' \in [Logs -> Nat] /\ \A m \in Logs : tree'[m] <= Len(Entries[m])
      BY <1>1, <2>1
    <2> QED BY <1>1, <2>2 DEF IInv, TasksTypeOK, HasJob
  <1>3. \A t \in Tasks : TaskOK(t)'
    BY <1>1 DEF IInv, TaskOK, SearchPart, WalkPart, Before, Covered, HandedBelow, InWindow, Sorted
  <1>4. RowsOK'
    BY <1>1, RowsStay
  <1> QED BY <1>2, <1>3, <1>4 DEF IInv

(* Tasks are spawned, or die with their process. *)
LEMMA ProcessStep ==
  ASSUME IInv, NEW r \in Invocations, Start(r) \/ Die(r)
  PROVE  IInv'
  <1>1. /\ UNCHANGED <<tree, jobs, handed>>
        /\ faults \subseteq faults' /\ faults' \subseteq Faults
        /\ tpc' \in [Tasks -> TaskPC] /\ my' \in [Tasks -> Locals]
        /\ \A t \in Tasks : tpc'[t] \in {"done", "queued"} \/ (tpc'[t] = tpc[t] /\ my'[t] = my[t])
    <2>1. CASE Start(r)
      BY <2>1 DEF IInv, TasksTypeOK, Start, TaskPC
    <2>2. CASE Die(r)
      <3>1. Blank \in Locals
        BY DEF Blank, Locals
      <3> QED BY <2>2, <3>1 DEF IInv, TasksTypeOK, Die, May, TaskPC
    <2> QED BY <2>1, <2>2
  <1>2. TasksTypeOK'
    BY <1>1 DEF IInv, TasksTypeOK, HasJob
  <1>3. ASSUME NEW t \in Tasks PROVE TaskOK(t)'
    <2>1. CASE tpc'[t] \in {"done", "queued"}
      BY <2>1 DEF TaskOK, SearchPart, WalkPart, Searching, Walking
    <2>2. CASE tpc'[t] = tpc[t] /\ my'[t] = my[t]
      <3>1. TaskOK(t) /\ my[t].pos \in Nat
        BY DEF IInv, TasksTypeOK, Locals
      <3>2. Covered(TaskLog[t], my[t].pos) => Covered(TaskLog[t], my[t].pos)'
        BY <1>1, <2>2 DEF Covered, HandedBelow, InWindow, Sorted
      <3> QED BY <2>2, <3>1, <3>2 DEF TaskOK, SearchPart, WalkPart, Before, Sorted
    <2> QED BY <1>1, <2>1, <2>2
  <1>4. RowsOK'
    BY <1>1, RowsStay
  <1> QED BY <1>2, <1>3, <1>4 DEF IInv

-----------------------------------------------------------------------------
(* The invariant holds at first, *)
LEMMA InitInv == TasksInit /\ faults = {} => IInv
  <1> SUFFICES ASSUME TasksInit, faults = {} PROVE IInv
    OBVIOUS
  <1>1. TasksTypeOK
    <2>1. \A l \in Logs : 0 <= Len(Entries[l])
      BY EntriesAssumption
    <2>2. <<>> \in Seq(JobRow)
      OBVIOUS
    <2> QED BY <2>1, <2>2 DEF TasksInit, TasksTypeOK, TaskPC, Locals, Blank, HasJob
  <1>2. \A t \in Tasks : TaskOK(t)
    BY DEF TasksInit, TaskOK, SearchPart, WalkPart, Searching, Walking
  <1>3. RowsOK
    BY DEF TasksInit, RowsOK
  <1> QED BY <1>1, <1>2, <1>3 DEF IInv

(* and every step keeps it. *)
LEMMA StepInv == IInv /\ [TasksNext]_tasksVars => IInv'
  <1> SUFFICES ASSUME IInv, [TasksNext]_tasksVars PROVE IInv'
    OBVIOUS
  <1>1. CASE UNCHANGED tasksVars
    BY <1>1
    DEF tasksVars, taskVars, IInv, TasksTypeOK, HasJob, RowsOK, RowOK, TaskOK,
        SearchPart, WalkPart, Before, Covered, HandedBelow, InWindow, Sorted, TimeAt
  <1>2. ASSUME NEW l \in Logs, Publish(l) PROVE IInv'
    BY <1>2, PublishStep
  <1>3. ASSUME NEW r \in Invocations, Start(r) \/ Die(r) PROVE IInv'
    BY <1>3, ProcessStep
  <1>4. ASSUME NEW t \in Tasks, QuietStep(t) \/ SendEntry(t) PROVE IInv'
    BY <1>4, SearchStep, TableStep, ReturnStep, WalkStep DEF QuietStep
  <1> QED BY <1>1, <1>2, <1>3, <1>4 DEF TasksNext

(* The invariant holds of every run of the command's tasks. *)
THEOREM Invariance == TasksSpec => []IInv
  BY InitInv, StepInv, PTL DEF TasksSpec, TasksStart

(* What the invariant says of the rows and of the tasks. *)
LEMMA TasksInvFacts ==
  IInv => TasksTypeOK /\ StartsAtSince /\ ProgressCovered /\ CompletionCost
  <1> SUFFICES ASSUME IInv
               PROVE  TasksTypeOK /\ StartsAtSince /\ ProgressCovered /\ CompletionCost
    OBVIOUS
  <1>1. TasksTypeOK /\ StartsAtSince
    BY DEF IInv, RowsOK, RowOK, Before, StartsAtSince
  <1>2. ProgressCovered
    BY DEF IInv, RowsOK, RowOK, Covered, ProgressCovered
  <1>3. CompletionCost
    <2> SUFFICES ASSUME "empty" \notin faults, NEW t \in Tasks,
                        tpc[t] = "complete", Sorted(TaskLog[t])
                 PROVE  Cardinality(Missing(TaskLog[t], jobs[TaskLog[t]][my[t].job].end))
                            <= 1 + Behind(t)
      BY DEF CompletionCost
    <2> DEFINE end == jobs[TaskLog[t]][my[t].job].end
    <2>1. HandedBelow(TaskLog[t], my[t].pos) /\ my[t].last <= my[t].pos
      BY DEF IInv, TaskOK, WalkPart, Walking, Covered
    <2>2. my[t].last \in Nat /\ my[t].pos \in Nat /\ end \in Nat
      <3>1. my[t].last \in Nat /\ my[t].pos \in Nat /\ my[t].job \in 1 .. Len(jobs[TaskLog[t]])
        BY DEF IInv, TasksTypeOK, Locals, HasJob
      <3>2. jobs[TaskLog[t]] \in Seq(JobRow)
        BY TasksAssumption DEF IInv, TasksTypeOK
      <3> HIDE DEF end
      <3>3. jobs[TaskLog[t]][my[t].job] \in JobRow
        BY <3>1, <3>2
      <3>4. jobs[TaskLog[t]][my[t].job].end \in Nat
        BY <3>3 DEF JobRow
      <3> QED BY <3>1, <3>4 DEF end
    <2>3. Behind(t) = IF end > my[t].last THEN end - my[t].last ELSE 0
      BY DEF Behind
    <2> HIDE DEF end
    <2>4. Missing(TaskLog[t], end) \in SUBSET (my[t].last .. end)
      BY <2>1, <2>2 DEF Missing, HandedBelow
    <2>5. /\ IsFiniteSet(my[t].last .. end)
          /\ Cardinality(my[t].last .. end) =
                 IF my[t].last > end THEN 0 ELSE end - my[t].last + 1
      <3>1. my[t].last \in Int /\ end \in Int
        BY <2>2
      <3> QED BY <3>1, FS_Interval
    <2>6. /\ Cardinality(Missing(TaskLog[t], end)) \in Nat
          /\ Cardinality(Missing(TaskLog[t], end)) <= Cardinality(my[t].last .. end)
      BY <2>4, <2>5, FS_Subset, FS_CardinalityType
    <2>7. Cardinality(Missing(TaskLog[t], end)) <= 1 + Behind(t)
      BY <2>2, <2>3, <2>5, <2>6
    <2> QED BY <2>7 DEF end
  <1> QED BY <1>1, <1>2, <1>3

(* Every task's locals and every row are of their types, and a task that    *)
(* holds a job id holds the id of a row of its log (run_for_log).           *)
THEOREM TasksTypes == TasksSpec => []TasksTypeOK
  BY TasksInvFacts, Invariance, PTL

(* No entry of the window is below the start of a walk, for every sorted    *)
(* log and whatever tree size the log answered with (binary_search_index).  *)
THEOREM SearchRight == TasksSpec => []StartsAtSince
  BY TasksInvFacts, Invariance, PTL

(* Everything of the window below a job's progress was handed over, however *)
(* many invocations wrote the row (run_for_log).                            *)
THEOREM ResumeSkipsNothing == TasksSpec => []ProgressCovered
  BY TasksInvFacts, Invariance, PTL

(* Completing a job leaves at most one entry of its window behind, and      *)
(* those the tree head of this run did not reach (run_for_log).             *)
THEOREM CompletedAtCost == TasksSpec => []CompletionCost
  BY TasksInvFacts, Invariance, PTL

-----------------------------------------------------------------------------
(* The process of one invocation (BackfillRun): its tasks keep IInv, since  *)
(* the writer only adds to the failures; and what they handed to the writer *)
(* is in the channel, in the batch or in the table.                         *)
QueueOK ==
    /\ chan \in Seq(handed) /\ Len(chan) <= ChannelCapacity
    /\ batch \in Seq(handed) /\ Len(batch) <= BatchMax

RunInv == IInv /\ QueueOK /\ SentOrStored

(* A quiet step of a task hands nothing over and forgets no failure.        *)
LEMMA QuietFacts ==
  ASSUME NEW t \in Tasks, QuietStep(t)
  PROVE  handed' = handed /\ faults \subseteq faults'
  BY DEF QuietStep, Acquire, GetSth, GetSthEmpty, Probe, ProbeUndecodable, NothingToWalk,
    SearchDone, FindActive, InsertJob, InsertRefused, ReadProgress, GetEntries,
    GetNoEntries, SkipEntry, BatchSent, UpdateProgress, Complete, RequestFails,
    StatementFails, May, Fault

(* So does the writer, which leaves the tasks and their rows alone.         *)
LEMMA WriteFacts ==
  ASSUME Write
  PROVE  UNCHANGED <<taskVars, alive, sent>> /\ faults \subseteq faults' /\ certs \subseteq certs'
         /\ (faults \subseteq Faults => faults' \subseteq Faults)
  BY DEF Write, FlushStep, RecvFirst, DrainMore, DrainDone, InsertBatch, InsertFails,
    UpsertName, MatchRow, Broadcast, Fault

(* More failures do not disturb the tasks.                                  *)
LEMMA MoreFaults ==
  ASSUME IInv, UNCHANGED taskVars, faults \subseteq faults', faults' \subseteq Faults
  PROVE  IInv'
  <1>1. TasksTypeOK'
    BY DEF IInv, TasksTypeOK, HasJob, taskVars
  <1>2. \A t \in Tasks : TaskOK(t)'
    BY DEF taskVars, IInv, TaskOK, SearchPart, WalkPart, Before, Covered, HandedBelow, InWindow, Sorted
  <1>3. RowsOK'
    BY RowsStay DEF taskVars
  <1> QED BY <1>1, <1>2, <1>3 DEF IInv

(* What the tasks rely on, with the writer and the channel beside them.     *)
LEMMA TasksKept ==
  ASSUME IInv, [Next]_vars
  PROVE  IInv'
  <1>1. ASSUME NEW l \in Logs, Grow(l)
        PROVE  IInv'
    BY <1>1, PublishStep DEF Grow
  <1>2. CASE Begin
    BY <1>2, ProcessStep, RunAssumption DEF Begin
  <1>3. ASSUME NEW t \in Tasks, Send(t)
        PROVE  IInv'
    BY <1>3, WalkStep DEF Send
  <1>4. ASSUME NEW t \in Tasks, Task(t)
        PROVE  IInv'
    BY <1>4, SearchStep, TableStep, ReturnStep, WalkStep DEF Task, QuietStep
  <1>5. CASE Write
    BY <1>5, WriteFacts, MoreFaults DEF IInv, TasksTypeOK
  <1>6. CASE Exit \/ UNCHANGED vars
    <2>1. UNCHANGED <<taskVars, faults>>
      BY <1>6 DEF Exit, vars, runVars
    <2> QED BY <2>1, MoreFaults DEF IInv, TasksTypeOK
  <1>7. CASE Kill
    BY <1>7, ProcessStep, RunAssumption DEF Kill
  <1> QED BY <1>1, <1>2, <1>3, <1>4, <1>5, <1>6, <1>7 DEF Next

(* The channel and the batch hold handed jobs, within their capacities.     *)
LEMMA QueueStep ==
  ASSUME QueueOK, [Next]_vars
  PROVE  QueueOK'
  <1>t. /\ chan \in Seq(handed) /\ batch \in Seq(handed)
        /\ Len(chan) \in Nat /\ Len(batch) \in Nat
        /\ ChannelCapacity \in Nat \ {0} /\ BatchMax \in Nat /\ BatchMax >= 2
    BY ChannelAssumption, WriterAssumption DEF QueueOK
  <1>s. ASSUME chan' = chan, batch' \in {batch, <<>>}, handed' = handed
        PROVE  QueueOK'
    <2>1. batch' \in Seq(handed) /\ Len(batch') <= BatchMax
      <3>1. CASE batch' = batch
        BY <3>1 DEF QueueOK
      <3>2. CASE batch' = <<>>
        BY <3>2, <1>t
      <3> QED BY <1>s, <3>1, <3>2
    <2> QED BY <1>s, <2>1 DEF QueueOK
  <1>1. CASE (\E l \in Logs : Grow(l)) \/ Begin \/ UNCHANGED vars
    BY <1>1, <1>s DEF Grow, Publish, Begin, Start, vars, runVars, taskVars, writerVars
  <1>2. ASSUME NEW t \in Tasks, Send(t)
        PROVE  QueueOK'
    <2> DEFINE i == JobOf(TaskLog[t], my[t].pos)
    <2>1. /\ chan' = Append(chan, i) /\ batch' = batch /\ handed' = handed \cup {i}
          /\ Len(chan) < ChannelCapacity
      BY <1>2 DEF Send, SendEntry, HasRoom, writerVars
    <2> HIDE DEF i
    <2>2. chan \in Seq(handed') /\ batch \in Seq(handed') /\ i \in handed'
      BY <2>1, <1>t
    <2>3. chan' \in Seq(handed') /\ Len(chan') = Len(chan) + 1
      BY <2>1, <2>2
    <2> QED BY <2>1, <2>2, <2>3, <1>t DEF QueueOK
  <1>3. ASSUME NEW t \in Tasks, Task(t)
        PROVE  QueueOK'
    BY <1>3, <1>s, QuietFacts DEF Task, writerVars
  <1>4. CASE Write
    <2>1. handed' = handed
      BY <1>4 DEF Write, taskVars
    <2>2. CASE RecvFirst \/ DrainMore
      <3>1. /\ chan # <<>> /\ chan' = Tail(chan)
            /\ \/ batch' = <<Head(chan)>>
               \/ batch' = Append(batch, Head(chan)) /\ Len(batch) < BatchMax
        BY <2>2 DEF RecvFirst, DrainMore
      <3>2. chan' \in Seq(handed) /\ Len(chan') = Len(chan) - 1 /\ Head(chan) \in handed
        BY <3>1, <1>t
      <3>3. batch' \in Seq(handed) /\ Len(batch') <= BatchMax
        <4>1. CASE batch' = <<Head(chan)>>
          BY <4>1, <3>2, <1>t
        <4>2. CASE batch' = Append(batch, Head(chan)) /\ Len(batch) < BatchMax
          BY <4>2, <3>2, <1>t
        <4> QED BY <3>1, <4>1, <4>2
      <3> QED BY <2>1, <3>2, <3>3, <1>t DEF QueueOK
    <2>3. CASE ~(RecvFirst \/ DrainMore)
      <3>1. chan' = chan /\ batch' \in {batch, <<>>}
        BY <1>4, <2>3
        DEF Write, FlushStep, DrainDone, InsertBatch, InsertFails, UpsertName, MatchRow, Broadcast
      <3> QED BY <2>1, <3>1, <1>s
    <2> QED BY <2>2, <2>3
  <1>5. CASE Exit \/ Kill
    <2>1. chan' = <<>> /\ batch' = <<>>
      BY <1>5 DEF Exit, Kill, WriterCrash
    <2> QED BY <2>1, <1>t DEF QueueOK
  <1> QED BY <1>1, <1>2, <1>3, <1>4, <1>5 DEF Next

(* A job handed over and not lost is not lost by a step, unless the process *)
(* ends or an insert fails: a job that is sent is at the end of the         *)
(* channel, one that is taken from the channel is in the batch, and a batch *)
(* is given up only after its rows are in the table.                        *)
LEMMA JobKept ==
  ASSUME QueueOK, [Next]_vars, ~Exit, ~Kill, ~InsertFails,
         NEW j \in sent', Storable(EntryOf(j)),
         j \in sent => InFlight(j) \/ EntryOf(j) \in certs
  PROVE  InFlight(j)' \/ EntryOf(j) \in certs'
  <1>t. chan \in Seq(handed) /\ batch \in Seq(handed) /\ Len(chan) \in Nat /\ Len(batch) \in Nat
    BY DEF QueueOK
  <1>k. j \in sent => InFlight(j) \/ EntryOf(j) \in certs
    OBVIOUS
  <1>1. CASE sent' = sent /\ UNCHANGED <<chan, writerVars>>
    BY <1>1, <1>k DEF writerVars, InFlight, InChannel, InBatch
  <1>2. CASE Begin
    BY <1>2 DEF Begin
  <1>3. ASSUME NEW t \in Tasks, Send(t)
        PROVE  InFlight(j)' \/ EntryOf(j) \in certs'
    <2> DEFINE i == JobOf(TaskLog[t], my[t].pos)
    <2>1. chan' = Append(chan, i) /\ sent' = sent \cup {i} /\ UNCHANGED writerVars
          /\ handed' = handed \cup {i}
      BY <1>3 DEF Send, SendEntry
    <2> HIDE DEF i
    <2>2. chan \in Seq(handed')
      BY <1>t, <2>1
    <2>3. /\ Len(chan') = Len(chan) + 1 /\ chan'[Len(chan) + 1] = i
          /\ \A k \in 1 .. Len(chan) : chan'[k] = chan[k]
      BY <2>1, <2>2
    <2>4. InFlight(j) \/ j = i => InFlight(j)'
      BY <1>t, <2>1, <2>3 DEF InFlight, InChannel, InBatch, writerVars
    <2> QED BY <1>k, <2>1, <2>4 DEF writerVars
  <1>4. CASE Write
    <2>0. sent' = sent /\ FlushStep /\ certs \subseteq certs'
      BY <1>4, WriteFacts DEF Write
    <2>1. CASE RecvFirst
      <3>1. /\ phase = "recv" /\ chan # <<>> /\ batch' = <<Head(chan)>> /\ chan' = Tail(chan)
            /\ phase' = "drain"
        BY <2>1 DEF RecvFirst
      <3>2. /\ Len(batch') = 1 /\ batch'[1] = chan[1] /\ Len(chan') = Len(chan) - 1
            /\ \A k \in 1 .. Len(chan) : k = 1 \/ (k - 1 \in 1 .. Len(chan') /\ chan'[k - 1] = chan[k])
        BY <1>t, <3>1
      <3>3. InFlight(j) => InFlight(j)'
        BY <3>1, <3>2 DEF InFlight, InChannel, InBatch
      <3> QED BY <1>k, <2>0, <3>3
    <2>2. CASE DrainMore
      <3>1. /\ phase = "drain" /\ chan # <<>> /\ batch' = Append(batch, Head(chan))
            /\ chan' = Tail(chan) /\ phase' = phase
        BY <2>2 DEF DrainMore
      <3>2. /\ Len(batch') = Len(batch) + 1 /\ batch'[Len(batch) + 1] = chan[1]
            /\ \A k \in 1 .. Len(batch) : batch'[k] = batch[k]
            /\ Len(chan') = Len(chan) - 1
            /\ \A k \in 1 .. Len(chan) : k = 1 \/ (k - 1 \in 1 .. Len(chan') /\ chan'[k - 1] = chan[k])
        BY <1>t, <3>1
      <3>3. InChannel(j) => InChannel(j)' \/ InBatch(j)'
        BY <1>t, <3>2 DEF InChannel, InBatch
      <3>4. InBatch(j) => InBatch(j)'
        BY <1>t, <3>2 DEF InBatch
      <3> QED BY <1>k, <2>0, <3>1, <3>3, <3>4 DEF InFlight
    <2>3. CASE DrainDone
      <3>1. UNCHANGED <<chan, batch>> /\ phase = "drain" /\ phase' = "insert"
        BY <2>3 DEF DrainDone
      <3> QED BY <1>k, <2>0, <3>1 DEF InFlight, InChannel, InBatch
    <2>4. CASE InsertBatch
      <3>1. chan' = chan /\ certs' = certs \cup RowCerts
        BY <2>4 DEF InsertBatch
      <3>2. InBatch(j) => EntryOf(j) \in RowCerts
        BY DEF InBatch, RowCerts, Rows, CertAt
      <3> QED BY <1>k, <2>0, <3>1, <3>2 DEF InFlight, InChannel
    <2>5. CASE (\E p \in naming : UpsertName(p[1], p[2])) \/ (\E k \in matching : MatchRow(k))
               \/ Broadcast
      <3>1. phase = "flush" /\ chan' = chan
        BY <2>5 DEF UpsertName, MatchRow, Broadcast
      <3> QED BY <1>k, <2>0, <3>1 DEF InFlight, InChannel
    <2> QED BY <2>0, <2>1, <2>2, <2>3, <2>4, <2>5 DEF FlushStep
  <1>5. ASSUME NEW t \in Tasks, Task(t)
        PROVE  sent' = sent /\ UNCHANGED <<chan, writerVars>>
    BY <1>5 DEF Task
  <1>6. CASE (\E l \in Logs : Grow(l)) \/ UNCHANGED vars
    BY <1>1, <1>6 DEF Grow, vars, runVars
  <1> QED BY <1>1, <1>2, <1>3, <1>4, <1>5, <1>6 DEF Next

(* No step forgets a failure, or revives a process that keeps its history.  *)
LEMMA StepFacts ==
  ASSUME [Next]_vars
  PROVE  /\ faults \subseteq faults'
         /\ alive' => alive \/ sent' = {}
         /\ Exit \/ Kill => ~alive'
         /\ InsertFails => "insert" \in faults'
  <1>1. ASSUME NEW t \in Tasks, Send(t) \/ Task(t)
        PROVE  faults \subseteq faults' /\ alive' = alive
    BY <1>1, QuietFacts DEF Send, SendEntry, Task
  <1>2. ASSUME NEW l \in Logs, Grow(l)
        PROVE  faults \subseteq faults' /\ alive' = alive
    BY <1>2 DEF Grow, Publish
  <1>3. Begin \/ Exit \/ Kill \/ UNCHANGED vars
            => faults \subseteq faults' /\ (alive' => alive \/ sent' = {})
    BY DEF Begin, Start, Exit, Kill, Die, May, vars
  <1>6. Write => faults \subseteq faults' /\ alive' = alive
    BY WriteFacts
  <1>4. Exit \/ Kill => ~alive'
    BY DEF Exit, Kill
  <1>5. InsertFails => "insert" \in faults'
    BY DEF InsertFails, Fault
  <1> QED BY <1>1, <1>2, <1>3, <1>4, <1>5, <1>6 DEF Next

LEMMA RunStep == RunInv /\ [Next]_vars => RunInv'
  <1> SUFFICES ASSUME RunInv, [Next]_vars
               PROVE  RunInv'
    OBVIOUS
  <1>1. IInv' /\ QueueOK'
    BY TasksKept, QueueStep DEF RunInv
  <1>2. SentOrStored'
    <2> SUFFICES ASSUME alive', "insert" \notin faults', NEW j \in sent',
                        Storable(EntryOf(j))
                 PROVE  InFlight(j)' \/ EntryOf(j) \in certs'
      BY DEF SentOrStored, Storable, EntryOf, EntryAt
    <2>1. ~Exit /\ ~Kill /\ ~InsertFails /\ alive /\ "insert" \notin faults
      BY StepFacts
    <2>2. j \in sent => InFlight(j) \/ EntryOf(j) \in certs
      BY <2>1 DEF RunInv, SentOrStored
    <2> QED BY <2>1, <2>2, JobKept DEF RunInv
  <1> QED BY <1>1, <1>2 DEF RunInv

LEMMA RunAlways == Spec => []RunInv
  <1>1. Init => RunInv
    BY InitInv, ChannelAssumption, WriterAssumption
    DEF Init, QueueInit, WriterInit, RunInv, QueueOK, SentOrStored
  <1> QED BY <1>1, RunStep, PTL DEF Spec

(* Until the process ends nothing it handed to its writer is lost, unless   *)
(* an insert fails (src/cmd/backfill.rs, run; src/writer.rs).               *)
THEOREM NothingSentLost == Spec => []SentOrStored
  BY RunAlways, PTL DEF RunInv

(* What holds of the tasks alone holds of the process, whose tasks wait for *)
(* the channel and are cut short when it exits: on a log in order of time   *)
(* resuming skips nothing, and completing costs no more than it does        *)
(* without a writer (run_for_log).                                          *)
THEOREM ProcessSkipsNothing == Spec => [](ProgressCovered /\ CompletionCost /\ StartsAtSince)
  BY RunAlways, TasksInvFacts, PTL DEF RunInv

-----------------------------------------------------------------------------
(* What n places cover has at most n elements. *)
LEMMA AtMost ==
  ASSUME NEW n \in Nat, NEW f, NEW T, \A x \in T : \E k \in 1 .. n : f[k] = x
  PROVE  Cardinality(T) \in Nat /\ Cardinality(T) <= n /\ IsFiniteSet(T)
  <1> DEFINE R == {f[k] : k \in 1 .. n}
             g == [k \in 1 .. n |-> f[k]]
  <1>1. IsFiniteSet(1 .. n) /\ Cardinality(1 .. n) = n
    BY FS_Interval
  <1>2. g \in Surjection(1 .. n, R)
    BY DEF Surjection
  <1> HIDE DEF g
  <1>3. IsFiniteSet(R) /\ Cardinality(R) <= n
    BY <1>1, <1>2, FS_Surjection
  <1>4. T \in SUBSET R
    OBVIOUS
  <1>5. IsFiniteSet(T) /\ Cardinality(T) <= Cardinality(R)
    BY <1>3, <1>4, FS_Subset
  <1>6. Cardinality(T) \in Nat /\ Cardinality(R) \in Nat
    BY <1>3, <1>5, FS_CardinalityType
  <1> QED BY <1>3, <1>5, <1>6

LEMMA SizeOfUnion ==
  ASSUME NEW A, NEW B, IsFiniteSet(A), IsFiniteSet(B)
  PROVE  Cardinality(A \cup B) \in Nat /\ Cardinality(A \cup B) <= Cardinality(A) + Cardinality(B)
  <1>1. A \cap B \in SUBSET A
    OBVIOUS
  <1>2. Cardinality(A) \in Nat /\ Cardinality(B) \in Nat /\ Cardinality(A \cap B) \in Nat
    BY <1>1, FS_Subset, FS_CardinalityType
  <1>3. /\ IsFiniteSet(A \cup B)
        /\ Cardinality(A \cup B) = Cardinality(A) + Cardinality(B) - Cardinality(A \cap B)
    BY FS_Union
  <1>4. Cardinality(A \cup B) \in Nat
    BY <1>3, FS_CardinalityType
  <1> QED BY <1>2, <1>3, <1>4

(* A step loses at most what is in the channel and the batch if the process *)
(* ends, what is in the batch if an insert fails, and nothing otherwise.    *)
LEMMA LossStep ==
  ASSUME QueueOK, [Next]_vars
  PROVE  Cardinality(Lost' \ Lost) <= IF Exit \/ Kill THEN ChannelCapacity + BatchMax
                                      ELSE IF InsertFails THEN BatchMax ELSE 0
  <1> DEFINE New == Lost' \ Lost
  <1>t. /\ Len(chan) \in Nat /\ Len(chan) <= ChannelCapacity
        /\ Len(batch) \in Nat /\ Len(batch) <= BatchMax
        /\ ChannelCapacity \in Nat /\ BatchMax \in Nat
    BY ChannelAssumption, WriterAssumption DEF QueueOK
  <1>n. ASSUME NEW j \in New
        PROVE  /\ j \in sent' /\ Storable(EntryOf(j)) /\ ~(InFlight(j)' \/ EntryOf(j) \in certs')
               /\ j \in sent => InFlight(j) \/ EntryOf(j) \in certs
    BY DEF Lost, Storable, EntryOf, EntryAt
  <1> HIDE DEF New
  <1>1. CASE Exit \/ Kill
    <2>1. sent' = sent /\ certs' = certs
      BY <1>1 DEF Exit, Kill, WriterCrash
    <2> DEFINE Queued == {j \in New : \E k \in 1 .. Len(chan) : chan[k] = j}
               Taken == {j \in New : \E k \in 1 .. Len(batch) : batch[k] = j}
    <2>2. New = Queued \cup Taken
      BY <1>n, <2>1 DEF InFlight, InChannel, InBatch
    <2>3. Cardinality(Queued) \in Nat /\ Cardinality(Queued) <= Len(chan) /\ IsFiniteSet(Queued)
      BY <1>t, AtMost
    <2>4. Cardinality(Taken) \in Nat /\ Cardinality(Taken) <= Len(batch) /\ IsFiniteSet(Taken)
      BY <1>t, AtMost
    <2> HIDE DEF Queued, Taken
    <2>5. Cardinality(New) \in Nat /\ Cardinality(New) <= Cardinality(Queued) + Cardinality(Taken)
      BY <2>2, <2>3, <2>4, SizeOfUnion
    <2> QED BY <1>1, <1>t, <2>3, <2>4, <2>5 DEF New
  <1>2. CASE InsertFails /\ ~(Exit \/ Kill)
    <2>1. sent' = sent /\ certs \subseteq certs' /\ chan' = chan
      <3>1. phase' # phase /\ chan' = chan /\ certs \subseteq certs'
        BY <1>2 DEF InsertFails
      <3>2. Write
        BY <1>2, <3>1
        DEF Next, vars, runVars, writerVars, Grow, Begin, Send, Task
      <3> QED BY <3>1, <3>2 DEF Write
    <2>2. \A j \in New : \E k \in 1 .. Len(batch) : batch[k] = j
      BY <1>n, <2>1 DEF InFlight, InChannel, InBatch
    <2>3. Cardinality(New) \in Nat /\ Cardinality(New) <= Len(batch)
      BY <1>t, <2>2, AtMost
    <2> QED BY <1>2, <1>t, <2>3 DEF New
  <1>3. CASE ~(Exit \/ Kill) /\ ~InsertFails
    <2>1. New = {}
      BY <1>n, <1>3, JobKept
    <2>2. Cardinality(New) = 0
      BY <2>1, FS_EmptySet
    <2> QED BY <1>3, <2>2 DEF New
  <1> QED BY <1>1, <1>2, <1>3 DEF New

(* What a run of the command can leave out of the table although its jobs   *)
(* are past it: a channel and a batch each time it exits or dies, a batch   *)
(* each time an insert fails (cmd/backfill.rs, run; writer.rs).             *)
THEOREM RunCost == Spec => LossBounded
  <1>1. RunInv /\ [Next]_vars =>
            [Cardinality(Lost' \ Lost) <= IF Exit \/ Kill THEN ChannelCapacity + BatchMax
                                          ELSE IF InsertFails THEN BatchMax ELSE 0]_vars
    BY LossStep DEF RunInv
  <1> QED BY <1>1, RunAlways, PTL DEF Spec, LossBounded
=============================================================================
