---------------------------- MODULE BackfillTasks ----------------------------
(***************************************************************************)
(* `ctwatch backfill --since T` (src/ingest/backfill_worker.rs) and the    *)
(* backfill_jobs table (src/store/backfill_jobs.rs). An invocation runs    *)
(* one task per log, at most Concurrency of them at a time. A task asks    *)
(* the log for its tree size, binary-searches for the first entry of T,    *)
(* finds or inserts its job row, and walks forward batch by batch, handing *)
(* each decoded entry to the writer and recording its progress.            *)
(*                                                                         *)
(* All rows of the model are for one T; several invocations with that T    *)
(* may run at the same time or after one another. The writer's channel is  *)
(* added by BackfillRun.                                                   *)
(***************************************************************************)
EXTENDS CTLogs

CONSTANTS
    Invocations,  \* invocations of the command that may overlap
    Tasks,        \* the tasks run_many spawns
    RunOf,        \* RunOf[t]: the invocation of task t
    TaskLog,      \* TaskLog[t]: the log of task t
    TimeOf,       \* TimeOf[l]: the timestamps of l's entries
    Since,        \* the target timestamp
    Concurrency,  \* --concurrency
    BatchSize,    \* log_entry_batch_size
    MaxJobs       \* bound: no new invocation when there are so many job rows

ASSUME TasksAssumption ==
    /\ RunOf \in [Tasks -> Invocations]
    /\ TaskLog \in [Tasks -> Logs]
    /\ TimeOf \in [Logs -> Seq(Nat)]
    /\ \A l \in Logs : Len(TimeOf[l]) = Len(Entries[l])
    /\ Since \in Nat /\ Concurrency \in Nat \ {0}
    /\ BatchSize \in Nat \ {0} /\ MaxJobs \in Nat

VARIABLES
    tree,    \* tree[l]: how many entries the log has published
    jobs,    \* jobs[l]: the backfill_jobs rows of log l, in order of id
    tpc,     \* where each task is in run_for_log
    my,      \* my[t]: the task's local variables
    handed   \* history: every job handed to the writer

taskVars == <<tree, jobs, tpc, my, handed>>
tasksVars == <<taskVars, faults>>

TaskPC == {"done", "queued", "sth", "search", "find", "insert", "reread",
           "walk", "send", "progress", "complete"}

(* lo, hi: the search's bounds, lo then is start_index; last: end_index;    *)
(* job: job_id, as a position in jobs; pos: the walk's `cursor`, then the   *)
(* next entry of the batch to send; upto: the end of the batch.             *)
Blank == [lo |-> 0, hi |-> 0, last |-> 0, job |-> 0, pos |-> 0, upto |-> 0]

-----------------------------------------------------------------------------
TimeAt(l, i) == TimeOf[l][i + 1]

(* The rows find_active may return: the unique index keeps it to one. *)
Running(l) == {k \in 1 .. Len(jobs[l]) : ~jobs[l][k].done}

NewJob(start, end) == [start |-> start, end |-> end, progress |-> start, done |-> FALSE]

(* The three statements that change the table: insert, *)
Inserted(t) ==
    [jobs EXCEPT ![TaskLog[t]] = Append(@, NewJob(my[t].lo, my[t].last))]

(* Mutant: the progress recorded is one entry ahead. *)
ProgressedAhead(t) ==
    [jobs EXCEPT ![TaskLog[t]][my[t].job].progress = my[t].pos + 1]

(* update_progress (by id, whatever the row's progress is by then) *)
Progressed(t) ==
    [jobs EXCEPT ![TaskLog[t]][my[t].job].progress = my[t].pos]

(* Mutant: the finished job's row is deleted. *)
CompletedDeletes(t) ==
    [jobs EXCEPT ![TaskLog[t]] = SubSeq(@, 1, my[t].job - 1)]

(* and complete. *)
Completed(t) ==
    [jobs EXCEPT ![TaskLog[t]][my[t].job].done = TRUE]

(* Mutant: a permit is not given back. *)
ActiveEver(r) == {t \in Tasks : RunOf[t] = r /\ tpc[t] # "queued"}

(* The tasks of invocation r that hold a permit. *)
Active(r) == {t \in Tasks : RunOf[t] = r /\ tpc[t] \notin {"done", "queued"}}

Goto(t, where) == tpc' = [tpc EXCEPT ![t] = where]

(* The task returns; its locals are gone. *)
Return(t) == Goto(t, "done") /\ my' = [my EXCEPT ![t] = Blank]

Mid(t) == my[t].lo + (my[t].hi - my[t].lo) \div 2

(* Mutant: > for >=; entries of the very time asked for are passed over. *)
HalveAfter(t) ==
    my' = IF TimeAt(TaskLog[t], Mid(t)) > Since
          THEN [my EXCEPT ![t].hi = Mid(t)]
          ELSE [my EXCEPT ![t].lo = Mid(t) + 1]

(* One turn of binary_search_index, on the timestamp of the entry at Mid. *)
Halve(t) ==
    my' = IF TimeAt(TaskLog[t], Mid(t)) >= Since
          THEN [my EXCEPT ![t].hi = Mid(t)]
          ELSE [my EXCEPT ![t].lo = Mid(t) + 1]

(* Mutant: the walk ends one batch early. *)
AfterBatchEarly(t, p) == IF p + BatchSize < my[t].last THEN "walk" ELSE "complete"

(* while cursor < end_index *)
AfterBatch(t, p) == IF p < my[t].last THEN "walk" ELSE "complete"

-----------------------------------------------------------------------------
(* The log appends an entry (external). *)
Publish(l) ==
    /\ tree[l] < Len(Entries[l])
    /\ tree' = [tree EXCEPT ![l] = @ + 1]
    /\ UNCHANGED <<jobs, tpc, my, handed, faults>>

(* run_many: the operator invokes the command, which spawns its tasks. *)
Start(r) ==
    /\ \A t \in Tasks : RunOf[t] = r => tpc[t] = "done"
    /\ Cardinality(UNION {{l} \X DOMAIN jobs[l] : l \in Logs}) < MaxJobs
    /\ tpc' = [t \in Tasks |-> IF RunOf[t] = r THEN "queued" ELSE tpc[t]]
    /\ UNCHANGED <<tree, jobs, my, handed, faults>>

(* run_many: a task takes a permit of the semaphore. *)
Acquire(t) ==
    /\ tpc[t] = "queued"
    /\ Cardinality(Active(RunOf[t])) < Concurrency
    /\ Goto(t, "sth")
    /\ UNCHANGED <<tree, jobs, my, handed, faults>>

(* run_for_log: get_sth, possibly of a stale frontend; the search starts    *)
(* with the bounds 0 and tree_size - 1. *)
GetSth(t, s) ==
    /\ tpc[t] = "sth"
    /\ s \in 1 .. tree[TaskLog[t]]
    /\ my' = [my EXCEPT ![t].lo = 0, ![t].hi = s - 1, ![t].last = s - 1]
    /\ Goto(t, "search")
    /\ UNCHANGED <<tree, jobs, handed, faults>>

GetSthEmpty(t) ==
    /\ tpc[t] = "sth"
    /\ Return(t)
    /\ UNCHANGED <<tree, jobs, handed, faults>>

(* binary_search_index: fetch and decode the entry in the middle, *)
Probe(t) ==
    /\ tpc[t] = "search"
    /\ my[t].lo < my[t].hi
    /\ EntryAt(TaskLog[t], Mid(t)) # Undecodable
    /\ Halve(t)
    /\ UNCHANGED <<tree, jobs, tpc, handed, faults>>

(* which fails the task when it does not decode. *)
ProbeUndecodable(t) ==
    /\ tpc[t] = "search"
    /\ my[t].lo < my[t].hi
    /\ EntryAt(TaskLog[t], Mid(t)) = Undecodable
    /\ Return(t)
    /\ UNCHANGED <<tree, jobs, handed, faults>>

(* run_for_log: return when the search ended at end_index, *)
NothingToWalk(t) ==
    /\ tpc[t] = "search"
    /\ my[t].lo >= my[t].hi
    /\ my[t].lo >= my[t].last
    /\ Return(t)
    /\ UNCHANGED <<tree, jobs, handed, faults>>

SearchDone(t) ==
    /\ tpc[t] = "search"
    /\ my[t].lo >= my[t].hi
    /\ my[t].lo < my[t].last
    /\ Goto(t, "find")
    /\ UNCHANGED <<tree, jobs, my, handed, faults>>

(* otherwise look for a running job of this log and T, *)
FindActive(t) ==
    /\ tpc[t] = "find"
    /\ \/ /\ Running(TaskLog[t]) = {}
          /\ Goto(t, "insert")
          /\ UNCHANGED my
       \/ \E k \in Running(TaskLog[t]) :
          /\ my' = [my EXCEPT ![t].job = k]
          /\ Goto(t, "reread")
    /\ UNCHANGED <<tree, jobs, handed, faults>>

(* and insert one if there is none, *)
InsertJob(t) ==
    /\ tpc[t] = "insert"
    /\ Running(TaskLog[t]) = {}
    /\ jobs' = Inserted(t)
    /\ my' = [my EXCEPT ![t].job = Len(jobs[TaskLog[t]]) + 1]
    /\ Goto(t, "reread")
    /\ UNCHANGED <<tree, handed, faults>>

(* which the unique index refuses when another invocation was faster. *)
InsertRefused(t) ==
    /\ tpc[t] = "insert"
    /\ Running(TaskLog[t]) # {}
    /\ Return(t)
    /\ UNCHANGED <<tree, jobs, handed, faults>>

(* run_for_log: the walk starts at the progress of the running job, and at  *)
(* start_index if there is none any more.                                   *)
WalkFrom(t) ==
    IF Running(TaskLog[t]) = {} THEN {my[t].lo}
    ELSE {jobs[TaskLog[t]][k].progress : k \in Running(TaskLog[t])}

ReadProgress(t, p) ==
    /\ tpc[t] = "reread"
    /\ p \in WalkFrom(t)
    /\ my' = [my EXCEPT ![t].pos = p]
    /\ Goto(t, AfterBatch(t, p))
    /\ UNCHANGED <<tree, jobs, handed, faults>>

(* run_for_log: get_entries answers with n entries of the batch. *)
GetEntries(t, n) ==
    /\ tpc[t] = "walk"
    /\ n \in 1 .. BatchSize
    /\ my[t].pos + n <= my[t].last + 1
    /\ my' = [my EXCEPT ![t].upto = my[t].pos + n]
    /\ Goto(t, "send")
    /\ UNCHANGED <<tree, jobs, handed, faults>>

(* An answer without entries moves the walk on by one (count.max(1)). *)
GetNoEntries(t) ==
    /\ tpc[t] = "walk"
    /\ Fault("empty")
    /\ my' = [my EXCEPT ![t].pos = @ + 1]
    /\ Goto(t, "progress")
    /\ UNCHANGED <<tree, jobs, handed>>

(* One entry of the batch is sent to the writer, *)
SendEntry(t) ==
    /\ tpc[t] = "send"
    /\ my[t].pos < my[t].upto
    /\ EntryAt(TaskLog[t], my[t].pos) # Undecodable
    /\ handed' = handed \cup {JobOf(TaskLog[t], my[t].pos)}
    /\ my' = [my EXCEPT ![t].pos = @ + 1]
    /\ UNCHANGED <<tree, jobs, tpc, faults>>

(* or is left out when it does not decode. *)
SkipEntry(t) ==
    /\ tpc[t] = "send"
    /\ my[t].pos < my[t].upto
    /\ EntryAt(TaskLog[t], my[t].pos) = Undecodable
    /\ my' = [my EXCEPT ![t].pos = @ + 1]
    /\ UNCHANGED <<tree, jobs, tpc, handed, faults>>

BatchSent(t) ==
    /\ tpc[t] = "send"
    /\ my[t].pos = my[t].upto
    /\ Goto(t, "progress")
    /\ UNCHANGED <<tree, jobs, my, handed, faults>>

UpdateProgress(t) ==
    /\ tpc[t] = "progress"
    /\ jobs' = Progressed(t)
    /\ Goto(t, AfterBatch(t, my[t].pos))
    /\ UNCHANGED <<tree, my, handed, faults>>

Complete(t) ==
    /\ tpc[t] = "complete"
    /\ jobs' = Completed(t)
    /\ Return(t)
    /\ UNCHANGED <<tree, handed, faults>>

(* get_sth or a probe of the search fails, and with it the task. (In the    *)
(* walk a failed request is only retried.)                                  *)
RequestFails(t) ==
    /\ tpc[t] \in {"sth", "search"}
    /\ May("http")
    /\ Return(t)
    /\ UNCHANGED <<tree, jobs, handed>>

(* A statement fails, and with it the task; it may have been committed all  *)
(* the same. The job keeps running.                                         *)
StatementFails(t) ==
    /\ tpc[t] \in {"find", "insert", "reread", "progress", "complete"}
    /\ May("db")
    /\ \/ UNCHANGED jobs
       \/ tpc[t] = "insert" /\ Running(TaskLog[t]) = {} /\ jobs' = Inserted(t)
       \/ tpc[t] = "progress" /\ jobs' = Progressed(t)
       \/ tpc[t] = "complete" /\ jobs' = Completed(t)
    /\ Return(t)
    /\ UNCHANGED <<tree, handed>>

(* The invocation's process dies. *)
Die(r) ==
    /\ May("crash")
    /\ tpc' = [t \in Tasks |-> IF RunOf[t] = r THEN "done" ELSE tpc[t]]
    /\ my' = [t \in Tasks |-> IF RunOf[t] = r THEN Blank ELSE my[t]]
    /\ UNCHANGED <<tree, jobs, handed>>

-----------------------------------------------------------------------------
TasksInit ==
    /\ tree = [l \in Logs |-> 0]
    /\ jobs = [l \in Logs |-> <<>>]
    /\ tpc = [t \in Tasks |-> "done"]
    /\ my = [t \in Tasks |-> Blank]
    /\ handed = {}

(* The steps of a task other than handing an entry over. *)
QuietStep(t) ==
    \/ Acquire(t)
    \/ \E s \in 1 .. tree[TaskLog[t]] : GetSth(t, s)
    \/ GetSthEmpty(t)
    \/ Probe(t)
    \/ ProbeUndecodable(t)
    \/ NothingToWalk(t)
    \/ SearchDone(t)
    \/ FindActive(t)
    \/ InsertJob(t)
    \/ InsertRefused(t)
    \/ \E p \in WalkFrom(t) : ReadProgress(t, p)
    \/ \E n \in 1 .. BatchSize : GetEntries(t, n)
    \/ GetNoEntries(t)
    \/ SkipEntry(t)
    \/ BatchSent(t)
    \/ UpdateProgress(t)
    \/ Complete(t)
    \/ RequestFails(t)
    \/ StatementFails(t)

TasksNext ==
    \/ \E l \in Logs : Publish(l)
    \/ \E r \in Invocations : Start(r) \/ Die(r)
    \/ \E t \in Tasks : QuietStep(t) \/ SendEntry(t)

TasksStart == TasksInit /\ faults = {}

TasksSpec == TasksStart /\ [][TasksNext]_tasksVars

-----------------------------------------------------------------------------
JobRow == [start : Nat, end : Nat, progress : Nat, done : BOOLEAN]

Locals == [lo : Nat, hi : Nat, last : Nat, job : Nat, pos : Nat, upto : Nat]

(* The pcs at which a task holds the id of a row. *)
HasJob(t) == tpc[t] \in {"reread", "walk", "send", "progress", "complete"}

TasksTypeOK ==
    /\ tree \in [Logs -> Nat]
    /\ \A l \in Logs : tree[l] <= Len(Entries[l])
    /\ jobs \in [Logs -> Seq(JobRow)]
    /\ tpc \in [Tasks -> TaskPC]
    /\ my \in [Tasks -> Locals]
    /\ \A t \in Tasks : HasJob(t) => my[t].job \in 1 .. Len(jobs[TaskLog[t]])
    /\ handed \subseteq Jobs
    /\ faults \subseteq Faults

(* The timestamps of a log do not decrease, which the search relies on. *)
Sorted(l) == \A i, k \in 0 .. Len(TimeOf[l]) - 1 : i <= k => TimeAt(l, i) <= TimeAt(l, k)

(* Entry i of log l is of the window asked for, and can be stored. *)
InWindow(l, i) == TimeAt(l, i) >= Since /\ EntryAt(l, i) # Undecodable

(* Every entry of the window below index n was handed to the writer. *)
HandedBelow(l, n) == \A i \in 0 .. n - 1 : InWindow(l, i) => JobOf(l, i) \in handed

(* The search is right: on a log in order of time no entry below the start  *)
(* of a walk belongs to the window, whatever tree size the log answered     *)
(* with (binary_search_index).                                              *)
StartsAtSince ==
    \A l \in Logs : Sorted(l) =>
        \A k \in 1 .. Len(jobs[l]) : \A i \in 0 .. jobs[l][k].start - 1 :
            TimeAt(l, i) < Since

(* Resuming skips nothing: every entry of the window below a job's recorded *)
(* progress was handed over, by whichever invocation walked there; they may *)
(* overlap, die, and write each other's rows (run_for_log).                 *)
ProgressCovered ==
    "empty" \notin faults => \A l \in Logs : Sorted(l) =>
        \A k \in 1 .. Len(jobs[l]) : HandedBelow(l, jobs[l][k].progress)

(* The entries of the window up to index n that nobody handed over. *)
Missing(l, n) == {i \in 0 .. n : InWindow(l, i) /\ JobOf(l, i) \notin handed}

(* How much older the tree head is that t was told than the one t's job was *)
(* made with.                                                               *)
Behind(t) ==
    LET end == jobs[TaskLog[t]][my[t].job].end IN
    IF end > my[t].last THEN end - my[t].last ELSE 0

(* What completing a job may cost. A row is completed for good with all of  *)
(* its window handed over, up to and including its end_index, but for one   *)
(* entry (the loop stops before end_index, so the last entry is only taken  *)
(* when a batch happens to include it) and those beyond the tree head of    *)
(* the invocation that completes it, if another had made the row with a     *)
(* newer one (run_for_log: "walk forward to the current STH").              *)
CompletionCost ==
    "empty" \notin faults => \A t \in Tasks :
        tpc[t] = "complete" /\ Sorted(TaskLog[t]) =>
            Cardinality(Missing(TaskLog[t], jobs[TaskLog[t]][my[t].job].end))
                <= 1 + Behind(t)
=============================================================================
