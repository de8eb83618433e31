----------------------------- MODULE BackfillRun -----------------------------
(***************************************************************************)
(* The process of `ctwatch backfill` (src/cmd/backfill.rs): the backfill   *)
(* tasks of one invocation, a writer of its own with an empty watch list,  *)
(* and the channel between them. When every task has returned the process  *)
(* exits, whatever the writer has left to do; the operator may run the     *)
(* command again.                                                          *)
(***************************************************************************)
EXTENDS BackfillTasks, Writer

CONSTANT Run   \* the invocation

ASSUME RunAssumption == Invocations = {Run}

VARIABLES
    alive,   \* the process exists
    sent     \* history: the jobs this process handed to its writer

runVars == <<taskVars, chan, writerVars>>
vars == <<runVars, alive, sent, faults>>

AllDone == \A t \in Tasks : tpc[t] = "done"

-----------------------------------------------------------------------------
Init ==
    /\ TasksInit
    /\ QueueInit
    /\ WriterInit
    /\ alive = FALSE
    /\ sent = {}

(* The command starts: a new channel, writer and matcher, then the tasks. *)
Begin ==
    /\ ~alive
    /\ Start(Run)
    /\ alive' = TRUE
    /\ sent' = {}
    /\ UNCHANGED <<chan, writerVars>>

(* writer.tx.send: the task waits for room in the channel. *)
Send(t) ==
    /\ HasRoom
    /\ SendEntry(t)
    /\ chan' = Append(chan, JobOf(TaskLog[t], my[t].pos))
    /\ sent' = sent \cup {JobOf(TaskLog[t], my[t].pos)}
    /\ UNCHANGED <<writerVars, alive>>

Task(t) == QuietStep(t) /\ UNCHANGED <<chan, writerVars, alive, sent>>

Write == alive /\ FlushStep /\ UNCHANGED <<taskVars, alive, sent>>

(* run returns: the runtime is shut down with the writer where it is. *)
Exit ==
    /\ alive /\ AllDone
    /\ alive' = FALSE
    /\ chan' = <<>>
    /\ WriterCrash
    /\ UNCHANGED <<taskVars, sent, faults>>

(* The process dies. *)
Kill ==
    /\ alive
    /\ Die(Run)
    /\ alive' = FALSE
    /\ chan' = <<>>
    /\ WriterCrash
    /\ UNCHANGED sent

(* The log goes on growing (external). *)
Grow(l) == Publish(l) /\ UNCHANGED <<chan, writerVars, alive, sent>>

Next ==
    \/ \E l \in Logs : Grow(l)
    \/ Begin
    \/ \E t \in Tasks : Send(t) \/ Task(t)
    \/ Write
    \/ Exit
    \/ Kill

Spec == Init /\ [][Next]_vars

(* The tasks and the writer are scheduled again and again, and permits and  *)
(* slots of the channel are handed out in the order they are asked for. A   *)
(* walk retries its request until the log answers it.                       *)
Fairness ==
    /\ WF_vars(Write)
    /\ \A t \in Tasks :
          /\ SF_vars(Acquire(t) /\ Task(t))
          /\ WF_vars(Task(t))
          /\ SF_vars(Send(t))

LiveSpec == Spec /\ Fairness

-----------------------------------------------------------------------------
InFlight(j) == InChannel(j) \/ (phase \in {"drain", "insert"} /\ InBatch(j))

(* Nothing is lost before the process ends: every storable entry it handed  *)
(* over is in the channel, in the batch or in the table (cmd/backfill.rs    *)
(* and writer.rs).                                                          *)
SentOrStored ==
    alive /\ "insert" \notin faults =>
        \A j \in sent : Storable(EntryOf(j)) => InFlight(j) \/ EntryOf(j) \in certs

(* What this process handed over and will never store. *)
Lost == {j \in sent : Storable(EntryOf(j)) /\ ~InFlight(j) /\ EntryOf(j) \notin certs}

(* An upper bound on what can be missing from the table although a job's    *)
(* progress is past it: when the process exits or dies, a full channel and  *)
(* a batch; when an insert fails, a batch; no other step of any task or of  *)
(* the writer, nor a new start of the command, loses anything               *)
(* (cmd/backfill.rs, run, returns without joining its writer; writer.rs).   *)
LossBounded ==
    [][Cardinality(Lost' \ Lost) <= IF Exit \/ Kill THEN ChannelCapacity + BatchMax
                                    ELSE IF InsertFails THEN BatchMax ELSE 0]_vars

(* The command ends although the log goes on growing and the writer is      *)
(* slower than the walk: every invocation comes to an end.                  *)
EveryRunEnds == alive ~> AllDone
=============================================================================
