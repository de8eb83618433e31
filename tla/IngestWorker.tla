---------------------------- MODULE IngestWorker ----------------------------
(***************************************************************************)
(* The ingest workers (src/ingest/worker.rs) and the ingest_cursors table  *)
(* (src/store/cursors.rs). A worker follows one log: it reads its cursor,  *)
(* asks the log for its signed tree head, fetches one batch of entries,    *)
(* sends each decoded entry to the writer's channel and then advances the  *)
(* cursor. The steps between two awaits are one action; other workers, the *)
(* writer and the log run in between.                                      *)
(*                                                                         *)
(* Several workers may follow one log: the periodic refresh in             *)
(* cmd/serve.rs spawns a second one when it cannot list the cursors.       *)
(* The sleeps (poll_interval, backoff) are abstracted: a worker may start  *)
(* its next tick at any time.                                              *)
(***************************************************************************)
EXTENDS JobQueue

CONSTANTS
    Workers,    \* the worker tasks
    LogOf,      \* LogOf[w]: the log worker w was spawned for
    BatchSize   \* WorkerCfg.batch_size

ASSUME WorkersAssumption ==
    /\ LogOf \in [Workers -> Logs]
    /\ BatchSize \in Nat \ {0}

VARIABLES
    tree,     \* tree[l]: how many entries the log has published
    cursor,   \* ingest_cursors.last_tree_size; NoRow when the log has no row
    wpc,      \* where each worker is in spawn/run/tick
    pos,      \* the tick's `cursor`, then the index of its next entry to send
    target,   \* the tick's sth.tree_size, then its last_index
    base,     \* history: the index this mirror follows the log from
    handed    \* history: every job ever sent to the writer

workerVars == <<tree, cursor, wpc, pos, target, base, handed>>

NoRow == -1
NotFollowed == -1

WorkerPC == {"start", "poll", "sth", "skip", "fetch", "send", "dead"}

-----------------------------------------------------------------------------
(* Mutants: the UPDATE without its guard; last_index one too far. *)
AdvanceUnguarded(old, new) == new
AdvancePastLast(old, new) == IF old <= new THEN new + 1 ELSE old

(* cursors::advance: UPDATE ... WHERE last_tree_size < $2 *)
Advance(old, new) == IF old < new THEN new ELSE old

(* cursors::upsert: a missing row starts at 0, an existing one is kept. *)
Upsert(old) == IF old = NoRow THEN 0 ELSE old

(* Mutant: a log that is one entry ahead counts as caught up. *)
AfterSthOffByOne(p, s) == IF p = 0 /\ s > 0 THEN "skip"
                          ELSE IF s <= p + 1 THEN "poll" ELSE "fetch"

(* Mutant: more than one batch behind is skipped, too. *)
AfterSthSkipsBehind(p, s) == IF s > p + BatchSize \/ (p = 0 /\ s > 0) THEN "skip"
                             ELSE IF s <= p THEN "poll" ELSE "fetch"

(* What tick does once it knows its cursor p and the tree size s. *)
AfterSth(p, s) == IF p = 0 /\ s > 0 THEN "skip"
                  ELSE IF s <= p THEN "poll" ELSE "fetch"

(* How many entries tick asks for: start .. end_inclusive. *)
Wanted(p, s) == IF p + BatchSize <= s THEN BatchSize ELSE s - p

Goto(w, where) == wpc' = [wpc EXCEPT ![w] = where]

-----------------------------------------------------------------------------
(* The log appends an entry (external). *)
Publish(l) ==
    /\ tree[l] < Len(Entries[l])
    /\ tree' = [tree EXCEPT ![l] = @ + 1]
    /\ UNCHANGED <<cursor, wpc, pos, target, base, handed, chan, faults>>

(* spawn: make sure that the cursor row exists, *)
EnsureCursor(w) ==
    /\ wpc[w] = "start"
    /\ cursor' = [cursor EXCEPT ![LogOf[w]] = Upsert(@)]
    /\ Goto(w, "poll")
    /\ UNCHANGED <<tree, pos, target, base, handed, chan, faults>>

(* or log the error and return: nothing restarts this worker. The statement *)
(* may have been committed all the same (a lost answer).                    *)
EnsureCursorFails(w) ==
    /\ wpc[w] = "start"
    /\ cursor' \in {cursor, [cursor EXCEPT ![LogOf[w]] = Upsert(@)]}
    /\ May("upsert")
    /\ Goto(w, "dead")
    /\ UNCHANGED <<tree, pos, target, base, handed, chan>>

(* tick: current_cursor *)
ReadCursor(w) ==
    /\ wpc[w] = "poll"
    /\ pos' = [pos EXCEPT ![w] = cursor[LogOf[w]]]
    /\ Goto(w, "sth")
    /\ UNCHANGED <<tree, cursor, target, base, handed, chan, faults>>

(* tick: client.get_sth. A log's frontends are not consistent: the tree     *)
(* size s answered may be any the log has had. A worker that finds the log  *)
(* empty follows it from index 0.                                           *)
GetSth(w, s) ==
    LET l == LogOf[w] IN
    /\ wpc[w] = "sth"
    /\ s \in 0 .. tree[l]
    /\ target' = [target EXCEPT ![w] = s]
    /\ Goto(w, AfterSth(pos[w], s))
    /\ base' = [base EXCEPT ![l] = IF @ = NotFollowed /\ pos[w] = 0 /\ s = 0 THEN 0 ELSE @]
    /\ UNCHANGED <<tree, cursor, pos, handed, chan, faults>>

(* tick: a cursor of 0 goes to the head of the tree; entries below it are   *)
(* left to `ctwatch backfill`.                                              *)
SkipToHead(w) ==
    LET l == LogOf[w] IN
    /\ wpc[w] = "skip"
    /\ cursor' = [cursor EXCEPT ![l] = Advance(@, target[w])]
    /\ base' = [base EXCEPT ![l] = IF cursor[l] < target[w] THEN target[w] ELSE @]
    /\ Goto(w, "poll")
    /\ UNCHANGED <<tree, pos, target, handed, chan, faults>>

(* tick: client.get_entries. A log may answer with fewer entries than asked *)
(* for, none included (which ends the tick).                                *)
GetEntries(w, n) ==
    /\ wpc[w] = "fetch"
    /\ n \in 0 .. Wanted(pos[w], target[w])
    /\ target' = [target EXCEPT ![w] = pos[w] + n]
    /\ Goto(w, IF n = 0 THEN "poll" ELSE "send")
    /\ UNCHANGED <<tree, cursor, pos, base, handed, chan, faults>>

(* tick: decode one entry and send it; send().await blocks on a full channel. *)
SendEntry(w) ==
    LET l == LogOf[w]  j == JobOf(l, pos[w]) IN
    /\ wpc[w] = "send"
    /\ pos[w] < target[w]
    /\ EntryAt(l, pos[w]) # Undecodable
    /\ HasRoom
    /\ chan' = Append(chan, j)
    /\ handed' = handed \cup {j}
    /\ pos' = [pos EXCEPT ![w] = @ + 1]
    /\ UNCHANGED <<tree, cursor, wpc, target, base, faults>>

(* tick: decode_leaf fails; the entries before it have already been sent,   *)
(* and the cursor stays where it was.                                       *)
DecodeFails(w) ==
    /\ wpc[w] = "send"
    /\ pos[w] < target[w]
    /\ EntryAt(LogOf[w], pos[w]) = Undecodable
    /\ Goto(w, "poll")
    /\ UNCHANGED <<tree, cursor, pos, target, base, handed, chan, faults>>

(* tick: every entry of the batch was sent; move the cursor past it. *)
AdvanceCursor(w) ==
    LET l == LogOf[w] IN
    /\ wpc[w] = "send"
    /\ pos[w] = target[w]
    /\ cursor' = [cursor EXCEPT ![l] = Advance(@, target[w])]
    /\ Goto(w, "poll")
    /\ UNCHANGED <<tree, pos, target, base, handed, chan, faults>>

(* run: a database or HTTP error ends the tick. (An update that fails after *)
(* it was committed is SkipToHead or AdvanceCursor.)                        *)
TickFails(w) ==
    /\ \/ wpc[w] \in {"poll", "sth", "skip", "fetch"}
       \/ wpc[w] = "send" /\ pos[w] = target[w]
    /\ May("tick")
    /\ Goto(w, "poll")
    /\ UNCHANGED <<tree, cursor, pos, target, base, handed, chan>>

-----------------------------------------------------------------------------
WorkerInit ==
    /\ tree = [l \in Logs |-> 0]
    /\ cursor = [l \in Logs |-> NoRow]
    /\ wpc = [w \in Workers |-> "start"]
    /\ pos = [w \in Workers |-> 0]
    /\ target = [w \in Workers |-> 0]
    /\ base = [l \in Logs |-> NotFollowed]
    /\ handed = {}

WorkerStep(w) ==
    \/ EnsureCursor(w)
    \/ EnsureCursorFails(w)
    \/ ReadCursor(w)
    \/ \E s \in 0 .. tree[LogOf[w]] : GetSth(w, s)
    \/ SkipToHead(w)
    \/ \E n \in 0 .. BatchSize : GetEntries(w, n)
    \/ SendEntry(w)
    \/ DecodeFails(w)
    \/ AdvanceCursor(w)
    \/ TickFails(w)

IngestStep == \/ \E l \in Logs : Publish(l)
              \/ \E w \in Workers : WorkerStep(w)

(* The process dies: its tasks are gone and start over; the tables remain. *)
WorkerCrash ==
    /\ wpc' = [w \in Workers |-> "start"]
    /\ pos' = [w \in Workers |-> 0]
    /\ target' = [w \in Workers |-> 0]
    /\ UNCHANGED <<tree, cursor, base, handed>>

WorkerTypeOK ==
    /\ tree \in [Logs -> Nat]
    /\ \A l \in Logs : tree[l] <= Len(Entries[l])
    /\ cursor \in [Logs -> Nat \cup {NoRow}]
    /\ wpc \in [Workers -> WorkerPC]
    /\ pos \in [Workers -> Nat]
    /\ target \in [Workers -> Nat]
    /\ base \in [Logs -> Nat \cup {NotFollowed}]
    /\ handed \subseteq Jobs
=============================================================================
