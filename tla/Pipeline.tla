------------------------------ MODULE Pipeline ------------------------------
(***************************************************************************)
(* `ctwatch serve` from a log to the tables: the ingest workers, the       *)
(* channel and the writer, in one process over one database                *)
(* (src/cmd/serve.rs wires them). A crash loses the process's memory, the  *)
(* channel and the batch included, and keeps the tables.                   *)
(***************************************************************************)
EXTENDS IngestWorker, Writer

vars == <<queueVars, workerVars, writerVars>>

Init == QueueInit /\ WorkerInit /\ WriterInit

Crash ==
    /\ Fault("crash")
    /\ chan' = <<>>
    /\ WorkerCrash
    /\ WriterCrash

Next ==
    \/ IngestStep /\ UNCHANGED writerVars
    \/ WriterStep /\ UNCHANGED workerVars
    \/ Crash

Spec == Init /\ [][Next]_vars

-----------------------------------------------------------------------------
(* Fairness. Every task of the tokio runtime is scheduled again and again,  *)
(* so each step of a worker or of the writer that stays possible is taken.  *)
(* A poll is repeated for ever, so a log that is polled again and again is  *)
(* assumed to answer with its current tree head, and with at least one      *)
(* entry, again and again (strong fairness: in between it may be stale or   *)
(* answer with nothing). tokio's mpsc senders queue first in, first out, so *)
(* a worker waiting on a full channel gets a slot (strong fairness of       *)
(* SendEntry). Nothing is assumed of the logs' publishing, of failures or   *)
(* of the watch list reload.                                                *)
FreshSth(w) == GetSth(w, tree[LogOf[w]]) /\ UNCHANGED writerVars

SomeEntries(w) == \E n \in 1 .. BatchSize : GetEntries(w, n) /\ UNCHANGED writerVars

WorkerFairness(w) ==
    /\ WF_vars(EnsureCursor(w) /\ UNCHANGED writerVars)
    /\ WF_vars(ReadCursor(w) /\ UNCHANGED writerVars)
    /\ SF_vars(FreshSth(w))
    /\ WF_vars(SkipToHead(w) /\ UNCHANGED writerVars)
    /\ SF_vars(SomeEntries(w))
    /\ SF_vars(SendEntry(w) /\ UNCHANGED writerVars)
    /\ WF_vars(DecodeFails(w) /\ UNCHANGED writerVars)
    /\ WF_vars(AdvanceCursor(w) /\ UNCHANGED writerVars)

LiveSpec == Spec /\ WF_vars(FlushStep /\ UNCHANGED workerVars)
                 /\ \A w \in Workers : WorkerFairness(w)

-----------------------------------------------------------------------------
(* Types. *)
TypeOK == QueueTypeOK /\ WorkerTypeOK /\ WriterTypeOK

(* Where a job handed over and not yet written can be: in the channel or in *)
(* the batch, until the batch is inserted.                                  *)
InFlight(j) == InChannel(j) \/ (phase \in {"drain", "insert"} /\ InBatch(j))

(* Nothing is skipped: every entry between the index a log is followed from *)
(* and its cursor was handed to the writer. The cursor is moved by workers  *)
(* that may be retrying a tick that failed half way, that read the cursor   *)
(* before another worker of the same log moved it, or that were cut short   *)
(* by a crash (worker.rs, tick).                                            *)
NoGap ==
    \A l \in Logs : \A i \in 0 .. cursor[l] - 1 :
        i >= base[l] => JobOf(l, i) \in handed

(* Nothing is lost inside the process: without a crash or a failed insert,  *)
(* every storable entry handed over is in the channel, in the batch or in   *)
(* the table (writer.rs, spawn and flush_batch).                            *)
InFlightOrStored ==
    faults \cap {"crash", "insert"} = {} =>
        \A j \in handed : Storable(EntryOf(j)) => InFlight(j) \/ EntryOf(j) \in certs

(* What a failure can cost. Entries that were handed over and will not be   *)
(* stored by this process: a crash takes at most what the channel and one   *)
(* batch hold, a failed insert one batch, and no other step takes any,      *)
(* however the failures pile up (writer.rs, spawn and flush_batch).         *)
Lost == {j \in handed : Storable(EntryOf(j)) /\ ~InFlight(j) /\ EntryOf(j) \notin certs}

LossBounded ==
    [][Cardinality(Lost' \ Lost) <= IF Crash THEN ChannelCapacity + BatchMax
                                    ELSE IF InsertFails THEN BatchMax ELSE 0]_vars

(* Nothing reaches a subscriber before it is in the table: what was alerted *)
(* on or broadcast was committed, and was handed over by a worker           *)
(* (flush_batch inserts before it alerts and broadcasts).                   *)
PublishedAfterCommit ==
    /\ certs \subseteq {EntryOf(j) : j \in handed}
    /\ streamed \subseteq certs
    /\ \A c \in Certs : outbox[c] > 0 => c \in certs

(* A certificate every watch list matches. *)
AlwaysWatched(c) == \A W \in WatchLists \cup StartLists : DomainsOf[c] \cap W # {}

(* No match is missed: unless the process crashed or a statement failed, a  *)
(* stored certificate that every watch list matches has an alert, or its    *)
(* row is still to be matched by the flush that inserted it.                *)
EveryMatchAlerted ==
    faults \cap {"crash", "insert", "enqueue"} = {} =>
        \A c \in certs : AlwaysWatched(c) =>
            outbox[c] > 0 \/ \E i \in matching : CertAt(i) = c

(* What a failure can cost the watchers. Certificates that every watch list *)
(* matches, stored, without an alert and ahead of no loop that would queue  *)
(* one: a crash, or a failed insert that was committed, makes at most a     *)
(* batch of them, a failed enqueue one, and no other step any (writer.rs,   *)
(* flush_batch: the alerts are not in the transaction of the rows).         *)
Missed == {c \in certs : /\ AlwaysWatched(c) /\ outbox[c] = 0
                         /\ ~\E i \in matching : CertAt(i) = c}

EnqueueFails == \E i \in matching : MatchRow(i) /\ Hit(CertAt(i)) /\ UNCHANGED outbox

MissBounded ==
    [][Cardinality(Missed' \ Missed) <= IF Crash \/ InsertFails THEN BatchMax
                                        ELSE IF EnqueueFails THEN 1 ELSE 0]_vars

(* names_observed agrees with certs: a name's first_seen and last_seen are  *)
(* dates of stored certificates that carry it, and unless the process       *)
(* crashed or a statement failed, every name of a stored certificate has a  *)
(* row or is still to be upserted by the flush that inserted it.            *)
NamesAgree ==
    /\ \A n \in Names : seen[n] # Unseen =>
           \E c, d \in certs : /\ n \in NamesOf[c] /\ n \in NamesOf[d]
                               /\ seen[n].first = NotBefore[c]
                               /\ seen[n].last = NotBefore[d]
    /\ faults \cap {"crash", "insert", "names"} = {} =>
           \A c \in certs : \A n \in NamesOf[c] :
               seen[n] # Unseen \/ \E p \in naming : CertAt(p[1]) = c /\ p[2] = n

(* A step never takes a cursor back: a slow worker's advance cannot undo    *)
(* that of another worker of the same log, and a restart's upsert keeps     *)
(* the position (cursors::advance and cursors::upsert).                     *)
CursorNeverRegresses == [][\A l \in Logs : cursor'[l] >= cursor[l]]_vars

(* A log is skipped to its head once: a cursor of 0 means both "never       *)
(* polled" and "polled while the log was empty", and tick skips in either   *)
(* case; but once a log is followed from an index above 0, what is          *)
(* published after it is never skipped again, restarts and retries          *)
(* included, as long as no second worker follows the log (worker.rs, tick). *)
Alone(l) == \A v, w \in Workers : LogOf[v] = l /\ LogOf[w] = l => v = w

SkippedOnce == [][\A l \in Logs : Alone(l) /\ base[l] > 0 => base'[l] = base[l]]_vars

(* Tasks, channel, batches, failures and restarts implement the mirror: a   *)
(* step of theirs is one step of it, or none (worker.rs, writer.rs).        *)
M == INSTANCE Mirror WITH
    Content <- Entries,
    Keepable <- {c \in Certs : Storable(c)},
    published <- tree,
    position <- cursor,
    from <- [l \in Logs |-> IF base[l] = NotFollowed THEN 0 ELSE base[l]],
    taken <- handed,
    stored <- certs,
    alerted <- {c \in Certs : outbox[c] > 0}

MirrorSpec == M!Spec

(* Its writer is one of those that AtomicInsert is about, and SharedTables  *)
(* shows what the database does to keep that promise to several of them:    *)
(* the insert phase is a call of certs::insert_batch, the flush phase has   *)
(* its answer.                                                              *)
Atomic == INSTANCE AtomicInsert WITH
    Writers <- {"serve"},
    asked <- [w \in {"serve"} |-> IF phase = "insert" THEN RowCerts ELSE {}],
    returned <- [w \in {"serve"} |-> IF phase = "flush" THEN Cardinality(fresh) ELSE 0]

OneCallAtATime == Atomic!Spec

-----------------------------------------------------------------------------
(* Every entry a log publishes at or above the index it is followed from,   *)
(* and below its first undecodable entry, gets stored if it is storable,    *)
(* although the worker and the writer wait for one another and statements   *)
(* fail; only a crash, a failed insert or a failed registration of the log  *)
(* prevents it (worker.rs, run; writer.rs, spawn).                          *)
(* (A log that was empty when it was first polled is followed from 0 until  *)
(* a later poll skips to its head, hence 0 < base.)                         *)
Reachable(l, i) ==
    \A k \in 0 .. i : k >= base[l] => EntryAt(l, k) # Undecodable

EventuallyStored ==
    \A l \in Logs : \A i \in 0 .. Len(Entries[l]) - 1 :
        (/\ 0 < base[l] /\ base[l] <= i /\ i < tree[l]
         /\ Storable(EntryAt(l, i)) /\ Reachable(l, i))
            ~> \/ EntryAt(l, i) \in certs
               \/ faults \cap {"crash", "insert"} # {}
               \/ \E w \in Workers : LogOf[w] = l /\ wpc[w] = "dead"

-----------------------------------------------------------------------------
(* What a document of the repository says and the code does not do: refuted *)
(* by a run of its own.                                                     *)

(* ARCHITECTURE.md 6.2 step 7: the cursor is updated after a successful     *)
(* write. The code moves it when the channel has accepted the entries.      *)
CursorAfterWrite ==
    \A l \in Logs : \A i \in 0 .. cursor[l] - 1 :
        i >= base[l] /\ Storable(EntryAt(l, i)) => EntryAt(l, i) \in certs
=============================================================================
