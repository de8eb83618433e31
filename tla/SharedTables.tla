---------------------------- MODULE SharedTables ----------------------------
(***************************************************************************)
(* One database under several processes: the writer of `serve` and those   *)
(* of `ctwatch backfill` flush into the same certs and names_observed, and *)
(* the pruner of `serve` (cmd/serve.rs) deletes old names beside them.     *)
(*                                                                         *)
(* A flush (writer.rs, flush_batch) drops what is older than the hot       *)
(* retention, inserts the rest (CertInsert), upserts its names, raises its *)
(* alerts and is over. Time is counted in days. How a batch comes about,   *)
(* and the watch list changing meanwhile, are in Writer; here the watch    *)
(* list of `serve` matches every certificate, that of a backfill none.     *)
(***************************************************************************)
EXTENDS CertInsert

CONSTANTS
    Batches,    \* Batches[w]: the rows w may make of a batch, in order
    Watching,   \* the processes with a watch list
    Names,      \* DNS names
    NamesOf,    \* NamesOf[c]: the SANs of certificate c
    NotBefore,  \* NotBefore[c]: its not_before, in days
    HotDays,    \* retention_days_hot
    ColdDays,   \* retention_days_cold
    MaxDay      \* bound: the last day

ASSUME TablesAssumption ==
    /\ Batches \in [Writers -> SUBSET Seq(Certs)]
    /\ Watching \subseteq Writers
    /\ NamesOf \in [Certs -> SUBSET Names]
    /\ NotBefore \in [Certs -> Nat]
    /\ HotDays \in Nat /\ ColdDays \in Nat /\ MaxDay \in Nat

VARIABLES
    today,     \* the day
    began,     \* began[w]: the day w's flush took as `now`
    seen,      \* seen[n]: last_seen of n's row in names_observed, or NoRow
    naming,    \* naming[w]: <<row, name>> pairs w has still to upsert
    alerted,   \* history: the certificates alerts were raised for
    observed   \* history: observed[n]: `now` of the flush that last upserted n

nameVars == <<today, began, seen, naming, alerted, observed>>
vars == <<insertVars, nameVars>>

NoRow == -1

-----------------------------------------------------------------------------
(* flush_batch makes no row of a certificate past the hot retention. *)
Hot(c) == NotBefore[c] >= today - HotDays

(* Mutant: the other retention's days. *)
PrunableHot == {n \in Names : seen[n] # NoRow /\ seen[n] < today - HotDays}

(* names_observed rows the pruner's DELETE finds. *)
Prunable == {n \in Names : seen[n] # NoRow /\ seen[n] < today - ColdDays}

-----------------------------------------------------------------------------
(* A batch was drained, the cutoff computed, and rows made of what passes. *)
Begin(w, b) ==
    /\ \A i \in 1 .. Len(b) : Hot(b[i])
    /\ BeginInsert(w, b)
    /\ began' = [began EXCEPT ![w] = today]
    /\ UNCHANGED <<today, seen, naming, alerted, observed>>

(* A step of its transaction. The names to upsert are those of its rows. *)
Transact(w) ==
    /\ InsertStep(w)
    /\ naming' = [naming EXCEPT ![w] =
           IF stage'[w] # "flush" THEN {}
           ELSE {p \in (1 .. Len(rows[w])) \X Names : p[2] \in NamesOf[rows[w][p[1]]]}]
    /\ UNCHANGED <<today, began, seen, alerted, observed>>

(* names::upsert, in the order of the rows; an error is only logged. *)
UpsertName(w, i, n) ==
    /\ stage[w] = "flush"
    /\ <<i, n>> \in naming[w]
    /\ \A p \in naming[w] : i <= p[1]
    /\ naming' = [naming EXCEPT ![w] = @ \ {<<i, n>>}]
    /\ \/ /\ seen' = [seen EXCEPT ![n] = NotBefore[rows[w][i]]]
          /\ observed' = [observed EXCEPT ![n] = began[w]]
          /\ UNCHANGED faults
       \/ Fault("names") /\ UNCHANGED <<seen, observed>>
    /\ UNCHANGED <<certs, owner, stage, rows, done, inserted, counted, by,
                   today, began, alerted>>

(* Mutant: only a batch that was new as a whole is matched. *)
EndFlushAllNew(w) ==
    /\ stage[w] = "flush" /\ naming[w] = {}
    /\ alerted' = IF w \in Watching /\ inserted[w] = Len(rows[w])
                  THEN alerted \cup RowSet(w) ELSE alerted
    /\ Leave(w)
    /\ UNCHANGED <<certs, owner, counted, by, faults,
                   today, began, seen, naming, observed>>

(* The rows are matched and alerts queued, unless nothing was inserted. *)
EndFlush(w) ==
    /\ stage[w] = "flush" /\ naming[w] = {}
    /\ alerted' = IF w \in Watching /\ inserted[w] > 0
                  THEN alerted \cup RowSet(w) ELSE alerted
    /\ Leave(w)
    /\ UNCHANGED <<certs, owner, counted, by, faults,
                   today, began, seen, naming, observed>>

(* Process w dies and starts again. *)
Crash(w) ==
    /\ InsertCrash(w)
    /\ naming' = [naming EXCEPT ![w] = {}]
    /\ UNCHANGED <<today, began, seen, alerted, observed>>

(* spawn_names_pruner: names::prune_older_than. *)
Prune ==
    /\ Prunable # {}
    /\ seen' = [n \in Names |-> IF n \in Prunable THEN NoRow ELSE seen[n]]
    /\ UNCHANGED <<insertVars, today, began, naming, alerted, observed>>

NextDay ==
    /\ today < MaxDay
    /\ today' = today + 1
    /\ UNCHANGED <<insertVars, began, seen, naming, alerted, observed>>

-----------------------------------------------------------------------------
Init ==
    /\ InsertInit
    /\ today = 0
    /\ began = [w \in Writers |-> 0]
    /\ seen = [n \in Names |-> NoRow]
    /\ naming = [w \in Writers |-> {}]
    /\ alerted = {}
    /\ observed = [n \in Names |-> 0]

FlushStep(w) ==
    \/ Transact(w)
    \/ \E p \in naming[w] : UpsertName(w, p[1], p[2])
    \/ EndFlush(w)

Next ==
    \/ \E w \in Writers :
          \/ \E b \in Batches[w] : Begin(w, b)
          \/ FlushStep(w)
          \/ Crash(w)
    \/ Prune
    \/ NextDay

Spec == Init /\ [][Next]_vars

(* The database executes the statements it is given and looks for           *)
(* deadlocks; an INSERT that waits goes on when the other transaction ends. *)
(* The waiters of a row are served in turn, so one that can go on again and *)
(* again does. No statement need ever fail.                                 *)
Fairness ==
    \A w \in Writers :
        /\ SF_vars(Proceed(w) /\ Transact(w))
        /\ WF_vars(\E p \in naming[w] : UpsertName(w, p[1], p[2]))
        /\ WF_vars(EndFlush(w))

LiveSpec == Spec /\ Fairness

-----------------------------------------------------------------------------
TypeOK ==
    /\ InsertTypeOK
    /\ today \in Nat
    /\ began \in [Writers -> Nat]
    /\ seen \in [Names -> Nat \cup {NoRow}]
    /\ naming \in [Writers -> SUBSET (Nat \X Names)]
    /\ alerted \subseteq certs
    /\ observed \in [Names -> Nat]

(* The promise of insert_batch, with the number shown once it returned. *)
Atomic == INSTANCE AtomicInsert WITH
    asked <- [w \in Writers |-> IF stage[w] = "insert" THEN RowSet(w) ELSE {}],
    returned <- [w \in Writers |-> IF stage[w] = "flush" THEN inserted[w] ELSE 0]

(* Row by row, with waits, rollbacks and deadlocks, the transactions of all *)
(* processes insert their batches one after the other (certs.rs,            *)
(* insert_batch).                                                           *)
InsertsAtomically == Atomic!Spec

CommittedBy(w) == {c \in certs : by[c] = w}

(* Each stored certificate is counted as new by exactly one process, the    *)
(* one whose transaction committed it, although several insert it at the    *)
(* same time; a process that dies or misses an answer counts too little,    *)
(* never too much (certs.rs, insert_batch; writer.rs, incr_certs).          *)
CountedOnce ==
    \A w \in Writers :
        /\ counted[w] <= Cardinality(CommittedBy(w))
        /\ "lost" \notin faults => counted[w] = Cardinality(CommittedBy(w))

(* A certificate that a process with a watch list was first to insert is    *)
(* alerted on, or will be at the end of that flush, unless it failed after  *)
(* the commit. One that a backfill was first to insert may never be         *)
(* (writer.rs, flush_batch: inserted == 0).                                 *)
FirstInserterAlerts ==
    faults \cap {"lost"} = {} =>
        \A c \in certs : by[c] \in Watching =>
            c \in alerted \/ (stage[by[c]] = "flush" /\ c \in RowSet(by[c]))

(* last_seen may go back, to the date of an older certificate. Still no     *)
(* name is deleted until more than ColdDays - HotDays after the flush that  *)
(* last observed it (names.rs, prune_older_than; the two retentions are     *)
(* configured apart).                                                       *)
PrunedLate ==
    [][\A n \in Names : seen[n] # NoRow /\ seen'[n] = NoRow =>
           today > observed[n] + ColdDays - HotDays]_vars

(* Nobody waits for ever on the others: while some transaction is open, one *)
(* can go on, or is in a cycle that the database's deadlock detector finds; *)
(* so no row stays locked by a process that has left its transaction, and   *)
(* waits never form anything but a cycle (certs.rs, insert_batch; writer.rs *)
(* drops the batch of the transaction that is ended).                       *)
NobodyStuck ==
    (\E w \in Writers : stage[w] = "insert") =>
        \E w \in Writers : stage[w] = "insert" /\ (~Waits(w) \/ Deadlocked(w))

(* Every flush ends, although transactions wait for one another's rows and  *)
(* nothing but the deadlock detector frees those that wait in a cycle       *)
(* (certs.rs, insert_batch; writer.rs, flush_batch).                        *)
FlushEnds == \A w \in Writers : stage[w] # "idle" ~> stage[w] = "idle"

-----------------------------------------------------------------------------
(* ARCHITECTURE.md 18, item 9: backfill "runs concurrently with live ingest *)
(* without conflict". Two batches with two certificates in opposite orders  *)
(* deadlock, and one of the two is lost.                                    *)
WithoutConflict == [][\A w \in Writers : ~Victim(w)]_vars
=============================================================================
