----------------------------- MODULE CertInsert -----------------------------
(***************************************************************************)
(* certs::insert_batch (src/store/certs.rs) as the database runs it, for   *)
(* the writers of several processes (`serve` and any `backfill`) over one  *)
(* certs table. A batch is one transaction of one INSERT per row, with     *)
(* ON CONFLICT DO NOTHING. The unique index decides: a row that another    *)
(* open transaction inserted makes the INSERT wait until that one ends.    *)
(* Two transactions may thus wait for one another; Postgres then ends one  *)
(* of them with an error, and flush_batch drops its batch.                 *)
(***************************************************************************)
EXTENDS Integers, Sequences, FiniteSets

CONSTANTS
    Writers,    \* the writer tasks, one for each process
    Certs,      \* certificates, by (cert_hash, not_before)
    Nobody,     \* no transaction
    Faults      \* the kinds of failure an instance lets happen; "lost": a process,
                \* or the answer to its COMMIT

FaultKinds == {"lost", "insert", "names"}

ASSUME InsertAssumption ==
    /\ Nobody \notin Writers
    /\ IsFiniteSet(Writers) /\ IsFiniteSet(Certs)
    /\ Faults \subseteq FaultKinds

VARIABLES
    certs,     \* table certs, as committed
    owner,     \* owner[c]: whose open transaction inserted row c
    stage,     \* stage[w]: what w is doing
    rows,      \* rows[w]: the CertRows of its batch, in order
    done,      \* done[w]: how many of them were executed
    inserted,  \* inserted[w]: inserted_certs, then `inserted` of flush_batch
    counted,   \* counted[w]: Counters.certs_ingested of that process
    by,        \* history: by[c]: whose transaction committed row c
    faults     \* history: the kinds of failure remembered

insertVars == <<certs, owner, stage, rows, done, inserted, counted, by, faults>>

Stage == {"idle", "insert", "flush"}

-----------------------------------------------------------------------------
RowOf(w) == rows[w][done[w] + 1]

RowSet(w) == {rows[w][i] : i \in 1 .. Len(rows[w])}

Executed(w) == {rows[w][i] : i \in 1 .. done[w]}

Owned(w) == {c \in Certs : owner[c] = w}

MoreRows(w) == stage[w] = "insert" /\ done[w] < Len(rows[w])

(* The INSERT of w waits for the transaction that has its row. *)
Waits(w) == MoreRows(w) /\ owner[RowOf(w)] \notin {Nobody, w}

(* w is in a cycle of transactions that wait for one another. *)
Deadlocked(w) ==
    \E S \in SUBSET Writers :
        /\ w \in S
        /\ \A v \in S : Waits(v)
        /\ {owner[RowOf(v)] : v \in S} = S

(* A failure some property makes an exception of is remembered. *)
Fault(k) == k \in Faults /\ faults' = faults \cup {k}

(* The rows of w's transaction go away with it. *)
Unlock(w) == owner' = [c \in Certs |-> IF owner[c] = w THEN Nobody ELSE owner[c]]

(* flush_batch is over: the batch is dropped, or was dealt with. *)
Leave(w) ==
    /\ stage' = [stage EXCEPT ![w] = "idle"]
    /\ rows' = [rows EXCEPT ![w] = <<>>]
    /\ done' = [done EXCEPT ![w] = 0]
    /\ inserted' = [inserted EXCEPT ![w] = 0]

Goto(w, s) == stage' = [stage EXCEPT ![w] = s]

-----------------------------------------------------------------------------
(* insert_batch is called with the rows b: pool.begin(). *)
BeginInsert(w, b) ==
    /\ stage[w] = "idle"
    /\ Goto(w, "insert")
    /\ rows' = [rows EXCEPT ![w] = b]
    /\ UNCHANGED <<certs, owner, done, inserted, counted, by, faults>>

(* INSERT of a new row, with its cert_names, *)
InsertRow(w) ==
    /\ MoreRows(w)
    /\ RowOf(w) \notin certs /\ owner[RowOf(w)] = Nobody
    /\ owner' = [owner EXCEPT ![RowOf(w)] = w]
    /\ inserted' = [inserted EXCEPT ![w] = @ + 1]
    /\ done' = [done EXCEPT ![w] = @ + 1]
    /\ UNCHANGED <<certs, stage, rows, counted, by, faults>>

(* Mutant: a conflicting row counts as inserted. *)
SkipRowCounted(w) ==
    /\ MoreRows(w)
    /\ RowOf(w) \in certs \/ owner[RowOf(w)] = w
    /\ inserted' = [inserted EXCEPT ![w] = @ + 1]
    /\ done' = [done EXCEPT ![w] = @ + 1]
    /\ UNCHANGED <<certs, owner, stage, rows, counted, by, faults>>

(* or of one that is there already: DO NOTHING. *)
SkipRow(w) ==
    /\ MoreRows(w)
    /\ RowOf(w) \in certs \/ owner[RowOf(w)] = w
    /\ done' = [done EXCEPT ![w] = @ + 1]
    /\ UNCHANGED <<certs, owner, stage, rows, inserted, counted, by, faults>>

Committed(w) ==
    /\ stage[w] = "insert" /\ done[w] = Len(rows[w])
    /\ certs' = certs \cup Owned(w)
    /\ by' = [c \in Certs |-> IF owner[c] = w THEN w ELSE by[c]]
    /\ Unlock(w)

(* tx.commit(), then counters.incr_certs(inserted). *)
Commit(w) ==
    /\ Committed(w)
    /\ Goto(w, "flush")
    /\ counted' = [counted EXCEPT ![w] = @ + inserted[w]]
    /\ UNCHANGED <<rows, done, inserted, faults>>

(* The commit succeeds and its answer is lost: flush_batch returns early. *)
CommitUnanswered(w) ==
    /\ Committed(w)
    /\ rows[w] # <<>>
    /\ Fault("lost")
    /\ Leave(w)
    /\ UNCHANGED counted

(* Mutant: the rows inserted before the failure stay. *)
InsertFailsPartly(w) ==
    /\ stage[w] = "insert" /\ rows[w] # <<>>
    /\ "insert" \in Faults
    /\ certs' = certs \cup Owned(w)
    /\ Unlock(w)
    /\ Leave(w)
    /\ UNCHANGED <<counted, by, faults>>

(* Mutant: the transaction stays open when a statement fails. *)
InsertFailsOpen(w) ==
    /\ stage[w] = "insert" /\ rows[w] # <<>>
    /\ "insert" \in Faults
    /\ Leave(w)
    /\ UNCHANGED <<certs, owner, counted, by, faults>>

(* A statement fails and the transaction is rolled back. *)
InsertFails(w) ==
    /\ stage[w] = "insert" /\ rows[w] # <<>>
    /\ "insert" \in Faults
    /\ Unlock(w)
    /\ Leave(w)
    /\ UNCHANGED <<certs, counted, by, faults>>

(* The database ends w's transaction to resolve a deadlock. *)
Victim(w) ==
    /\ Deadlocked(w)
    /\ Unlock(w)
    /\ Leave(w)
    /\ UNCHANGED <<certs, counted, by, faults>>

-----------------------------------------------------------------------------
InsertInit ==
    /\ certs = {}
    /\ owner = [c \in Certs |-> Nobody]
    /\ stage = [w \in Writers |-> "idle"]
    /\ rows = [w \in Writers |-> <<>>]
    /\ done = [w \in Writers |-> 0]
    /\ inserted = [w \in Writers |-> 0]
    /\ counted = [w \in Writers |-> 0]
    /\ by = [c \in Certs |-> Nobody]
    /\ faults = {}

(* Mutant: transactions wait for one another for ever. *)
ProceedNoDetector(w) == InsertRow(w) \/ SkipRow(w) \/ Commit(w)

(* What a transaction comes to when nothing fails: its statements, one      *)
(* after the other, or its end by the deadlock detector.                    *)
Proceed(w) == InsertRow(w) \/ SkipRow(w) \/ Commit(w) \/ Victim(w)

(* Once begun, what a transaction does next. *)
InsertStep(w) ==
    \/ Proceed(w)
    \/ CommitUnanswered(w)
    \/ InsertFails(w)

(* The process dies and the database rolls its transaction back. *)
InsertCrash(w) ==
    /\ Fault("lost")
    /\ Unlock(w)
    /\ Leave(w)
    /\ counted' = [counted EXCEPT ![w] = 0]
    /\ UNCHANGED <<certs, by>>

InsertTypeOK ==
    /\ certs \subseteq Certs
    /\ owner \in [Certs -> Writers \cup {Nobody}]
    /\ stage \in [Writers -> Stage]
    /\ rows \in [Writers -> Seq(Certs)]
    /\ done \in [Writers -> Nat]
    /\ inserted \in [Writers -> Nat]
    /\ counted \in [Writers -> Nat]
    /\ by \in [Certs -> Writers \cup {Nobody}]
    /\ faults \subseteq FaultKinds
=============================================================================
