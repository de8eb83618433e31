------------------------------- MODULE Writer -------------------------------
(***************************************************************************)
(* The writer task (src/writer.rs): it drains the channel into a batch,    *)
(* inserts the batch's certificates in one transaction, then, each in a    *)
(* statement of its own, updates names_observed, queues webhook alerts and *)
(* finally broadcasts the events to the live stream.                       *)
(* Its tables are certs (with cert_names, written in the same              *)
(* transaction), names_observed (`seen`) and webhook_outbox (`outbox`).    *)
(*                                                                         *)
(* The in-memory watch list (watchlist/matcher.rs) is read once per row;   *)
(* the reload loop (watchlist/mod.rs) replaces it between two rows.        *)
(***************************************************************************)
EXTENDS JobQueue

CONSTANTS
    Names,      \* DNS names, by SAN
    NamesOf,    \* NamesOf[c]: the SANs of certificate c
    Domains,    \* registered domains
    DomainsOf,  \* DomainsOf[c]: the registered domains of c's SANs
    BatchMax,   \* the size a batch is not drained beyond (100)
    WatchLists, \* the contents a reload may put into the matcher
    StartLists  \* its contents when the writer starts

ASSUME WriterAssumption ==
    /\ NamesOf \in [Certs -> SUBSET Names]
    /\ DomainsOf \in [Certs -> SUBSET Domains]
    /\ BatchMax \in Nat /\ BatchMax >= 2
    /\ WatchLists \subseteq SUBSET Domains
    /\ StartLists \subseteq SUBSET Domains

VARIABLES
    phase,     \* where the writer's loop is
    batch,     \* the Vec<WriterJob> being drained or flushed
    fresh,     \* the certificates this flush inserted (`inserted` is its size)
    naming,    \* <<i, n>>: names of row i not yet upserted
    matching,  \* rows not yet matched against the watch list
    certs,     \* table certs
    seen,      \* table names_observed
    outbox,    \* outbox[c]: how many alerts for c were ever queued
    streamed,  \* history: certificates broadcast to the live stream
    matcher    \* the watch list in memory

writerVars == <<phase, batch, fresh, naming, matching, certs, seen, outbox,
                streamed, matcher>>

Phase == {"recv", "drain", "insert", "flush"}

-----------------------------------------------------------------------------
CertAt(i) == EntryOf(batch[i])

(* Mutant: the retention is not looked at. *)
RowsOfAnyAge == {i \in 1 .. Len(batch) : CertAt(i) \in Certs}

(* The positions of the batch that flush_batch makes a row (and an event) of. *)
Rows == {i \in 1 .. Len(batch) : Storable(CertAt(i))}

RowCerts == {CertAt(i) : i \in Rows}

(* Mutant: names taken before the retention filter. *)
NamesBeforeCutoff ==
    {p \in (1 .. Len(batch)) \X Names :
        CertAt(p[1]) \in Certs /\ p[2] \in NamesOf[CertAt(p[1])]}

(* A row number and a SAN of its certificate, for each name to upsert. *)
RowNames == {p \in Rows \X Names : p[2] \in NamesOf[CertAt(p[1])]}

InBatch(j) == \E k \in 1 .. Len(batch) : batch[k] = j

(* names_observed: no row, or first_seen and last_seen *)
Unseen == [first |-> -1, last |-> -1]

(* names::upsert with the certificate's not_before as `now` *)
Observe(row, t) == IF row = Unseen THEN [first |-> t, last |-> t]
                   ELSE [row EXCEPT !.last = t]

(* Matcher::matches is not empty *)
Hit(c) == DomainsOf[c] \cap matcher # {}

(* Mutant: the loop is left when any row was a duplicate. *)
ToMatchUnlessDuplicate(new) == IF new # RowCerts THEN {} ELSE Rows

(* The rows the watch list loop visits: it leaves at once when the batch    *)
(* inserted nothing, and otherwise visits every row, duplicates included.   *)
ToMatch(new) == IF new = {} THEN {} ELSE Rows

-----------------------------------------------------------------------------
(* Mutant: the batch is cleared after the first job was pushed. *)
RecvFirstThenClear ==
    /\ phase = "recv"
    /\ chan # <<>>
    /\ batch' = <<>>
    /\ chan' = Tail(chan)
    /\ phase' = "drain"
    /\ UNCHANGED <<fresh, naming, matching, certs, seen, outbox, streamed,
                   matcher, faults>>

(* rx.recv(): wait for a first job. *)
RecvFirst ==
    /\ phase = "recv"
    /\ chan # <<>>
    /\ batch' = <<Head(chan)>>
    /\ chan' = Tail(chan)
    /\ phase' = "drain"
    /\ UNCHANGED <<fresh, naming, matching, certs, seen, outbox, streamed,
                   matcher, faults>>

(* rx.try_recv(): take more without waiting, *)
DrainMore ==
    /\ phase = "drain"
    /\ chan # <<>>
    /\ Len(batch) < BatchMax
    /\ batch' = Append(batch, Head(chan))
    /\ chan' = Tail(chan)
    /\ UNCHANGED <<phase, fresh, naming, matching, certs, seen, outbox,
                   streamed, matcher, faults>>

(* until the channel is empty or the batch is full. *)
DrainDone ==
    /\ phase = "drain"
    /\ chan = <<>> \/ Len(batch) >= BatchMax
    /\ phase' = "insert"
    /\ UNCHANGED <<chan, batch, fresh, naming, matching, certs, seen, outbox,
                   streamed, matcher, faults>>

(* certs::insert_batch: one transaction, ON CONFLICT DO NOTHING. It is the  *)
(* filtering of the batch into rows too, and fixes what the later loops do. *)
InsertBatch ==
    /\ phase = "insert"
    /\ certs' = certs \cup RowCerts
    /\ fresh' = RowCerts \ certs
    /\ naming' = RowNames
    /\ matching' = ToMatch(RowCerts \ certs)
    /\ phase' = "flush"
    /\ UNCHANGED <<chan, batch, seen, outbox, streamed, matcher, faults>>

(* Mutant: alerts and events go out although insert_batch failed. *)
PublishDespiteError ==
    /\ phase = "insert"
    /\ Fault("insert")
    /\ matching' = Rows
    /\ phase' = "flush"
    /\ UNCHANGED <<chan, batch, fresh, naming, certs, seen, outbox, streamed,
                   matcher>>

(* flush_batch returns early and the batch is dropped; the transaction may  *)
(* have been committed all the same (a lost answer to COMMIT).              *)
InsertFails ==
    /\ phase = "insert"
    /\ Rows # {}
    /\ Fault("insert")
    /\ certs' \in {certs, certs \cup RowCerts}
    /\ batch' = <<>>
    /\ phase' = "recv"
    /\ UNCHANGED <<chan, fresh, naming, matching, seen, outbox, streamed,
                   matcher>>

(* names::upsert for one name of the first row that has names left; an      *)
(* error is only logged.                                                    *)
UpsertName(i, n) ==
    /\ phase = "flush"
    /\ <<i, n>> \in naming
    /\ \A p \in naming : i <= p[1]
    /\ naming' = naming \ {<<i, n>>}
    /\ \/ /\ seen' = [seen EXCEPT ![n] = Observe(@, NotBefore[CertAt(i)])]
          /\ UNCHANGED faults
       \/ Fault("names") /\ UNCHANGED seen
    /\ UNCHANGED <<chan, phase, batch, fresh, matching, certs, outbox,
                   streamed, matcher>>

(* One turn of the watch list loop: look row i up, and on a hit call        *)
(* outbox::enqueue, whose error is only logged.                             *)
MatchRow(i) ==
    /\ phase = "flush"
    /\ naming = {}
    /\ i \in matching
    /\ \A k \in matching : i <= k
    /\ matching' = matching \ {i}
    /\ \/ /\ Hit(CertAt(i))
          /\ outbox' = [outbox EXCEPT ![CertAt(i)] = @ + 1]
          /\ UNCHANGED faults
       \/ /\ Hit(CertAt(i))
          /\ Fault("enqueue")
          /\ UNCHANGED outbox
       \/ /\ ~Hit(CertAt(i))
          /\ UNCHANGED <<outbox, faults>>
    /\ UNCHANGED <<chan, phase, batch, fresh, naming, certs, seen, streamed,
                   matcher>>

(* The events of every row go to the live stream, and the flush is over. *)
Broadcast ==
    /\ phase = "flush"
    /\ naming = {} /\ matching = {}
    /\ streamed' = streamed \cup RowCerts
    /\ batch' = <<>>
    /\ fresh' = {}
    /\ phase' = "recv"
    /\ UNCHANGED <<chan, naming, matching, certs, seen, outbox, matcher, faults>>

(* The reload loop replaces the watch list. *)
ReplaceMatcher(W) ==
    /\ matcher # W
    /\ matcher' = W
    /\ UNCHANGED <<chan, phase, batch, fresh, naming, matching, certs, seen,
                   outbox, streamed, faults>>

-----------------------------------------------------------------------------
WriterInit ==
    /\ phase = "recv"
    /\ batch = <<>>
    /\ fresh = {}
    /\ naming = {}
    /\ matching = {}
    /\ certs = {}
    /\ seen = [n \in Names |-> Unseen]
    /\ outbox = [c \in Certs |-> 0]
    /\ streamed = {}
    /\ matcher \in StartLists

FlushStep ==
    \/ RecvFirst
    \/ DrainMore
    \/ DrainDone
    \/ InsertBatch
    \/ InsertFails
    \/ \E p \in naming : UpsertName(p[1], p[2])
    \/ \E i \in matching : MatchRow(i)
    \/ Broadcast

WriterStep == FlushStep \/ \E W \in WatchLists : ReplaceMatcher(W)

(* The process dies: the batch and the matcher are gone, the tables remain. *)
WriterCrash ==
    /\ phase' = "recv"
    /\ batch' = <<>>
    /\ fresh' = {}
    /\ naming' = {}
    /\ matching' = {}
    /\ matcher' \in StartLists
    /\ UNCHANGED <<certs, seen, outbox, streamed>>

Seen == [first : Nat, last : Nat] \cup {Unseen}

WriterTypeOK ==
    /\ phase \in Phase
    /\ batch \in Seq(Jobs) /\ Len(batch) <= BatchMax
    /\ fresh \subseteq certs
    /\ naming \subseteq (1 .. Len(batch)) \X Names
    /\ matching \subseteq 1 .. Len(batch)
    /\ certs \subseteq Certs
    /\ seen \in [Names -> Seen]
    /\ outbox \in [Certs -> Nat]
    /\ streamed \subseteq Certs
    /\ matcher \subseteq Domains
=============================================================================
