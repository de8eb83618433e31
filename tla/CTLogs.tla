------------------------------- MODULE CTLogs -------------------------------
(***************************************************************************)
(* The Certificate Transparency logs ctwatch mirrors, and the failures of  *)
(* the world around it.                                                    *)
(*                                                                         *)
(* A log is a sequence of entries. An entry is abstracted to what ctwatch  *)
(* tells apart:                                                            *)
(*   - a member of Certs: a precertificate that decodes and parses;        *)
(*   - Ignored: an entry that decodes and is dropped by the writer (a      *)
(*     final certificate, or a precertificate x509 parsing rejects);       *)
(*   - Undecodable: a leaf that decode_leaf (ingest/entry.rs) rejects.     *)
(***************************************************************************)
EXTENDS Integers, Sequences, FiniteSets

CONSTANTS
    Logs,         \* the CT logs, by log_id
    Certs,        \* precertificates, by cert_hash
    Undecodable,  \* the entry decode_leaf fails on
    Ignored,      \* the entry flush_batch drops before it makes a row
    Entries,      \* Entries[l]: everything log l will ever publish, in order
    NotBefore,    \* NotBefore[c]: the certificate's not_before, in ticks
    Cutoff,       \* now - retention_days_hot: older certificates get no row
    Faults        \* the kinds of failure an instance lets happen

FaultKinds == {"crash", "tick", "upsert", "insert", "names", "enqueue",
               "http", "db", "empty"}

ASSUME EntriesAssumption ==
    /\ Undecodable \notin Certs /\ Ignored \notin Certs /\ Undecodable # Ignored
    /\ Entries \in [Logs -> Seq(Certs \cup {Undecodable, Ignored})]
    /\ NotBefore \in [Certs -> Nat]
    /\ Cutoff \in Nat

ASSUME FaultsAssumption == Faults \subseteq FaultKinds

VARIABLE faults   \* history: the kinds of failure remembered

-----------------------------------------------------------------------------
(* Entry i (from 0, as in the log) of log l. *)
EntryAt(l, i) == Entries[l][i + 1]

(* A WriterJob: which entry of which log. Its log_url and operator are      *)
(* functions of the log, its decoded entry of the log and the index.        *)
Jobs == {j \in [log : Logs, index : Nat] : j.index < Len(Entries[j.log])}

JobOf(l, i) == [log |-> l, index |-> i]

EntryOf(j) == EntryAt(j.log, j.index)

(* flush_batch makes a row of a parsed precertificate inside retention. *)
Storable(e) == e \in Certs /\ NotBefore[e] >= Cutoff

(* A failure of kind k that this instance allows. *)
May(k) == k \in Faults /\ UNCHANGED faults

(* The same, remembered: some property makes an exception of it. *)
Fault(k) == k \in Faults /\ faults' = faults \cup {k}
=============================================================================
