---------------------------- MODULE TablesProofs ----------------------------
(***************************************************************************)
(* SharedTables: the transactions of all processes insert their batches    *)
(* one after the other, each new certificate is counted and alerted on     *)
(* where it was first inserted, and names are not pruned early, for any    *)
(* processes, certificates, batches and retentions.                        *)
(***************************************************************************)
EXTENDS SharedTables, FiniteSetTheorems, TLAPS

(* The rows of a transaction that were executed are in the table or its own *)
(* to commit; what it has to itself is not committed yet and was counted.   *)
TransactionOK(w) ==
    /\ done[w] \in 0 .. Len(rows[w])
    /\ stage[w] # "insert" => Owned(w) = {}
    /\ Owned(w) \cap certs = {}
    /\ Owned(w) \subseteq Executed(w)
    /\ stage[w] = "insert" =>
           /\ Executed(w) \subseteq certs \cup Owned(w)
           /\ inserted[w] = Cardinality(Owned(w))

(* Outside a flush there are no rows; in its second part all are committed. *)
FlushOK(w) ==
    /\ stage[w] = "idle" => rows[w] = <<>> /\ done[w] = 0 /\ inserted[w] = 0
    /\ stage[w] # "flush" => naming[w] = {}
    /\ stage[w] = "flush" => RowSet(w) \subseteq certs
    /\ naming[w] \subseteq (1 .. Len(rows[w])) \X Names

(* Who committed a certificate is known exactly for those in the table.     *)
Attributed == \A c \in Certs : by[c] = Nobody <=> c \notin certs

(* A new certificate was alerted on, or its flush will: it counted it.      *)
FirstAlerted ==
    "lost" \notin faults =>
        \A c \in certs : by[c] \in Watching =>
            \/ c \in alerted
            \/ /\ stage[by[c]] = "flush"
               /\ c \in RowSet(by[c])
               /\ inserted[by[c]] > 0

(* Rows, and with them last_seen, are no older than the hot retention was   *)
(* when they were made.                                                     *)
RowsHot ==
    \A w \in Writers : \A i \in 1 .. Len(rows[w]) :
        NotBefore[rows[w][i]] >= began[w] - HotDays

SeenHot == \A n \in Names : seen[n] # NoRow => seen[n] >= observed[n] - HotDays

Inv ==
    /\ TypeOK
    /\ \A w \in Writers : TransactionOK(w) /\ FlushOK(w)
    /\ Attributed /\ CountedOnce /\ FirstAlerted /\ RowsHot /\ SeenHot

-----------------------------------------------------------------------------
(* Sets of certificates are finite, and their sizes numbers.                *)
LEMMA CertSets ==
    ASSUME NEW S \in SUBSET Certs
    PROVE  /\ IsFiniteSet(S)
           /\ Cardinality(S) \in Nat
           /\ Cardinality(S) = 0 <=> S = {}
BY InsertAssumption, FS_Subset, FS_CardinalityType, FS_EmptySet

(* The size of a disjoint union.                                            *)
LEMMA DisjointSize ==
    ASSUME NEW S \in SUBSET Certs, NEW T \in SUBSET Certs, S \cap T = {}
    PROVE  Cardinality(S \cup T) = Cardinality(S) + Cardinality(T)
<1>1. IsFiniteSet(S) /\ IsFiniteSet(T)
  BY CertSets
<1>2. Cardinality(S \cup T) = Cardinality(S) + Cardinality(T) - Cardinality(S \cap T)
  BY <1>1, FS_Union
<1>3. Cardinality(S \cap T) = 0
  BY CertSets
<1>4. Cardinality(S) \in Nat /\ Cardinality(T) \in Nat
  BY CertSets
<1>5. QED
  BY <1>2, <1>3, <1>4

(* Rows are certificates; those executed are among them.                    *)
LEMMA RowTypes ==
    ASSUME TypeOK, NEW w \in Writers, done[w] \in 0 .. Len(rows[w])
    PROVE  /\ Executed(w) \subseteq RowSet(w)
           /\ RowSet(w) \subseteq Certs
           /\ MoreRows(w) => RowOf(w) \in RowSet(w)
           /\ done[w] = Len(rows[w]) => Executed(w) = RowSet(w)
<1>1. rows[w] \in Seq(Certs) /\ done[w] \in Nat
  BY DEF TypeOK, InsertTypeOK
<1>2. \A i \in 1 .. Len(rows[w]) : rows[w][i] \in Certs
  BY <1>1
<1>3. RowSet(w) \subseteq Certs
  BY <1>2 DEF RowSet
<1>4. Len(rows[w]) \in Nat
  BY <1>1
<1>5. 1 .. done[w] \subseteq 1 .. Len(rows[w])
  BY <1>4
<1>6. Executed(w) \subseteq RowSet(w)
  BY <1>5 DEF Executed, RowSet
<1>7. MoreRows(w) => RowOf(w) \in RowSet(w)
  <2>1. MoreRows(w) => done[w] + 1 \in 1 .. Len(rows[w])
    BY <1>1, <1>4 DEF MoreRows
  <2>2. QED
    BY <2>1 DEF RowOf, RowSet
<1>8. done[w] = Len(rows[w]) => Executed(w) = RowSet(w)
  BY DEF Executed, RowSet
<1>9. QED
  BY <1>3, <1>6, <1>7, <1>8

LEMMA TablesInit == Init => Inv
<1> SUFFICES ASSUME Init
             PROVE  Inv
  OBVIOUS
<1> USE DEF Init, InsertInit
<1>1. TypeOK
  BY DEF TypeOK, InsertTypeOK, Stage, NoRow
<1>2. ASSUME NEW w \in Writers
      PROVE  TransactionOK(w) /\ FlushOK(w)
  <2>1. Owned(w) = {} /\ Executed(w) = {}
    BY InsertAssumption DEF Owned, Executed
  <2>2. QED
    BY <2>1 DEF TransactionOK, FlushOK
<1>3. Attributed /\ FirstAlerted /\ RowsHot /\ SeenHot
  BY DEF Attributed, FirstAlerted, RowsHot, SeenHot, NoRow
<1>4. CountedOnce
  <2>1. ASSUME NEW w \in Writers
        PROVE  Cardinality(CommittedBy(w)) = 0
    BY CertSets DEF CommittedBy
  <2>2. QED
    BY <2>1 DEF CountedOnce
<1>5. QED
  BY <1>1, <1>2, <1>3, <1>4 DEF Inv

-----------------------------------------------------------------------------
(* A writer whose own state a step leaves alone.                            *)
LEMMA OthersKeep ==
    ASSUME Inv, NEW v \in Writers,
           stage'[v] = stage[v], rows'[v] = rows[v], done'[v] = done[v],
           inserted'[v] = inserted[v], naming'[v] = naming[v],
           certs \subseteq certs', Owned(v)' = Owned(v), Owned(v) \cap certs' = {}
    PROVE  TransactionOK(v)' /\ FlushOK(v)'
<1>1. TransactionOK(v) /\ FlushOK(v)
  BY DEF Inv
<1>2. Executed(v)' = Executed(v) /\ RowSet(v)' = RowSet(v)
  BY DEF Executed, RowSet
<1>3. TransactionOK(v)'
  BY <1>1, <1>2 DEF TransactionOK
<1>4. FlushOK(v)'
  BY <1>1, <1>2 DEF FlushOK
<1>5. QED
  BY <1>3, <1>4

(* The end of a transaction takes its rows, and no others, away.            *)
LEMMA UnlockFacts ==
    ASSUME Inv, NEW w \in Writers, Unlock(w)
    PROVE  /\ owner' \in [Certs -> Writers \cup {Nobody}]
           /\ Owned(w)' = {}
           /\ \A v \in Writers \ {w} : Owned(v)' = Owned(v)
BY InsertAssumption DEF Inv, TypeOK, InsertTypeOK, Unlock, Owned

(* The transactions of two writers have no row in common.                   *)
LEMMA OwnedApart ==
    ASSUME NEW v \in Writers, NEW w \in Writers, v # w
    PROVE  Owned(v) \cap Owned(w) = {}
BY DEF Owned

(* A step that leaves everything of the flushes and tables alone, but time  *)
(* and names_observed, is harmless where last_seen stays in the retention.  *)
LEMMA QuietStep ==
    ASSUME Inv, UNCHANGED <<certs, owner, stage, rows, done, inserted, counted, by,
                            began, alerted>>,
           faults \subseteq faults', faults' \subseteq FaultKinds,
           today' \in Nat, seen' \in [Names -> Nat \cup {NoRow}],
           observed' \in [Names -> Nat], SeenHot',
           naming' \in [Writers -> SUBSET (Nat \X Names)],
           \A v \in Writers : naming'[v] \subseteq naming[v]
    PROVE  Inv'
<1>1. TypeOK'
  BY DEF Inv, TypeOK, InsertTypeOK
<1>2. ASSUME NEW v \in Writers
      PROVE  TransactionOK(v)' /\ FlushOK(v)'
  <2>1. TransactionOK(v) /\ FlushOK(v)
    BY DEF Inv
  <2>2. UNCHANGED <<Executed(v), RowSet(v), Owned(v)>>
    BY DEF Executed, RowSet, Owned
  <2>3. TransactionOK(v)'
    BY <2>1, <2>2 DEF TransactionOK
  <2>4. FlushOK(v)'
    BY <2>1, <2>2 DEF FlushOK
  <2>5. QED
    BY <2>3, <2>4
<1>3. Attributed'
  BY DEF Inv, Attributed
<1>4. CountedOnce'
  BY DEF Inv, CountedOnce, CommittedBy
<1>5. FirstAlerted'
  BY DEF Inv, FirstAlerted, RowSet
<1>6. RowsHot'
  BY DEF Inv, RowsHot
<1>7. QED
  BY <1>1, <1>2, <1>3, <1>4, <1>5, <1>6 DEF Inv

-----------------------------------------------------------------------------
(* A flush begins with rows inside the retention.                           *)
LEMMA BeginStep ==
    ASSUME Inv, NEW w \in Writers, NEW b \in Batches[w], Begin(w, b)
    PROVE  Inv'
<1> USE DEF Begin, BeginInsert, Goto
<1>0. TypeOK /\ b \in Seq(Certs)
  BY TablesAssumption DEF Inv
<1>1. TypeOK'
  BY <1>0 DEF TypeOK, InsertTypeOK, Stage
<1>2. ASSUME NEW v \in Writers
      PROVE  TransactionOK(v)' /\ FlushOK(v)'
  <2>1. Owned(v)' = Owned(v)
    BY DEF Owned
  <2>2. CASE v # w
    <3>1. /\ stage'[v] = stage[v] /\ rows'[v] = rows[v]
          /\ Owned(v) \cap certs = {}
      BY <1>0, <2>2 DEF TypeOK, InsertTypeOK, Inv, TransactionOK
    <3>2. QED
      BY <2>1, <3>1, OthersKeep
  <2>3. CASE v = w
    <3>1. /\ stage[w] = "idle" /\ TransactionOK(w) /\ FlushOK(w)
          /\ stage'[w] = "insert" /\ rows'[w] = b
      BY <1>0 DEF TypeOK, InsertTypeOK, Inv
    <3>2. /\ done[w] = 0 /\ inserted[w] = 0 /\ Owned(w) = {} /\ naming[w] = {}
      BY <3>1 DEF TransactionOK, FlushOK
    <3>3. Executed(w)' = {} /\ Cardinality({}) = 0
      BY <3>2, FS_EmptySet DEF Executed
    <3>4. Len(b) \in Nat
      BY <1>0
    <3>5. TransactionOK(w)'
      <4>1. Owned(w)' = {} /\ done'[w] = 0 /\ inserted'[w] = 0
        BY <2>1, <2>3, <3>2
      <4>2. QED
        BY <3>1, <3>3, <3>4, <4>1 DEF TransactionOK
    <3>6. FlushOK(w)'
      BY <3>1, <3>2 DEF FlushOK
    <3>7. QED
      BY <2>3, <3>5, <3>6
  <2>4. QED
    BY <2>2, <2>3
<1>3. Attributed' /\ CountedOnce' /\ SeenHot'
  BY DEF Inv, Attributed, CountedOnce, CommittedBy, SeenHot
<1>4. FirstAlerted'
  <2>1. \A v \in Writers : stage[v] = "flush" =>
            stage'[v] = "flush" /\ RowSet(v)' = RowSet(v)
    BY <1>0 DEF TypeOK, InsertTypeOK, RowSet
  <2>2. Watching \subseteq Writers
    BY TablesAssumption
  <2>3. QED
    BY <2>1, <2>2 DEF Inv, FirstAlerted
<1>5. RowsHot'
  <2>1. ASSUME NEW v \in Writers, NEW i \in 1 .. Len(rows'[v])
        PROVE  NotBefore[rows'[v][i]] >= began'[v] - HotDays
    <3>1. CASE v = w
      BY <1>0, <3>1 DEF TypeOK, InsertTypeOK, Hot
    <3>2. CASE v # w
      <4>1. rows'[v] = rows[v] /\ began'[v] = began[v]
        BY <1>0, <3>2 DEF TypeOK, InsertTypeOK
      <4>2. QED
        BY <4>1 DEF Inv, RowsHot
    <3>3. QED
      BY <3>1, <3>2
  <2>2. QED
    BY <2>1 DEF RowsHot
<1>6. QED
  BY <1>1, <1>2, <1>3, <1>4, <1>5 DEF Inv

-----------------------------------------------------------------------------
(* The INSERT of one row, new or not: what follows for the whole invariant  *)
(* from what it does to the transaction of w.                               *)
LEMMA RowStep ==
    ASSUME Inv, NEW w \in Writers, stage[w] = "insert",
           TypeOK', TransactionOK(w)', \A v \in Writers \ {w} : Owned(v)' = Owned(v),
           \A v \in Writers \ {w} : done'[v] = done[v] /\ inserted'[v] = inserted[v],
           UNCHANGED <<certs, stage, rows, counted, by, faults>>,
           UNCHANGED <<today, began, seen, naming, alerted, observed>>
    PROVE  Inv'
<1>1. ASSUME NEW v \in Writers
      PROVE  TransactionOK(v)' /\ FlushOK(v)'
  <2>1. CASE v # w
    <3>1. Owned(v) \cap certs = {}
      BY DEF Inv, TransactionOK
    <3>2. QED
      BY <2>1, <3>1, OthersKeep
  <2>2. CASE v = w
    BY <2>2 DEF Inv, FlushOK
  <2>3. QED
    BY <2>1, <2>2
<1>2. Attributed' /\ CountedOnce' /\ SeenHot' /\ RowsHot'
  BY DEF Inv, Attributed, CountedOnce, CommittedBy, SeenHot, RowsHot
<1>3. FirstAlerted'
  <2>1. \A v \in Writers : stage[v] = "flush" =>
            v # w /\ RowSet(v)' = RowSet(v) /\ inserted'[v] = inserted[v]
    BY DEF RowSet
  <2>2. Watching \subseteq Writers
    BY TablesAssumption
  <2>3. QED
    BY <2>1, <2>2 DEF Inv, FirstAlerted
<1>4. QED
  BY <1>1, <1>2, <1>3 DEF Inv

(* A transaction gains the row, *)
LEMMA InsertRowStep ==
    ASSUME Inv, NEW w \in Writers, InsertRow(w), naming'[w] = {},
           naming' \in [Writers -> SUBSET (Nat \X Names)],
           \A v \in Writers \ {w} : naming'[v] = naming[v],
           UNCHANGED <<today, began, seen, alerted, observed>>
    PROVE  Inv'
<1> DEFINE c == RowOf(w)
<1>1. /\ TypeOK /\ TransactionOK(w) /\ FlushOK(w)
      /\ stage[w] = "insert" /\ done[w] < Len(rows[w])
  BY DEF Inv, InsertRow, MoreRows
<1>2. /\ done[w] \in Nat /\ Len(rows[w]) \in Nat /\ inserted[w] \in Nat
      /\ c \in Certs /\ done[w] \in 0 .. Len(rows[w])
  <2>1. c \in RowSet(w) /\ RowSet(w) \subseteq Certs
    BY <1>1, RowTypes DEF TransactionOK, InsertRow
  <2>2. QED
    BY <1>1, <2>1 DEF TransactionOK, TypeOK, InsertTypeOK
<1>3. c \notin certs /\ owner[c] = Nobody
  BY DEF InsertRow
<1>4. naming' = naming
  <2>1. naming[w] = {} /\ naming \in [Writers -> SUBSET (Nat \X Names)]
    BY <1>1 DEF FlushOK, TypeOK
  <2>2. \A v \in Writers : naming'[v] = naming[v]
    BY <2>1
  <2>3. QED
    BY <2>1, <2>2
<1>5. /\ owner' = [owner EXCEPT ![c] = w]
      /\ inserted' = [inserted EXCEPT ![w] = @ + 1]
      /\ done' = [done EXCEPT ![w] = @ + 1]
      /\ UNCHANGED <<certs, stage, rows, counted, by, faults>>
  BY DEF InsertRow
<1>6. /\ owner \in [Certs -> Writers \cup {Nobody}]
      /\ inserted \in [Writers -> Nat] /\ done \in [Writers -> Nat]
  BY <1>1 DEF TypeOK, InsertTypeOK
<1> HIDE DEF c
<1>7. Owned(w)' = Owned(w) \cup {c} /\ c \notin Owned(w)
  BY <1>2, <1>3, <1>5, <1>6, InsertAssumption DEF Owned
<1>8. \A v \in Writers \ {w} : Owned(v)' = Owned(v)
  BY <1>2, <1>3, <1>5, <1>6, InsertAssumption DEF Owned
<1>9. done'[w] = done[w] + 1 /\ inserted'[w] = inserted[w] + 1
  BY <1>5, <1>6
<1>10. Executed(w)' = Executed(w) \cup {c}
  <2>1. 1 .. done[w] + 1 = (1 .. done[w]) \cup {done[w] + 1}
    BY <1>2
  <2>2. QED
    BY <1>5, <1>9, <2>1 DEF Executed, c, RowOf
<1>11. Cardinality(Owned(w)') = Cardinality(Owned(w)) + 1
  <2>1. IsFiniteSet(Owned(w))
    BY CertSets DEF Owned
  <2>2. QED
    BY <1>7, <2>1, FS_AddElement
<1>12. TransactionOK(w)'
  <2>1. done'[w] \in 0 .. Len(rows'[w])
    BY <1>1, <1>2, <1>5, <1>9
  <2>2. /\ Owned(w) \cap certs = {} /\ Owned(w) \subseteq Executed(w)
        /\ Executed(w) \subseteq certs \cup Owned(w)
        /\ inserted[w] = Cardinality(Owned(w))
    BY <1>1 DEF TransactionOK
  <2>3. Owned(w)' \cap certs' = {} /\ Owned(w)' \subseteq Executed(w)'
    BY <1>3, <1>5, <1>7, <1>10, <2>2
  <2>4. /\ Executed(w)' \subseteq certs' \cup Owned(w)'
        /\ inserted'[w] = Cardinality(Owned(w)')
    BY <1>5, <1>7, <1>9, <1>10, <1>11, <2>2
  <2>5. stage'[w] = "insert"
    BY <1>1, <1>5
  <2>6. QED
    BY <2>1, <2>3, <2>4, <2>5 DEF TransactionOK
<1>13. TypeOK'
  BY <1>1, <1>2, <1>4, <1>5, <1>6 DEF TypeOK, InsertTypeOK
<1>14. QED
  BY <1>1, <1>4, <1>5, <1>6, <1>8, <1>12, <1>13, RowStep

(* or skips it. *)
LEMMA SkipRowStep ==
    ASSUME Inv, NEW w \in Writers, SkipRow(w), naming'[w] = {},
           naming' \in [Writers -> SUBSET (Nat \X Names)],
           \A v \in Writers \ {w} : naming'[v] = naming[v],
           UNCHANGED <<today, began, seen, alerted, observed>>
    PROVE  Inv'
<1> DEFINE c == RowOf(w)
<1>1. /\ TypeOK /\ TransactionOK(w) /\ FlushOK(w)
      /\ stage[w] = "insert" /\ done[w] < Len(rows[w])
  BY DEF Inv, SkipRow, MoreRows
<1>2. /\ done[w] \in Nat /\ Len(rows[w]) \in Nat
      /\ c \in Certs /\ done[w] \in 0 .. Len(rows[w])
  <2>1. c \in RowSet(w) /\ RowSet(w) \subseteq Certs
    BY <1>1, RowTypes DEF TransactionOK, SkipRow
  <2>2. QED
    BY <1>1, <2>1 DEF TransactionOK, TypeOK, InsertTypeOK
<1>3. c \in certs \/ owner[c] = w
  BY DEF SkipRow
<1>4. naming' = naming
  <2>1. naming[w] = {} /\ naming \in [Writers -> SUBSET (Nat \X Names)]
    BY <1>1 DEF FlushOK, TypeOK
  <2>2. \A v \in Writers : naming'[v] = naming[v]
    BY <2>1
  <2>3. QED
    BY <2>1, <2>2
<1>5. /\ done' = [done EXCEPT ![w] = @ + 1]
      /\ UNCHANGED <<certs, owner, stage, rows, inserted, counted, by, faults>>
  BY DEF SkipRow
<1>6. done \in [Writers -> Nat]
  BY <1>1 DEF TypeOK, InsertTypeOK
<1> HIDE DEF c
<1>7. \A v \in Writers : Owned(v)' = Owned(v)
  BY <1>5 DEF Owned
<1>8. c \in certs \cup Owned(w)
  BY <1>2, <1>3 DEF Owned
<1>9. done'[w] = done[w] + 1
  BY <1>5, <1>6
<1>10. Executed(w)' = Executed(w) \cup {c}
  <2>1. 1 .. done[w] + 1 = (1 .. done[w]) \cup {done[w] + 1}
    BY <1>2
  <2>2. QED
    BY <1>5, <1>9, <2>1 DEF Executed, c, RowOf
<1>11. TransactionOK(w)'
  <2>1. done'[w] \in 0 .. Len(rows'[w])
    BY <1>1, <1>2, <1>5, <1>9
  <2>2. QED
    BY <1>1, <1>5, <1>7, <1>8, <1>10, <2>1 DEF TransactionOK
<1>12. TypeOK'
  BY <1>1, <1>2, <1>4, <1>5, <1>6 DEF TypeOK, InsertTypeOK
<1>13. QED
  BY <1>1, <1>4, <1>5, <1>6, <1>7, <1>11, <1>12, RowStep

-----------------------------------------------------------------------------
(* A commit puts into the table what the transaction owned: exactly those   *)
(* of its rows that were not there.                                         *)
LEMMA CommitFacts ==
    ASSUME Inv, NEW w \in Writers, Committed(w)
    PROVE  /\ certs' = certs \cup Owned(w) /\ certs' \subseteq Certs
           /\ Owned(w) = RowSet(w) \ certs
           /\ RowSet(w) \subseteq certs'
           /\ inserted[w] = Cardinality(Owned(w))
           /\ owner' \in [Certs -> Writers \cup {Nobody}]
           /\ Owned(w)' = {}
           /\ \A v \in Writers \ {w} : Owned(v)' = Owned(v) /\ Owned(v) \cap certs' = {}
           /\ by' \in [Certs -> Writers \cup {Nobody}]
           /\ \A c \in Certs : by'[c] = IF c \in Owned(w) THEN w ELSE by[c]
           /\ Attributed'
<1>1. /\ stage[w] = "insert" /\ done[w] = Len(rows[w])
      /\ certs' = certs \cup Owned(w)
      /\ by' = [c \in Certs |-> IF owner[c] = w THEN w ELSE by[c]]
      /\ Unlock(w)
  BY DEF Committed
<1>2. TypeOK /\ TransactionOK(w)
  BY DEF Inv
<1>3. done[w] \in 0 .. Len(rows[w])
  BY <1>2 DEF TransactionOK
<1>4. Executed(w) = RowSet(w) /\ RowSet(w) \subseteq Certs
  BY <1>1, <1>2, <1>3, RowTypes
<1>5. /\ Owned(w) \cap certs = {} /\ Owned(w) \subseteq RowSet(w)
      /\ RowSet(w) \subseteq certs \cup Owned(w)
      /\ inserted[w] = Cardinality(Owned(w))
  BY <1>1, <1>2, <1>4 DEF TransactionOK
<1>6. certs' \subseteq Certs
  BY <1>1, <1>2, <1>4, <1>5 DEF TypeOK, InsertTypeOK
<1>7. \A v \in Writers \ {w} : Owned(v) \cap certs' = {}
  BY <1>1, OwnedApart DEF Inv, TransactionOK
<1>8. /\ by' \in [Certs -> Writers \cup {Nobody}]
      /\ \A c \in Certs : by'[c] = IF c \in Owned(w) THEN w ELSE by[c]
  BY <1>1, <1>2 DEF TypeOK, InsertTypeOK, Owned
<1>9. Attributed'
  BY <1>1, <1>8, InsertAssumption DEF Inv, Attributed
<1>10. QED
  BY <1>1, <1>5, <1>6, <1>7, <1>8, <1>9, UnlockFacts

(* What w committed grows by what its transaction owned, which it counted;  *)
(* what others committed stays.                                             *)
LEMMA CommittedGrows ==
    ASSUME Inv, NEW w \in Writers, Committed(w)
    PROVE  /\ Cardinality(CommittedBy(w)') = Cardinality(CommittedBy(w)) + inserted[w]
           /\ \A v \in Writers \ {w} : CommittedBy(v)' = CommittedBy(v)
<1>0. certs \subseteq Certs /\ Owned(w) \subseteq Certs /\ Owned(w) \cap certs = {}
  BY CommitFacts DEF Inv, TypeOK, InsertTypeOK, Owned
<1>1. CommittedBy(w)' = CommittedBy(w) \cup Owned(w)
  BY <1>0, CommitFacts DEF CommittedBy
<1>2. Cardinality(CommittedBy(w) \cup Owned(w)) = Cardinality(CommittedBy(w)) + Cardinality(Owned(w))
  BY <1>0, DisjointSize DEF CommittedBy
<1>3. ASSUME NEW v \in Writers \ {w}
      PROVE  CommittedBy(v)' = CommittedBy(v)
  BY <1>0, CommitFacts DEF CommittedBy
<1>4. QED
  BY <1>1, <1>2, <1>3, CommitFacts

(* A step in which w leaves its flush, or its rows are committed, and the   *)
(* others are left alone.                                                   *)
LEMMA OthersLeft ==
    ASSUME Inv, NEW w \in Writers, Leave(w)
    PROVE  /\ stage' \in [Writers -> Stage] /\ rows' \in [Writers -> Seq(Certs)]
           /\ done' \in [Writers -> Nat] /\ inserted' \in [Writers -> Nat]
           /\ stage'[w] = "idle" /\ rows'[w] = <<>> /\ done'[w] = 0 /\ inserted'[w] = 0
           /\ \A v \in Writers \ {w} :
                 /\ stage'[v] = stage[v] /\ rows'[v] = rows[v]
                 /\ done'[v] = done[v] /\ inserted'[v] = inserted[v]
BY DEF Inv, TypeOK, InsertTypeOK, Leave, Stage

LEMMA LeaveHot ==
    ASSUME Inv, NEW w \in Writers, Leave(w), UNCHANGED began
    PROVE  RowsHot'
<1> SUFFICES ASSUME NEW v \in Writers, NEW i \in 1 .. Len(rows'[v])
             PROVE  NotBefore[rows'[v][i]] >= began[v] - HotDays
  BY DEF RowsHot
<1>1. v # w
  <2>1. Len(<<>>) = 0 /\ rows'[w] = <<>>
    BY OthersLeft
  <2>2. QED
    BY <2>1
<1>2. rows'[v] = rows[v]
  BY <1>1, OthersLeft
<1>3. QED
  BY <1>2 DEF Inv, RowsHot

LEMMA CommitStep ==
    ASSUME Inv, NEW w \in Writers, Commit(w),
           naming' \in [Writers -> SUBSET (Nat \X Names)],
           naming'[w] \subseteq (1 .. Len(rows[w])) \X Names,
           \A v \in Writers \ {w} : naming'[v] = naming[v],
           UNCHANGED <<today, began, seen, alerted, observed>>
    PROVE  Inv'
<1>0. Committed(w) /\ TypeOK /\ stage[w] = "insert"
  BY DEF Commit, Committed, Inv
<1>1. /\ stage' = [stage EXCEPT ![w] = "flush"]
      /\ counted' = [counted EXCEPT ![w] = @ + inserted[w]]
      /\ UNCHANGED <<rows, done, inserted, faults>>
  BY DEF Commit, Goto
<1>2. TypeOK'
  BY <1>0, <1>1, CommitFacts DEF TypeOK, InsertTypeOK, Stage
<1>3. ASSUME NEW v \in Writers
      PROVE  TransactionOK(v)' /\ FlushOK(v)'
  <2>1. CASE v # w
    <3>1. /\ stage'[v] = stage[v] /\ certs \subseteq certs'
          /\ Owned(v)' = Owned(v) /\ Owned(v) \cap certs' = {}
      BY <1>0, <1>1, <2>1, CommitFacts DEF TypeOK, InsertTypeOK
    <3>2. QED
      BY <1>1, <2>1, <3>1, OthersKeep
  <2>2. CASE v = w
    <3>1. stage'[w] = "flush" /\ Owned(w)' = {} /\ RowSet(w) \subseteq certs'
      BY <1>0, <1>1, CommitFacts DEF TypeOK, InsertTypeOK
    <3>2. RowSet(w)' = RowSet(w)
      BY <1>1 DEF RowSet
    <3>3. done'[w] \in 0 .. Len(rows'[w])
      BY <1>1 DEF Inv, TransactionOK
    <3>4. TransactionOK(w)'
      BY <3>1, <3>3 DEF TransactionOK
    <3>5. FlushOK(w)'
      BY <1>1, <3>1, <3>2 DEF FlushOK
    <3>6. QED
      BY <2>2, <3>4, <3>5
  <2>3. QED
    BY <2>1, <2>2
<1>4. CountedOnce'
  <2>1. SUFFICES ASSUME NEW v \in Writers
                 PROVE  /\ counted'[v] <= Cardinality(CommittedBy(v)')
                        /\ "lost" \notin faults' => counted'[v] = Cardinality(CommittedBy(v)')
    BY DEF CountedOnce
  <2>2. /\ counted[v] <= Cardinality(CommittedBy(v))
        /\ "lost" \notin faults' => counted[v] = Cardinality(CommittedBy(v))
    BY <1>1 DEF Inv, CountedOnce
  <2>3. /\ Cardinality(CommittedBy(w)') = Cardinality(CommittedBy(w)) + inserted[w]
        /\ v # w => CommittedBy(v)' = CommittedBy(v)
    BY <1>0, CommittedGrows
  <2>4. CASE v = w
    <3>1. counted'[v] = counted[v] + inserted[w] /\ counted[v] \in Nat /\ inserted[w] \in Nat
      BY <1>0, <1>1, <2>4 DEF TypeOK, InsertTypeOK
    <3>2. Cardinality(CommittedBy(w)) \in Nat
      BY <1>0, CertSets DEF CommittedBy, TypeOK, InsertTypeOK
    <3>3. QED
      BY <2>2, <2>3, <2>4, <3>1, <3>2
  <2>5. CASE v # w
    <3>1. counted'[v] = counted[v]
      BY <1>0, <1>1, <2>5 DEF TypeOK, InsertTypeOK
    <3>2. QED
      BY <2>2, <2>3, <2>5, <3>1
  <2>6. QED
    BY <2>4, <2>5
<1>5. FirstAlerted'
  <2>1. SUFFICES ASSUME "lost" \notin faults, NEW c \in certs', by'[c] \in Watching,
                        c \notin alerted
                 PROVE  /\ stage'[by'[c]] = "flush"
                        /\ c \in {rows[by'[c]][i] : i \in 1 .. Len(rows[by'[c]])}
                        /\ inserted'[by'[c]] > 0
    BY <1>1 DEF FirstAlerted, RowSet
  <2>3. CASE c \in Owned(w)
    <3>1. by'[c] = w /\ c \in RowSet(w)
      <4>1. c \in Certs
        BY <2>3 DEF Owned
      <4>2. QED
        BY <1>0, <2>3, <4>1, CommitFacts
    <3>2. inserted[w] > 0
      <4>1. Owned(w) \subseteq Certs /\ inserted[w] = Cardinality(Owned(w))
        BY <1>0, CommitFacts DEF Owned
      <4>2. QED
        BY <2>3, <4>1, CertSets
    <3>3. stage'[w] = "flush" /\ inserted'[w] = inserted[w]
      BY <1>0, <1>1 DEF TypeOK, InsertTypeOK
    <3>4. QED
      BY <3>1, <3>2, <3>3 DEF RowSet
  <2>4. CASE c \notin Owned(w)
    <3>1. c \in certs /\ c \in Certs /\ by'[c] = by[c]
      BY <1>0, <2>4, CommitFacts DEF TypeOK, InsertTypeOK
    <3>2. /\ stage[by[c]] = "flush" /\ c \in RowSet(by[c]) /\ inserted[by[c]] > 0
      BY <2>1, <3>1 DEF Inv, FirstAlerted
    <3>3. by[c] \in Writers /\ by[c] # w
      BY <1>0, <2>1, <3>1, <3>2, TablesAssumption
    <3>4. stage'[by[c]] = "flush" /\ inserted'[by[c]] = inserted[by[c]]
      BY <1>0, <1>1, <3>2, <3>3 DEF TypeOK, InsertTypeOK
    <3>5. QED
      BY <1>1, <3>1, <3>2, <3>4 DEF RowSet
  <2>5. QED
    BY <2>3, <2>4
<1>6. Attributed' /\ RowsHot' /\ SeenHot'
  BY <1>0, <1>1, CommitFacts DEF Inv, RowsHot, SeenHot
<1>7. QED
  BY <1>2, <1>3, <1>4, <1>5, <1>6 DEF Inv

(* The answer to a COMMIT is lost: from then on counts and alerts are not   *)
(* promised, the rest is.                                                   *)
LEMMA UnansweredStep ==
    ASSUME Inv, NEW w \in Writers, CommitUnanswered(w), naming'[w] = {},
           naming' \in [Writers -> SUBSET (Nat \X Names)],
           \A v \in Writers \ {w} : naming'[v] = naming[v],
           UNCHANGED <<today, began, seen, alerted, observed>>
    PROVE  Inv'
<1>0. /\ Committed(w) /\ Leave(w) /\ TypeOK /\ counted' = counted
      /\ "lost" \in faults' /\ faults' \subseteq FaultKinds
  BY InsertAssumption DEF CommitUnanswered, Fault, Inv, TypeOK, InsertTypeOK
<1>1. TypeOK'
  BY <1>0, CommitFacts, OthersLeft DEF TypeOK, InsertTypeOK
<1>2. ASSUME NEW v \in Writers
      PROVE  TransactionOK(v)' /\ FlushOK(v)'
  <2>1. CASE v # w
    <3>1. certs \subseteq certs' /\ Owned(v)' = Owned(v) /\ Owned(v) \cap certs' = {}
      BY <1>0, <2>1, CommitFacts
    <3>2. QED
      BY <1>0, <2>1, <3>1, OthersLeft, OthersKeep
  <2>2. CASE v = w
    <3>1. Owned(w)' = {}
      BY <1>0, CommitFacts
    <3>2. QED
      BY <1>0, <2>2, <3>1, OthersLeft DEF TransactionOK, FlushOK
  <2>3. QED
    BY <2>1, <2>2
<1>3. Attributed' /\ FirstAlerted' /\ SeenHot'
  BY <1>0, CommitFacts DEF Inv, FirstAlerted, SeenHot
<1>6. CountedOnce'
  <2>1. SUFFICES ASSUME NEW v \in Writers
                 PROVE  counted[v] <= Cardinality(CommittedBy(v)')
    BY <1>0 DEF CountedOnce
  <2>2. counted[v] <= Cardinality(CommittedBy(v)) /\ counted[v] \in Nat
    BY <1>0 DEF Inv, CountedOnce, TypeOK, InsertTypeOK
  <2>3. /\ Cardinality(CommittedBy(w)') = Cardinality(CommittedBy(w)) + inserted[w]
        /\ v # w => CommittedBy(v)' = CommittedBy(v)
    BY <1>0, CommittedGrows
  <2>4. Cardinality(CommittedBy(w)) \in Nat /\ inserted[w] \in Nat
    BY <1>0, CertSets DEF CommittedBy, TypeOK, InsertTypeOK
  <2>5. QED
    BY <2>2, <2>3, <2>4
<1>4. RowsHot'
  BY <1>0, LeaveHot
<1>5. QED
  BY <1>1, <1>2, <1>3, <1>4, <1>6 DEF Inv

(* A transaction is rolled back, by an error, a deadlock or the end of its  *)
(* process.                                                                 *)
LEMMA RollbackStep ==
    ASSUME Inv, NEW w \in Writers, Unlock(w), Leave(w), naming'[w] = {},
           naming' \in [Writers -> SUBSET (Nat \X Names)],
           \A v \in Writers \ {w} : naming'[v] = naming[v],
           faults \subseteq faults', faults' \subseteq FaultKinds,
           counted' \in [Writers -> Nat], \A v \in Writers : counted'[v] <= counted[v],
           "lost" \in faults' \/ (stage[w] = "insert" /\ counted' = counted),
           UNCHANGED <<certs, by, today, began, seen, alerted, observed>>
    PROVE  Inv'
<1>0. TypeOK
  BY DEF Inv
<1>1. TypeOK'
  BY <1>0, UnlockFacts, OthersLeft DEF TypeOK, InsertTypeOK
<1>2. ASSUME NEW v \in Writers
      PROVE  TransactionOK(v)' /\ FlushOK(v)'
  <2>1. CASE v # w
    <3>1. Owned(v)' = Owned(v) /\ Owned(v) \cap certs' = {}
      BY <2>1, UnlockFacts DEF Inv, TransactionOK
    <3>2. QED
      BY <2>1, <3>1, OthersLeft, OthersKeep
  <2>2. CASE v = w
    <3>1. Owned(w)' = {}
      BY UnlockFacts
    <3>2. QED
      BY <2>2, <3>1, OthersLeft DEF TransactionOK, FlushOK
  <2>3. QED
    BY <2>1, <2>2
<1>3. Attributed' /\ SeenHot'
  BY DEF Inv, Attributed, SeenHot
<1>7. CountedOnce'
  <2>1. SUFFICES ASSUME NEW v \in Writers
                 PROVE  /\ counted'[v] <= Cardinality(CommittedBy(v))
                        /\ "lost" \notin faults' => counted'[v] = Cardinality(CommittedBy(v))
    BY DEF CountedOnce, CommittedBy
  <2>2. /\ counted[v] <= Cardinality(CommittedBy(v))
        /\ "lost" \notin faults => counted[v] = Cardinality(CommittedBy(v))
        /\ counted[v] \in Nat /\ counted'[v] \in Nat
    BY <1>0 DEF Inv, CountedOnce, TypeOK, InsertTypeOK
  <2>3. Cardinality(CommittedBy(v)) \in Nat
    BY <1>0, CertSets DEF CommittedBy, TypeOK, InsertTypeOK
  <2>4. QED
    BY <2>2, <2>3
<1>4. FirstAlerted'
  <2>1. SUFFICES ASSUME "lost" \notin faults', stage[w] = "insert"
                 PROVE  FirstAlerted'
    BY DEF FirstAlerted
  <2>2. \A v \in Writers : stage[v] = "flush" =>
            /\ stage'[v] = "flush" /\ inserted'[v] = inserted[v]
            /\ RowSet(v)' = RowSet(v)
    BY <2>1, OthersLeft DEF RowSet
  <2>3. Watching \subseteq Writers
    BY TablesAssumption
  <2>4. QED
    BY <2>1, <2>2, <2>3 DEF Inv, FirstAlerted
<1>5. RowsHot'
  BY LeaveHot
<1>6. QED
  BY <1>1, <1>2, <1>3, <1>4, <1>5, <1>7 DEF Inv

(* Whatever a transaction does next.                                        *)
LEMMA TransactStep ==
    ASSUME Inv, NEW w \in Writers, Transact(w)
    PROVE  Inv'
<1> DEFINE N == IF stage'[w] # "flush" THEN {}
                ELSE {p \in (1 .. Len(rows[w])) \X Names : p[2] \in NamesOf[rows[w][p[1]]]}
<1>1. /\ InsertStep(w) /\ naming' = [naming EXCEPT ![w] = N]
      /\ UNCHANGED <<today, began, seen, alerted, observed>>
  BY DEF Transact
<1>2. /\ TypeOK /\ naming \in [Writers -> SUBSET (Nat \X Names)]
      /\ counted \in [Writers -> Nat] /\ faults \subseteq FaultKinds
      /\ stage \in [Writers -> Stage] /\ rows[w] \in Seq(Certs)
  BY DEF Inv, TypeOK, InsertTypeOK
<1>3. /\ N \subseteq (1 .. Len(rows[w])) \X Names
      /\ stage'[w] # "flush" => N = {}
  OBVIOUS
<1> HIDE DEF N
<1>4. N \in SUBSET (Nat \X Names)
  BY <1>2, <1>3
<1>5. /\ naming' \in [Writers -> SUBSET (Nat \X Names)]
      /\ naming'[w] = N
      /\ \A v \in Writers \ {w} : naming'[v] = naming[v]
  BY <1>1, <1>2, <1>4
<1>6. CASE InsertRow(w)
  <2>1. stage'[w] # "flush"
    BY <1>6 DEF InsertRow, MoreRows
  <2>2. QED
    BY <1>1, <1>3, <1>5, <1>6, <2>1, InsertRowStep
<1>7. CASE SkipRow(w)
  <2>1. stage'[w] # "flush"
    BY <1>7 DEF SkipRow, MoreRows
  <2>2. QED
    BY <1>1, <1>3, <1>5, <1>7, <2>1, SkipRowStep
<1>8. CASE Commit(w)
  BY <1>1, <1>3, <1>5, <1>8, CommitStep
<1>9. CASE CommitUnanswered(w)
  <2>1. stage'[w] # "flush"
    BY <1>9, OthersLeft DEF CommitUnanswered
  <2>2. QED
    BY <1>1, <1>3, <1>5, <1>9, <2>1, UnansweredStep
<1>10. CASE InsertFails(w) \/ Victim(w)
  <2>1. /\ stage[w] = "insert" /\ Unlock(w) /\ Leave(w)
        /\ UNCHANGED <<certs, counted, by, faults>>
    <3>1. Victim(w) => stage[w] = "insert"
      BY DEF Victim, Deadlocked, Waits, MoreRows
    <3>2. QED
      BY <1>10, <3>1 DEF InsertFails, Victim
  <2>2. stage'[w] # "flush"
    BY <2>1, OthersLeft
  <2>3. QED
    <3>1. /\ naming'[w] = {} /\ counted' = counted /\ faults' = faults
          /\ counted' \in [Writers -> Nat] /\ \A v \in Writers : counted'[v] <= counted[v]
      BY <1>2, <1>3, <1>5, <2>1, <2>2
    <3>2. QED
      BY <1>1, <1>2, <1>5, <2>1, <3>1, RollbackStep
<1>11. QED
  BY <1>1, <1>6, <1>7, <1>8, <1>9, <1>10 DEF InsertStep, Proceed

-----------------------------------------------------------------------------
(* A name is upserted, or fails to be.                                      *)
LEMMA UpsertStep ==
    ASSUME Inv, NEW w \in Writers, NEW p \in naming[w], UpsertName(w, p[1], p[2])
    PROVE  Inv'
<1>1. /\ TypeOK /\ FlushOK(w) /\ stage[w] = "flush"
      /\ p \in (1 .. Len(rows[w])) \X Names
  BY DEF Inv, FlushOK, UpsertName
<1> DEFINE i == p[1]
           n == p[2]
<1>2. i \in 1 .. Len(rows[w]) /\ n \in Names /\ p = <<i, n>>
  BY <1>1
<1>3. /\ naming' = [naming EXCEPT ![w] = @ \ {<<i, n>>}]
      /\ UNCHANGED <<certs, owner, stage, rows, done, inserted, counted, by, began, alerted>>
      /\ today' = today
  BY DEF UpsertName
<1>4. /\ rows[w] \in Seq(Certs) /\ began[w] \in Nat /\ faults \subseteq FaultKinds
      /\ seen \in [Names -> Nat \cup {NoRow}] /\ observed \in [Names -> Nat]
      /\ naming \in [Writers -> SUBSET (Nat \X Names)] /\ today \in Nat
      /\ began \in [Writers -> Nat]
  BY <1>1 DEF TypeOK, InsertTypeOK
<1>5. rows[w][i] \in Certs /\ NotBefore[rows[w][i]] \in Nat
  BY <1>2, <1>4, TablesAssumption
<1>6. NotBefore[rows[w][i]] >= began[w] - HotDays
  BY <1>2 DEF Inv, RowsHot
<1>7. /\ naming' \in [Writers -> SUBSET (Nat \X Names)]
      /\ \A v \in Writers : naming'[v] \subseteq naming[v]
  BY <1>3, <1>4
<1>8. \/ /\ seen' = [seen EXCEPT ![n] = NotBefore[rows[w][i]]]
         /\ observed' = [observed EXCEPT ![n] = began[w]]
         /\ faults' = faults
      \/ /\ faults' = faults \cup {"names"} /\ "names" \in Faults
         /\ UNCHANGED <<seen, observed>>
  BY DEF UpsertName, Fault
<1> HIDE DEF i, n
<1>9. /\ seen' \in [Names -> Nat \cup {NoRow}] /\ observed' \in [Names -> Nat]
      /\ faults \subseteq faults' /\ faults' \subseteq FaultKinds
  BY <1>2, <1>4, <1>5, <1>8, InsertAssumption
<1>10. SeenHot'
  <2>1. ASSUME NEW m \in Names, seen'[m] # NoRow
        PROVE  seen'[m] >= observed'[m] - HotDays
    <3>1. CASE m = n /\ seen' # seen
      <4>1. seen'[m] = NotBefore[rows[w][i]] /\ observed'[m] = began[w]
        BY <1>4, <1>8, <3>1
      <4>2. QED
        BY <1>6, <4>1
    <3>2. CASE m = n /\ seen' = seen
      <4>1. observed'[m] \in {observed[m], began[w]}
        BY <1>4, <1>8, <3>2
      <4>2. observed'[m] = began[w] => seen'[m] = NotBefore[rows[w][i]] \/ observed'[m] = observed[m]
        BY <1>4, <1>8, <3>2
      <4>3. seen[m] >= observed[m] - HotDays
        BY <2>1, <3>2 DEF Inv, SeenHot
      <4>4. QED
        BY <1>6, <3>2, <4>1, <4>2, <4>3
    <3>3. CASE m # n
      <4>1. seen'[m] = seen[m] /\ observed'[m] = observed[m]
        BY <1>4, <1>8, <3>3
      <4>2. QED
        BY <2>1, <4>1 DEF Inv, SeenHot
    <3>4. QED
      BY <3>1, <3>2, <3>3
  <2>2. QED
    BY <2>1 DEF SeenHot
<1>11. QED
  BY <1>3, <1>4, <1>7, <1>9, <1>10, QuietStep

(* The end of a flush: what it inserted first is alerted on.                *)
LEMMA EndStep ==
    ASSUME Inv, NEW w \in Writers, EndFlush(w)
    PROVE  Inv'
<1>1. /\ TypeOK /\ TransactionOK(w) /\ FlushOK(w)
      /\ stage[w] = "flush" /\ naming[w] = {} /\ Leave(w)
      /\ UNCHANGED <<certs, owner, counted, by, faults, today, began, seen, naming, observed>>
      /\ alerted' = IF w \in Watching /\ inserted[w] > 0
                    THEN alerted \cup RowSet(w) ELSE alerted
  BY DEF Inv, EndFlush
<1>2. RowSet(w) \subseteq certs /\ Owned(w) = {}
  BY <1>1 DEF TransactionOK, FlushOK
<1>3. TypeOK'
  BY <1>1, <1>2, OthersLeft DEF TypeOK, InsertTypeOK
<1>4. ASSUME NEW v \in Writers
      PROVE  TransactionOK(v)' /\ FlushOK(v)'
  <2>1. Owned(v)' = Owned(v)
    BY <1>1 DEF Owned
  <2>2. CASE v # w
    <3>1. Owned(v) \cap certs' = {}
      BY <1>1 DEF Inv, TransactionOK
    <3>2. QED
      BY <1>1, <2>1, <2>2, <3>1, OthersLeft, OthersKeep
  <2>3. CASE v = w
    BY <1>1, <1>2, <2>1, <2>3, OthersLeft DEF TransactionOK, FlushOK
  <2>4. QED
    BY <2>2, <2>3
<1>5. Attributed' /\ CountedOnce' /\ SeenHot'
  BY <1>1 DEF Inv, Attributed, CountedOnce, CommittedBy, SeenHot
<1>6. FirstAlerted'
  <2>1. SUFFICES ASSUME "lost" \notin faults, NEW c \in certs, by[c] \in Watching,
                        c \notin alerted'
                 PROVE  /\ stage'[by[c]] = "flush"
                        /\ c \in RowSet(by[c])'
                        /\ inserted'[by[c]] > 0
    BY <1>1 DEF FirstAlerted, RowSet
  <2>2. /\ stage[by[c]] = "flush" /\ c \in RowSet(by[c]) /\ inserted[by[c]] > 0
    BY <1>1, <2>1 DEF Inv, FirstAlerted
  <2>3. by[c] # w
    BY <1>1, <2>1, <2>2
  <2>4. by[c] \in Writers
    BY <2>1, TablesAssumption
  <2>5. /\ stage'[by[c]] = stage[by[c]] /\ rows'[by[c]] = rows[by[c]]
        /\ inserted'[by[c]] = inserted[by[c]]
    BY <1>1, <2>3, <2>4, OthersLeft
  <2>6. by' = by
    BY <1>1
  <2>7. QED
    BY <2>2, <2>5, <2>6 DEF RowSet
<1>7. RowsHot'
  BY <1>1, LeaveHot
<1>8. QED
  BY <1>3, <1>4, <1>5, <1>6, <1>7 DEF Inv

LEMMA CrashStep ==
    ASSUME Inv, NEW w \in Writers, Crash(w)
    PROVE  Inv'
<1>1. /\ Unlock(w) /\ Leave(w) /\ faults' = faults \cup {"lost"} /\ "lost" \in Faults
      /\ counted' = [counted EXCEPT ![w] = 0] /\ naming' = [naming EXCEPT ![w] = {}]
      /\ UNCHANGED <<certs, by, today, began, seen, alerted, observed>>
  BY DEF Crash, InsertCrash, Fault
<1>2. /\ naming \in [Writers -> SUBSET (Nat \X Names)]
      /\ counted \in [Writers -> Nat] /\ faults \subseteq FaultKinds
  BY DEF Inv, TypeOK, InsertTypeOK
<1>3. /\ naming'[w] = {} /\ naming' \in [Writers -> SUBSET (Nat \X Names)]
      /\ \A v \in Writers \ {w} : naming'[v] = naming[v]
      /\ counted' \in [Writers -> Nat] /\ faults' \subseteq FaultKinds
      /\ \A v \in Writers : counted'[v] <= counted[v]
  BY <1>1, <1>2, InsertAssumption
<1>4. QED
  BY <1>1, <1>3, RollbackStep

(* The pruner and the days that pass.                                       *)
LEMMA PruneStep == ASSUME Inv, Prune \/ NextDay PROVE Inv'
<1>1. /\ UNCHANGED insertVars /\ UNCHANGED <<began, naming, alerted, observed>>
  BY DEF Prune, NextDay
<1>2. TypeOK
  BY DEF Inv
<1>3. /\ faults \subseteq FaultKinds /\ today \in Nat
      /\ seen \in [Names -> Nat \cup {NoRow}] /\ observed \in [Names -> Nat]
      /\ naming \in [Writers -> SUBSET (Nat \X Names)]
  BY <1>2 DEF TypeOK, InsertTypeOK
<1>4. \A n \in Names : seen'[n] \in {seen[n], NoRow}
  BY <1>3 DEF Prune, NextDay
<1>5. seen' \in [Names -> Nat \cup {NoRow}] /\ today' \in Nat
  BY <1>3 DEF Prune, NextDay
<1>6. SeenHot'
  BY <1>1, <1>3, <1>4 DEF Inv, SeenHot
<1>7. QED
  BY <1>1, <1>3, <1>5, <1>6, QuietStep DEF insertVars

LEMMA TablesStep == Inv /\ [Next]_vars => Inv'
<1> SUFFICES ASSUME Inv, [Next]_vars
             PROVE  Inv'
  OBVIOUS
<1>1. ASSUME NEW w \in Writers, NEW b \in Batches[w], Begin(w, b)
      PROVE  Inv'
  BY <1>1, BeginStep
<1>2. ASSUME NEW w \in Writers, FlushStep(w)
      PROVE  Inv'
  BY <1>2, TransactStep, UpsertStep, EndStep DEF FlushStep
<1>3. ASSUME NEW w \in Writers, Crash(w)
      PROVE  Inv'
  BY <1>3, CrashStep
<1>4. CASE Prune \/ NextDay
  BY <1>4, PruneStep
<1>5. CASE UNCHANGED vars
  <2>1. /\ UNCHANGED insertVars
        /\ UNCHANGED <<today, began, seen, naming, alerted, observed>>
    BY <1>5 DEF vars, nameVars
  <2>2. SeenHot'
    BY <2>1 DEF Inv, SeenHot
  <2>3. QED
    BY <2>1, <2>2, QuietStep DEF insertVars, Inv, TypeOK, InsertTypeOK
<1>6. QED
  BY <1>1, <1>2, <1>3, <1>4, <1>5 DEF Next

(* The inductive invariant holds of any processes and any batches.          *)
THEOREM TablesInvariance == Spec => []Inv
BY TablesInit, TablesStep, PTL DEF Spec

(* Each stored certificate is counted by the one process that committed it, *)
(* and by no other; less is counted only when a process or an answer was    *)
(* lost (src/store/certs.rs, insert_batch; src/writer.rs, incr_certs).      *)
THEOREM CountsRight == Spec => []CountedOnce
<1>1. Inv => CountedOnce
  BY DEF Inv
<1>2. QED
  BY <1>1, TablesInvariance, PTL

(* What a process with a watch list was first to insert is alerted on by    *)
(* the end of that flush (src/writer.rs, flush_batch).                      *)
THEOREM AlertedWhereNew == Spec => []FirstInserterAlerts
<1>1. Inv => FirstInserterAlerts
  BY DEF Inv, FirstAlerted, FirstInserterAlerts
<1>2. QED
  BY <1>1, TablesInvariance, PTL

(* No name is deleted less than ColdDays - HotDays after the flush that     *)
(* last observed it (src/store/names.rs, prune_older_than).                 *)
THEOREM PrunedInTime == Spec => PrunedLate
<1> DEFINE Late == \A n \in Names : seen[n] # NoRow /\ seen'[n] = NoRow =>
                       today > observed[n] + ColdDays - HotDays
<1>1. Inv /\ [Next]_vars => [Late]_vars
  <2> SUFFICES ASSUME Inv, Next, NEW n \in Names, seen[n] # NoRow, seen'[n] = NoRow
               PROVE  today > observed[n] + ColdDays - HotDays
    OBVIOUS
  <2>1. /\ seen \in [Names -> Nat \cup {NoRow}] /\ observed \in [Names -> Nat]
        /\ today \in Nat /\ HotDays \in Nat /\ ColdDays \in Nat
    BY TablesAssumption DEF Inv, TypeOK
  <2>2. ASSUME NEW w \in Writers, NEW p \in naming[w], UpsertName(w, p[1], p[2])
        PROVE  FALSE
    <3>1. /\ p \in (1 .. Len(rows[w])) \X Names /\ rows[w] \in Seq(Certs)
      BY DEF Inv, FlushOK, TypeOK, InsertTypeOK
    <3>2. NotBefore[rows[w][p[1]]] \in Nat
      BY <3>1, TablesAssumption
    <3>3. \/ seen' = [seen EXCEPT ![p[2]] = NotBefore[rows[w][p[1]]]]
          \/ seen' = seen
      BY <2>2 DEF UpsertName
    <3>4. QED
      BY <2>1, <3>2, <3>3 DEF NoRow
  <2>3. Prune
    <3>1. seen' # seen
      OBVIOUS
    <3>2. QED
      BY <2>2, <3>1 DEF Next, Begin, FlushStep, Transact, EndFlush, Crash, NextDay
  <2>4. seen[n] < today - ColdDays
    BY <2>1, <2>3 DEF Prune, Prunable
  <2>5. seen[n] >= observed[n] - HotDays
    BY DEF Inv, SeenHot
  <2>6. seen[n] \in Nat /\ observed[n] \in Nat
    BY <2>1 DEF NoRow
  <2>7. QED
    BY <2>1, <2>4, <2>5, <2>6
<1>2. QED
  BY <1>1, TablesInvariance, PTL DEF Spec, PrunedLate

-----------------------------------------------------------------------------
(* The refinement mapping of Atomic, by name.                               *)
Asked == [w \in Writers |-> IF stage[w] = "insert" THEN RowSet(w) ELSE {}]
Returned == [w \in Writers |-> IF stage[w] = "flush" THEN inserted[w] ELSE 0]

(* A step of w alone changes the two at w alone.                            *)
LEMMA MappedAtOne ==
    ASSUME NEW w \in Writers,
           \A v \in Writers \ {w} :
               /\ stage'[v] = stage[v] /\ rows'[v] = rows[v] /\ inserted'[v] = inserted[v]
    PROVE  /\ Asked' = [Asked EXCEPT ![w] = IF stage'[w] = "insert" THEN RowSet(w)' ELSE {}]
           /\ Returned' = [Returned EXCEPT ![w] = IF stage'[w] = "flush" THEN inserted'[w] ELSE 0]
<1> DEFINE A == IF stage'[w] = "insert" THEN RowSet(w)' ELSE {}
<1>1. \A v \in Writers : Asked'[v] = IF stage'[v] = "insert" THEN RowSet(v)' ELSE {}
  BY DEF Asked
<1>2. \A v \in Writers \ {w} : Asked'[v] = Asked[v]
  <2>1. ASSUME NEW v \in Writers \ {w}
        PROVE  Asked'[v] = Asked[v]
    <3>1. RowSet(v)' = RowSet(v) /\ stage'[v] = stage[v]
      BY DEF RowSet
    <3>2. QED
      BY <1>1, <3>1 DEF Asked
  <2>2. QED
    BY <2>1
<1>3. Asked'[w] = A
  BY <1>1
<1> HIDE DEF A
<1>4. Asked' = [Asked EXCEPT ![w] = A]
  BY <1>2, <1>3 DEF Asked
<1>5. Returned' = [Returned EXCEPT ![w] = IF stage'[w] = "flush" THEN inserted'[w] ELSE 0]
  BY DEF Returned
<1>6. QED
  BY <1>4, <1>5 DEF A

(* The two modules mean the same by the size of a set.                      *)
LEMMA SameSize == \A S : Atomic!Cardinality(S) = Cardinality(S)
BY DEF Atomic!Cardinality, Cardinality

(* What w leaves behind when it leaves an insert or a flush.                *)
LEMMA MappedLeave ==
    ASSUME Inv, NEW w \in Writers, Leave(w)
    PROVE  Asked' = [Asked EXCEPT ![w] = {}] /\ Returned' = [Returned EXCEPT ![w] = 0]
BY MappedAtOne, OthersLeft

LEMMA AtomicInit == Init => Atomic!Init
<1> SUFFICES ASSUME Init
             PROVE  Atomic!Init
  OBVIOUS
<1>1. Asked = [w \in Writers |-> {}] /\ Returned = [w \in Writers |-> 0]
  BY DEF Init, InsertInit, Asked, Returned
<1>2. QED
  BY <1>1 DEF Init, InsertInit, Atomic!Init, Asked, Returned

(* Nothing happens to the table, or to who asked and what was returned.     *)
LEMMA AtomicStutters ==
    ASSUME certs' = certs, Asked' = Asked, Returned' = Returned
    PROVE  UNCHANGED Atomic!atomicVars
BY DEF Atomic!atomicVars, Asked, Returned

LEMMA AtomicTransact ==
    ASSUME Inv, NEW w \in Writers, InsertStep(w)
    PROVE  Atomic!Next \/ UNCHANGED Atomic!atomicVars
<1>0. TypeOK /\ stage[w] = "insert"
  BY DEF Inv, InsertStep, Proceed, InsertRow, SkipRow, Commit, CommitUnanswered, Committed,
         InsertFails, Victim, Deadlocked, Waits, MoreRows
<1>1. Asked[w] = RowSet(w) /\ Returned[w] = 0
  BY <1>0 DEF Asked, Returned
<1>2. CASE InsertRow(w) \/ SkipRow(w)
  <2>1. /\ UNCHANGED <<certs, stage, rows>>
        /\ \A v \in Writers \ {w} : inserted'[v] = inserted[v]
    BY <1>0, <1>2 DEF InsertRow, SkipRow, TypeOK, InsertTypeOK
  <2>2. Asked' = Asked
    BY <2>1 DEF Asked, RowSet
  <2>3. Returned' = Returned
    BY <1>0, <2>1 DEF Returned
  <2>4. QED
    BY <2>1, <2>2, <2>3, AtomicStutters
<1>3. CASE Commit(w)
  <2>1. /\ Committed(w) /\ UNCHANGED <<rows, inserted>>
        /\ stage' = [stage EXCEPT ![w] = "flush"]
    BY <1>3 DEF Commit, Goto
  <2>2. /\ stage'[w] = "flush"
        /\ \A v \in Writers \ {w} : stage'[v] = stage[v]
    BY <1>0, <2>1 DEF TypeOK, InsertTypeOK
  <2>3. /\ Asked' = [Asked EXCEPT ![w] = {}]
        /\ Returned' = [Returned EXCEPT ![w] = inserted[w]]
    BY <2>1, <2>2, MappedAtOne
  <2>4. certs' = certs \cup RowSet(w) /\ inserted[w] = Cardinality(RowSet(w) \ certs)
    BY <2>1, CommitFacts
  <2>5. Atomic!Insert(w)
    BY <1>1, <2>3, <2>4, SameSize DEF Atomic!Insert, Atomic!Return, Asked, Returned
  <2>6. QED
    BY <2>5 DEF Atomic!Next
<1>4. CASE CommitUnanswered(w)
  <2>1. Committed(w) /\ Leave(w)
    BY <1>4 DEF CommitUnanswered
  <2>2. certs' = certs \cup RowSet(w)
    BY <2>1, CommitFacts
  <2>3. Asked' = [Asked EXCEPT ![w] = {}] /\ Returned' = Returned
    BY <1>1, <2>1, MappedLeave DEF Returned
  <2>4. Atomic!AnswerLost(w)
    BY <1>1, <2>2, <2>3 DEF Atomic!AnswerLost, Atomic!Return, Asked, Returned
  <2>5. QED
    BY <2>4 DEF Atomic!Next
<1>5. CASE InsertFails(w) \/ Victim(w)
  <2>1. Leave(w) /\ certs' = certs
    BY <1>5 DEF InsertFails, Victim
  <2>2. Asked' = [Asked EXCEPT ![w] = {}] /\ Returned' = Returned
    BY <1>1, <2>1, MappedLeave DEF Returned
  <2>3. Atomic!Refuse(w)
    BY <2>1, <2>2 DEF Atomic!Refuse, Atomic!Return, Asked, Returned
  <2>4. QED
    BY <2>3 DEF Atomic!Next
<1>6. QED
  BY <1>2, <1>3, <1>4, <1>5 DEF InsertStep, Proceed

LEMMA AtomicStep == Inv /\ [Next]_vars => [Atomic!Next]_Atomic!atomicVars
<1> SUFFICES ASSUME Inv, [Next]_vars
             PROVE  Atomic!Next \/ UNCHANGED Atomic!atomicVars
  OBVIOUS
<1>1. ASSUME NEW w \in Writers, NEW b \in Batches[w], Begin(w, b)
      PROVE  Atomic!Next
  <2>1. /\ stage[w] = "idle" /\ certs' = certs /\ inserted' = inserted
        /\ stage' = [stage EXCEPT ![w] = "insert"] /\ rows' = [rows EXCEPT ![w] = b]
    BY <1>1 DEF Begin, BeginInsert, Goto
  <2>2. stage \in [Writers -> Stage] /\ rows \in [Writers -> Seq(Certs)] /\ b \in Seq(Certs)
    BY TablesAssumption DEF Inv, TypeOK, InsertTypeOK
  <2>3. stage'[w] = "insert" /\ rows'[w] = b
    BY <2>1, <2>2
  <2>4. \A v \in Writers \ {w} : stage'[v] = stage[v] /\ rows'[v] = rows[v]
    BY <2>1, <2>2
  <2>5. Asked[w] = {} /\ Returned[w] = 0
    BY <2>1 DEF Asked, Returned
  <2>6. PICK S : S = {b[i] : i \in 1 .. Len(b)}
    OBVIOUS
  <2>7. S \in SUBSET Certs
    BY <2>2, <2>6
  <2>8. RowSet(w)' = S
    BY <2>3, <2>6 DEF RowSet
  <2>9. Asked' = [Asked EXCEPT ![w] = S] /\ Returned' = [Returned EXCEPT ![w] = 0]
    BY <2>1, <2>3, <2>4, <2>8, MappedAtOne
  <2>10. Returned' = Returned
    BY <2>5, <2>9 DEF Returned
  <2>11. Atomic!Call(w, S)
    BY <2>1, <2>5, <2>9, <2>10 DEF Atomic!Call, Asked, Returned
  <2>12. QED
    BY <2>7, <2>11 DEF Atomic!Next
<1>2. ASSUME NEW w \in Writers, Transact(w)
      PROVE  Atomic!Next \/ UNCHANGED Atomic!atomicVars
  BY <1>2, AtomicTransact DEF Transact
<1>3. ASSUME NEW w \in Writers, EndFlush(w)
      PROVE  Atomic!Next
  <2>1. stage[w] = "flush" /\ Leave(w) /\ certs' = certs
    BY <1>3 DEF EndFlush
  <2>2. Asked[w] = {}
    BY <2>1 DEF Asked
  <2>3. Asked' = Asked /\ Returned' = [Returned EXCEPT ![w] = 0]
    BY <2>1, <2>2, MappedLeave DEF Asked
  <2>4. Atomic!EndFlush(w)
    BY <2>1, <2>3 DEF Atomic!EndFlush, Asked, Returned
  <2>5. QED
    BY <2>4 DEF Atomic!Next
<1>4. ASSUME NEW w \in Writers, Crash(w)
      PROVE  Atomic!Next
  <2>1. Leave(w) /\ certs' = certs
    BY <1>4 DEF Crash, InsertCrash
  <2>2. Asked' = [Asked EXCEPT ![w] = {}] /\ Returned' = [Returned EXCEPT ![w] = 0]
    BY <2>1, MappedLeave
  <2>3. CASE stage[w] = "flush"
    <3>1. Asked' = Asked
      BY <2>2, <2>3 DEF Asked
    <3>2. Atomic!EndFlush(w)
      BY <2>1, <2>2, <3>1 DEF Atomic!EndFlush, Asked, Returned
    <3>3. QED
      BY <3>2 DEF Atomic!Next
  <2>4. CASE stage[w] # "flush"
    <3>1. Returned' = Returned
      BY <2>2, <2>4 DEF Returned
    <3>2. Atomic!Refuse(w)
      BY <2>1, <2>2, <3>1 DEF Atomic!Refuse, Atomic!Return, Asked, Returned
    <3>3. QED
      BY <3>2 DEF Atomic!Next
  <2>5. QED
    BY <2>3, <2>4
<1>5. ASSUME UNCHANGED <<certs, stage, rows, inserted>>
      PROVE  UNCHANGED Atomic!atomicVars
  <2>1. Asked' = Asked /\ Returned' = Returned
    BY <1>5 DEF Asked, Returned, RowSet
  <2>2. QED
    BY <1>5, <2>1, AtomicStutters
<1>6. CASE Prune \/ NextDay \/ UNCHANGED vars
           \/ \E w \in Writers : \E p \in naming[w] : UpsertName(w, p[1], p[2])
  <2>1. UNCHANGED <<certs, stage, rows, inserted>>
    BY <1>6 DEF Prune, NextDay, vars, insertVars, UpsertName
  <2>2. QED
    BY <1>5, <2>1
<1>7. QED
  BY <1>1, <1>2, <1>3, <1>4, <1>6 DEF Next, FlushStep

(* The row by row transactions of all the processes, with their waits,      *)
(* rollbacks and deadlocks, are inserts of whole batches one after the      *)
(* other, with the right number returned (src/store/certs.rs,               *)
(* insert_batch).                                                           *)
THEOREM InsertIsAtomic == Spec => InsertsAtomically
BY AtomicInit, AtomicStep, TablesInvariance, PTL DEF Spec, InsertsAtomically, Atomic!Spec

-----------------------------------------------------------------------------
(* The transaction that has the row w waits for is open itself.             *)
LEMMA WaitsForOpen ==
    ASSUME Inv, NEW w \in Writers, Waits(w)
    PROVE  owner[RowOf(w)] \in Writers /\ stage[owner[RowOf(w)]] = "insert"
<1>1. TypeOK /\ MoreRows(w) /\ done[w] \in 0 .. Len(rows[w])
  BY DEF Inv, Waits, TransactionOK
<1>2. RowOf(w) \in Certs
  BY <1>1, RowTypes
<1>3. owner[RowOf(w)] \in Writers
  BY <1>1, <1>2 DEF Waits, TypeOK, InsertTypeOK
<1>4. RowOf(w) \in Owned(owner[RowOf(w)])
  BY <1>2 DEF Owned
<1>5. QED
  BY <1>3, <1>4 DEF Inv, TransactionOK

(* Where every open transaction waits for another there is a cycle: a least *)
(* set of open transactions that contains whom its members wait for is one, *)
(* since those it waits for are such a set, too.                            *)
LEMMA CycleAmongWaiters ==
    ASSUME Inv, NEW u \in Writers, stage[u] = "insert",
           \A w \in Writers : stage[w] = "insert" => Waits(w)
    PROVE  \E w \in Writers : stage[w] = "insert" /\ Deadlocked(w)
<1> DEFINE Open == {w \in Writers : stage[w] = "insert"}
           Holders(S) == {owner[RowOf(v)] : v \in S}
           Closed == {S \in SUBSET Open : S # {} /\ Holders(S) \subseteq S}
<1>1. \A S \in SUBSET Open : Holders(S) \subseteq Open
  BY WaitsForOpen
<1>2. Open \in Closed
  BY <1>1
<1>3. IsFiniteSet(Open)
  BY InsertAssumption, FS_Subset
<1>4. Closed \subseteq FiniteSubsetsOf(Open)
  BY <1>3, FS_Subset DEF FiniteSubsetsOf
<1>5. PICK S \in Closed : \A T \in Closed : <<T, S>> \notin StrictSubsetOrdering(Open)
  <2> HIDE DEF Closed, Open
  <2>1. QED
    BY <1>2, <1>4, FS_StrictSubsetOrderingWellFounded, WFMin
<1>6. Holders(S) \in Closed
  <2>1. S \in SUBSET Open /\ S # {} /\ Holders(S) \subseteq S
    BY <1>5
  <2>2. Holders(S) # {} /\ Holders(S) \in SUBSET Open
    BY <2>1
  <2>3. Holders(Holders(S)) \subseteq Holders(S)
    BY <2>1
  <2>4. QED
    BY <2>2, <2>3
<1>7. Holders(S) = S
  BY <1>5, <1>6 DEF StrictSubsetOrdering
<1>8. PICK w \in S : TRUE
  BY <1>5
<1>9. w \in Writers /\ stage[w] = "insert"
  BY <1>5
<1>10. Deadlocked(w)
  <2>1. S \in SUBSET Writers /\ \A v \in S : Waits(v)
    BY <1>5
  <2>2. QED
    BY <1>7, <1>8, <2>1 DEF Deadlocked
<1>11. QED
  BY <1>9, <1>10

(* While a transaction is open, one can go on or is in a cycle the database *)
(* will break: waits end in nothing but a cycle, for any number of          *)
(* processes (src/store/certs.rs, insert_batch).                            *)
THEOREM AlwaysAWay == Spec => []NobodyStuck
<1>1. Inv => NobodyStuck
  BY CycleAmongWaiters DEF NobodyStuck
<1>2. QED
  BY <1>1, TablesInvariance, PTL
=============================================================================
