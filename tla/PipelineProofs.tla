--------------------------- MODULE PipelineProofs ---------------------------
(***************************************************************************)
(* Pipeline for every value of the constants: any logs, any number of      *)
(* workers for each, any batch size and capacity, and any choice of the    *)
(* failures that may happen. First the ingest side, then the writer, then  *)
(* the theorems about the whole of it.                                     *)
(***************************************************************************)
EXTENDS Pipeline, FiniteSetTheorems, TLAPS

-----------------------------------------------------------------------------
(* The inductive invariant of the ingest side. A worker between reading its *)
(* cursor and advancing it has handed over all that lies below its next     *)
(* entry, whatever other workers of the log did meanwhile.                  *)
RowExists ==
    \A w \in Workers : wpc[w] \notin {"start", "dead"} => cursor[LogOf[w]] >= 0

TargetPublished ==
    \A w \in Workers :
        /\ wpc[w] \in {"skip", "fetch", "send"} => target[w] <= tree[LogOf[w]]
        /\ wpc[w] = "fetch" => pos[w] < target[w]
        /\ wpc[w] = "send" => pos[w] <= target[w]

HandedBelow(l, p) == \A i \in 0 .. p - 1 : i >= base[l] => JobOf(l, i) \in handed

PosHanded ==
    \A w \in Workers : wpc[w] \in {"sth", "fetch", "send"} => HandedBelow(LogOf[w], pos[w])

BaseBelowCursor == \A l \in Logs : base[l] <= cursor[l]

IngestInv ==
    /\ QueueTypeOK
    /\ WorkerTypeOK
    /\ RowExists
    /\ TargetPublished
    /\ BaseBelowCursor

-----------------------------------------------------------------------------
(* Advance never takes a cursor back (cursors::advance, cursors::upsert). *)
LEMMA AdvanceFacts ==
    ASSUME NEW old \in Nat \cup {NoRow}, NEW new \in Nat
    PROVE  /\ Advance(old, new) \in Nat
           /\ Advance(old, new) >= old /\ Advance(old, new) >= new
           /\ Advance(old, new) \in {old, new}
           /\ Upsert(old) \in Nat /\ Upsert(old) >= old
BY DEF Advance, Upsert, NoRow

(* An entry below the published tree size is a job. *)
LEMMA JobOfIsJob ==
    ASSUME NEW l \in Logs, NEW i \in Nat, i < Len(Entries[l])
    PROVE  JobOf(l, i) \in Jobs
BY DEF JobOf, Jobs

LEMMA LogOfType == ASSUME NEW w \in Workers PROVE LogOf[w] \in Logs
BY WorkersAssumption

LEMMA EntriesLen == ASSUME NEW l \in Logs PROVE Len(Entries[l]) \in Nat
<1>1. Entries[l] \in Seq(Certs \cup {Undecodable, Ignored})
  BY EntriesAssumption
<1> QED  BY <1>1

-----------------------------------------------------------------------------
LEMMA IngestInvInit == Init => IngestInv
BY FaultsAssumption, ChannelAssumption, EntriesLen
   DEF Init, QueueInit, WorkerInit, IngestInv, QueueTypeOK, WorkerTypeOK,
       RowExists, TargetPublished, BaseBelowCursor, NoRow, NotFollowed, WorkerPC

(* A worker's jump to another point of its loop. *)
LEMMA GotoType ==
    ASSUME wpc \in [Workers -> WorkerPC], NEW w \in Workers, NEW pc \in WorkerPC, Goto(w, pc)
    PROVE  /\ wpc' \in [Workers -> WorkerPC]
           /\ wpc'[w] = pc
           /\ \A v \in Workers : v # w => wpc'[v] = wpc[v]
BY DEF Goto

LEMMA IngestInvWorker ==
    ASSUME IngestInv, NEW w \in Workers, WorkerStep(w)
    PROVE  IngestInv'
<1> DEFINE l == LogOf[w]
<1>l. l \in Logs
  BY LogOfType
<1>t. /\ tree \in [Logs -> Nat] /\ \A k \in Logs : tree[k] <= Len(Entries[k])
      /\ cursor \in [Logs -> Nat \cup {NoRow}]
      /\ wpc \in [Workers -> WorkerPC]
      /\ pos \in [Workers -> Nat] /\ target \in [Workers -> Nat]
      /\ base \in [Logs -> Nat \cup {NotFollowed}] /\ handed \subseteq Jobs
      /\ QueueTypeOK /\ RowExists /\ TargetPublished /\ BaseBelowCursor
  BY DEF IngestInv, WorkerTypeOK
<1>i. \A k \in Logs : cursor[k] \in Int /\ base[k] \in Int /\ base[k] <= cursor[k]
  BY <1>t DEF NoRow, NotFollowed, BaseBelowCursor
<1>c. cursor[l] \in Nat \cup {NoRow}
  BY <1>l, <1>t
<1> HIDE DEF l
<1>1. CASE EnsureCursor(w)
  <2>1. Goto(w, "poll") /\ cursor' = [cursor EXCEPT ![l] = Upsert(cursor[l])]
        /\ Upsert(cursor[l]) \in Nat /\ Upsert(cursor[l]) >= cursor[l]
        /\ UNCHANGED <<tree, pos, target, base, handed, chan, faults>>
    BY <1>1, <1>c, AdvanceFacts DEF EnsureCursor, l
  <2>3. /\ cursor' \in [Logs -> Nat \cup {NoRow}] /\ cursor'[l] >= 0
        /\ \A k \in Logs : cursor'[k] >= cursor[k]
    BY <1>t, <1>l, <1>i, <2>1 DEF NoRow
  <2>4. WorkerTypeOK'
    BY <1>t, <2>1, <2>3, GotoType DEF WorkerTypeOK, WorkerPC
  <2>5. RowExists'
    BY <1>t, <1>i, <2>1, <2>3, GotoType, LogOfType DEF RowExists, WorkerPC, NoRow, l
  <2>6. TargetPublished'
    BY <1>t, <2>1, GotoType, LogOfType DEF TargetPublished, WorkerPC, l
  <2>7. BaseBelowCursor'
    BY <1>i, <2>1, <2>3 DEF BaseBelowCursor, NoRow
  <2>8. QueueTypeOK'
    BY <1>t, <2>1 DEF QueueTypeOK
  <2> QED
    BY <2>4, <2>5, <2>6, <2>7, <2>8 DEF IngestInv
<1>2. CASE EnsureCursorFails(w)
  <2>1. Goto(w, "dead")
        /\ cursor' \in {cursor, [cursor EXCEPT ![l] = Upsert(cursor[l])]}
        /\ Upsert(cursor[l]) \in Nat /\ Upsert(cursor[l]) >= cursor[l]
        /\ May("upsert")
        /\ UNCHANGED <<tree, pos, target, base, handed, chan>>
    BY <1>2, <1>c, AdvanceFacts DEF EnsureCursorFails, l
  <2>3. /\ cursor' \in [Logs -> Nat \cup {NoRow}]
        /\ \A k \in Logs : cursor'[k] >= cursor[k]
    <3>1. CASE cursor' = cursor
      BY <3>1, <1>t, <1>i
    <3>2. CASE cursor' = [cursor EXCEPT ![l] = Upsert(cursor[l])]
      BY <3>2, <1>t, <1>l, <1>i, <2>1 DEF NoRow
    <3> QED
      BY <3>1, <3>2, <2>1
  <2>w. wpc'[w] = "dead" /\ \A v \in Workers : v # w => wpc'[v] = wpc[v]
    BY <1>t, <2>1, GotoType DEF WorkerPC
  <2>4. WorkerTypeOK'
    BY <1>t, <2>1, <2>3, GotoType DEF WorkerTypeOK, WorkerPC
  <2>5. RowExists'
    BY <1>t, <1>i, <2>w, <2>3, LogOfType DEF RowExists, NoRow
  <2>6. TargetPublished'
    BY <1>t, <2>1, GotoType, LogOfType DEF TargetPublished, WorkerPC, l
  <2>7. BaseBelowCursor'
    BY <1>i, <2>1, <2>3 DEF BaseBelowCursor, NoRow
  <2>8. QueueTypeOK'
    BY <1>t, <2>1 DEF QueueTypeOK, May
  <2> QED
    BY <2>4, <2>5, <2>6, <2>7, <2>8 DEF IngestInv
<1>3. CASE ReadCursor(w)
  <2>1. wpc[w] = "poll" /\ Goto(w, "sth") /\ pos' = [pos EXCEPT ![w] = cursor[l]]
        /\ UNCHANGED <<tree, cursor, target, base, handed, chan, faults>>
    BY <1>3 DEF ReadCursor, l
  <2>2. cursor[l] \in Nat
    <3>1. cursor[l] >= 0
      BY <1>t, <2>1 DEF RowExists, l
    <3> QED
      BY <3>1, <1>c DEF NoRow
  <2>4. WorkerTypeOK'
    BY <1>t, <2>1, <2>2, GotoType DEF WorkerTypeOK, WorkerPC
  <2>5. RowExists'
    BY <1>t, <2>1, GotoType, LogOfType DEF RowExists, WorkerPC, l
  <2>6. TargetPublished'
    BY <1>t, <2>1, GotoType, LogOfType DEF TargetPublished, WorkerPC, l
  <2>7. BaseBelowCursor'
    BY <1>i, <2>1 DEF BaseBelowCursor
  <2>8. QueueTypeOK'
    BY <1>t, <2>1 DEF QueueTypeOK
  <2> QED
    BY <2>4, <2>5, <2>6, <2>7, <2>8 DEF IngestInv
<1>4. ASSUME NEW s \in 0 .. tree[l], GetSth(w, s)
      PROVE  IngestInv'
  <2>1. wpc[w] = "sth" /\ Goto(w, AfterSth(pos[w], s)) /\ target' = [target EXCEPT ![w] = s]
        /\ UNCHANGED <<tree, cursor, pos, handed, chan, faults>>
    BY <1>4 DEF GetSth
  <2>2. s \in Nat /\ s <= tree[l] /\ AfterSth(pos[w], s) \in {"skip", "poll", "fetch"}
        /\ (AfterSth(pos[w], s) = "fetch" => pos[w] < s)
    BY <1>l, <1>t DEF AfterSth
  <2>3. cursor[l] >= 0
    BY <1>t, <2>1 DEF RowExists, l
  <2>b. base' \in [Logs -> Nat \cup {NotFollowed}] /\ \A k \in Logs : base'[k] <= cursor[k]
    BY <1>4, <1>t, <1>i, <1>l, <2>3 DEF GetSth, l, NotFollowed
  <2>4. WorkerTypeOK'
    BY <1>t, <2>1, <2>2, <2>b, GotoType DEF WorkerTypeOK, WorkerPC
  <2>5. RowExists'
    BY <1>t, <2>1, <2>2, <2>3, GotoType, LogOfType DEF RowExists, WorkerPC, l
  <2>6. TargetPublished'
    BY <1>t, <2>1, <2>2, GotoType, LogOfType DEF TargetPublished, WorkerPC, l
  <2>7. BaseBelowCursor'
    BY <2>1, <2>b DEF BaseBelowCursor
  <2>8. QueueTypeOK'
    BY <1>t, <2>1 DEF QueueTypeOK
  <2> QED
    BY <2>4, <2>5, <2>6, <2>7, <2>8 DEF IngestInv
<1>5. CASE SkipToHead(w)
  <2>1. wpc[w] = "skip" /\ Goto(w, "poll")
        /\ cursor' = [cursor EXCEPT ![l] = Advance(cursor[l], target[w])]
        /\ Advance(cursor[l], target[w]) \in Nat
        /\ Advance(cursor[l], target[w]) >= cursor[l]
        /\ Advance(cursor[l], target[w]) >= target[w]
        /\ UNCHANGED <<tree, pos, target, handed, chan, faults>>
    BY <1>5, <1>c, <1>t, AdvanceFacts DEF SkipToHead, l
  <2>3. /\ cursor' \in [Logs -> Nat \cup {NoRow}] /\ cursor'[l] >= target[w] /\ cursor'[l] >= 0
        /\ \A k \in Logs : cursor'[k] >= cursor[k]
    BY <1>t, <1>l, <1>i, <2>1 DEF NoRow
  <2>b. base' \in [Logs -> Nat \cup {NotFollowed}] /\ \A k \in Logs : base'[k] <= cursor'[k]
    BY <1>5, <1>t, <1>i, <1>l, <2>3 DEF SkipToHead, l, NotFollowed, NoRow
  <2>4. WorkerTypeOK'
    BY <1>t, <2>1, <2>3, <2>b, GotoType DEF WorkerTypeOK, WorkerPC
  <2>5. RowExists'
    BY <1>t, <1>i, <2>1, <2>3, GotoType, LogOfType DEF RowExists, WorkerPC, NoRow, l
  <2>6. TargetPublished'
    BY <1>t, <2>1, GotoType, LogOfType DEF TargetPublished, WorkerPC, l
  <2>7. BaseBelowCursor'
    BY <2>b DEF BaseBelowCursor
  <2>8. QueueTypeOK'
    BY <1>t, <2>1 DEF QueueTypeOK
  <2> QED
    BY <2>4, <2>5, <2>6, <2>7, <2>8 DEF IngestInv
<1>6. ASSUME NEW n \in 0 .. BatchSize, GetEntries(w, n)
      PROVE  IngestInv'
  <2>1. wpc[w] = "fetch" /\ Goto(w, IF n = 0 THEN "poll" ELSE "send")
        /\ target' = [target EXCEPT ![w] = pos[w] + n] /\ n <= Wanted(pos[w], target[w])
        /\ UNCHANGED <<tree, cursor, pos, base, handed, chan, faults>>
    BY <1>6 DEF GetEntries
  <2>2. n \in Nat /\ pos[w] + n \in Nat /\ pos[w] <= pos[w] + n /\ pos[w] + n <= target[w]
    BY <1>t, <2>1, WorkersAssumption DEF Wanted, TargetPublished
  <2>4. WorkerTypeOK'
    BY <1>t, <2>1, <2>2, GotoType DEF WorkerTypeOK, WorkerPC
  <2>5. RowExists'
    BY <1>t, <2>1, GotoType, LogOfType DEF RowExists, WorkerPC, l
  <2>6. TargetPublished'
    BY <1>t, <1>l, <2>1, <2>2, GotoType, LogOfType DEF TargetPublished, WorkerPC, l
  <2>7. BaseBelowCursor'
    BY <1>i, <2>1 DEF BaseBelowCursor
  <2>8. QueueTypeOK'
    BY <1>t, <2>1 DEF QueueTypeOK
  <2> QED
    BY <2>4, <2>5, <2>6, <2>7, <2>8 DEF IngestInv
<1>7. CASE SendEntry(w)
  <2>1. wpc[w] = "send" /\ pos[w] < target[w] /\ HasRoom
        /\ chan' = Append(chan, JobOf(l, pos[w]))
        /\ handed' = handed \cup {JobOf(l, pos[w])}
        /\ pos' = [pos EXCEPT ![w] = pos[w] + 1]
        /\ UNCHANGED <<tree, cursor, wpc, target, base, faults>>
    BY <1>7 DEF SendEntry, l
  <2>2. JobOf(l, pos[w]) \in Jobs
    <3>1. target[w] <= tree[l] /\ tree[l] <= Len(Entries[l])
      BY <1>l, <1>t, <2>1 DEF TargetPublished, l
    <3>2. pos[w] \in Nat /\ target[w] \in Nat /\ tree[l] \in Nat /\ Len(Entries[l]) \in Nat
      BY <1>l, <1>t, EntriesLen
    <3>3. pos[w] < Len(Entries[l])
      BY <2>1, <3>1, <3>2
    <3> QED
      BY <1>l, <3>2, <3>3, JobOfIsJob
  <2>4. WorkerTypeOK'
    BY <1>t, <2>1, <2>2 DEF WorkerTypeOK
  <2>5. RowExists'
    BY <1>t, <2>1 DEF RowExists
  <2>6. TargetPublished'
    BY <1>t, <2>1 DEF TargetPublished
  <2>7. BaseBelowCursor'
    BY <1>i, <2>1 DEF BaseBelowCursor
  <2>8. QueueTypeOK'
    BY <1>t, <2>1, <2>2, ChannelAssumption DEF QueueTypeOK, HasRoom
  <2> QED
    BY <2>4, <2>5, <2>6, <2>7, <2>8 DEF IngestInv
<1>8. CASE DecodeFails(w)
  <2>1. wpc[w] = "send" /\ Goto(w, "poll")
        /\ UNCHANGED <<tree, cursor, pos, target, base, handed, chan, faults>>
    BY <1>8 DEF DecodeFails
  <2>4. WorkerTypeOK'
    BY <1>t, <2>1, GotoType DEF WorkerTypeOK, WorkerPC
  <2>5. RowExists'
    BY <1>t, <2>1, GotoType, LogOfType DEF RowExists, WorkerPC, l
  <2>6. TargetPublished'
    BY <1>t, <2>1, GotoType, LogOfType DEF TargetPublished, WorkerPC, l
  <2>7. BaseBelowCursor'
    BY <1>i, <2>1 DEF BaseBelowCursor
  <2>8. QueueTypeOK'
    BY <1>t, <2>1 DEF QueueTypeOK
  <2> QED
    BY <2>4, <2>5, <2>6, <2>7, <2>8 DEF IngestInv
<1>9. CASE AdvanceCursor(w)
  <2>1. wpc[w] = "send" /\ Goto(w, "poll")
        /\ cursor' = [cursor EXCEPT ![l] = Advance(cursor[l], target[w])]
        /\ Advance(cursor[l], target[w]) \in Nat
        /\ Advance(cursor[l], target[w]) >= cursor[l]
        /\ UNCHANGED <<tree, pos, target, base, handed, chan, faults>>
    BY <1>9, <1>c, <1>t, AdvanceFacts DEF AdvanceCursor, l
  <2>3. /\ cursor' \in [Logs -> Nat \cup {NoRow}] /\ cursor'[l] >= 0
        /\ \A k \in Logs : cursor'[k] >= cursor[k]
    BY <1>t, <1>l, <1>i, <2>1 DEF NoRow
  <2>4. WorkerTypeOK'
    BY <1>t, <2>1, <2>3, GotoType DEF WorkerTypeOK, WorkerPC
  <2>5. RowExists'
    BY <1>t, <1>i, <2>1, <2>3, GotoType, LogOfType DEF RowExists, WorkerPC, NoRow, l
  <2>6. TargetPublished'
    BY <1>t, <2>1, GotoType, LogOfType DEF TargetPublished, WorkerPC, l
  <2>7. BaseBelowCursor'
    BY <1>i, <2>1, <2>3 DEF BaseBelowCursor, NoRow
  <2>8. QueueTypeOK'
    BY <1>t, <2>1 DEF QueueTypeOK
  <2> QED
    BY <2>4, <2>5, <2>6, <2>7, <2>8 DEF IngestInv
<1>10. CASE TickFails(w)
  <2>1. wpc[w] \in {"poll", "sth", "skip", "fetch", "send"} /\ Goto(w, "poll") /\ May("tick")
        /\ UNCHANGED <<tree, cursor, pos, target, base, handed, chan>>
    BY <1>10 DEF TickFails
  <2>4. WorkerTypeOK'
    BY <1>t, <2>1, GotoType DEF WorkerTypeOK, WorkerPC
  <2>5. RowExists'
    BY <1>t, <2>1, GotoType, LogOfType DEF RowExists, WorkerPC, l
  <2>6. TargetPublished'
    BY <1>t, <2>1, GotoType, LogOfType DEF TargetPublished, WorkerPC, l
  <2>7. BaseBelowCursor'
    BY <1>i, <2>1 DEF BaseBelowCursor
  <2>8. QueueTypeOK'
    BY <1>t, <2>1 DEF QueueTypeOK, May
  <2> QED
    BY <2>4, <2>5, <2>6, <2>7, <2>8 DEF IngestInv
<1> QED
  BY <1>1, <1>2, <1>3, <1>4, <1>5, <1>6, <1>7, <1>8, <1>9, <1>10 DEF WorkerStep, l

-----------------------------------------------------------------------------
(* What was handed over below p stays so while the jobs handed over only    *)
(* grow and the log is not followed from an earlier index.                  *)
LEMMA HandedBelowKept ==
    ASSUME NEW k \in Logs, NEW p \in Int, HandedBelow(k, p),
           base[k] \in Int, base'[k] \in Int, base'[k] >= base[k], handed \subseteq handed'
    PROVE  HandedBelow(k, p)'
BY DEF HandedBelow, JobOf

LEMMA NoGapIsHandedBelow == NoGap <=> \A k \in Logs : HandedBelow(k, cursor[k])
BY DEF NoGap, HandedBelow

(* The history variables only grow. *)
LEMMA HistoryGrows ==
    ASSUME IngestInv, NEW w \in Workers, WorkerStep(w)
    PROVE  /\ handed \subseteq handed'
           /\ \A k \in Logs : base[k] \in Int /\ base'[k] \in Int /\ base'[k] >= base[k]
<1> DEFINE l == LogOf[w]
<1>t. /\ cursor \in [Logs -> Nat \cup {NoRow}] /\ target \in [Workers -> Nat]
      /\ base \in [Logs -> Nat \cup {NotFollowed}]
      /\ \A k \in Logs : cursor[k] \in Int /\ base[k] \in Int /\ base[k] <= cursor[k]
  BY DEF IngestInv, WorkerTypeOK, NoRow, NotFollowed, BaseBelowCursor
<1>1. CASE SkipToHead(w)
  BY <1>1, <1>t, LogOfType DEF SkipToHead, NotFollowed
<1>2. ASSUME NEW s \in 0 .. tree[l], GetSth(w, s)
      PROVE  /\ handed \subseteq handed'
             /\ \A k \in Logs : base[k] \in Int /\ base'[k] \in Int /\ base'[k] >= base[k]
  BY <1>2, <1>t, LogOfType DEF GetSth, NotFollowed
<1>3. CASE SendEntry(w)
  BY <1>3, <1>t DEF SendEntry
<1>4. CASE \/ EnsureCursor(w) \/ EnsureCursorFails(w) \/ ReadCursor(w)
           \/ (\E n \in 0 .. BatchSize : GetEntries(w, n))
           \/ DecodeFails(w) \/ AdvanceCursor(w) \/ TickFails(w)
  <2>1. UNCHANGED <<base, handed>>
    BY <1>4 DEF EnsureCursor, EnsureCursorFails, ReadCursor, GetEntries, DecodeFails,
                AdvanceCursor, TickFails
  <2> QED
    BY <2>1, <1>t
<1> QED
  BY <1>1, <1>2, <1>3, <1>4 DEF WorkerStep

(* NoGap and PosHanded together are inductive. *)
HandedInv == NoGap /\ PosHanded

LEMMA HandedInvWorker ==
    ASSUME IngestInv, HandedInv, NEW w \in Workers, WorkerStep(w)
    PROVE  HandedInv'
<1> DEFINE l == LogOf[w]
<1>l. l \in Logs
  BY LogOfType
<1>t. /\ cursor \in [Logs -> Nat \cup {NoRow}] /\ wpc \in [Workers -> WorkerPC]
      /\ pos \in [Workers -> Nat] /\ target \in [Workers -> Nat]
      /\ \A k \in Logs : cursor[k] \in Int
      /\ RowExists
  BY DEF IngestInv, WorkerTypeOK, NoRow
<1>n. \A k \in Logs : HandedBelow(k, cursor[k])
  BY NoGapIsHandedBelow DEF HandedInv
<1>p. \A v \in Workers : wpc[v] \in {"sth", "fetch", "send"} => HandedBelow(LogOf[v], pos[v])
  BY DEF HandedInv, PosHanded
<1> DEFINE Below(k, p) == \A i \in 0 .. p - 1 : i >= base'[k] => JobOf(k, i) \in handed'
<1>h. \A k \in Logs : \A p \in Int : HandedBelow(k, p) => Below(k, p)
  <2>1. /\ handed \subseteq handed'
        /\ \A k \in Logs : base[k] \in Int /\ base'[k] \in Int /\ base'[k] >= base[k]
    BY HistoryGrows
  <2> QED
    BY <2>1 DEF HandedBelow
<1>b. \A k \in Logs : Below(k, cursor[k])
  BY <1>n, <1>h, <1>t
<1>v. \A v \in Workers : wpc[v] \in {"sth", "fetch", "send"} => Below(LogOf[v], pos[v])
  BY <1>p, <1>h, <1>t, LogOfType
<1>g. ASSUME \A k \in Logs : Below(k, cursor'[k]),
             \A v \in Workers : wpc'[v] \in {"sth", "fetch", "send"} => Below(LogOf[v], pos'[v])
      PROVE  HandedInv'
  BY <1>g DEF HandedInv, NoGap, PosHanded, HandedBelow, JobOf
<1> HIDE DEF Below, l
<1>z. \A k \in Logs : Below(k, 0)
  BY DEF Below
<1>1. CASE EnsureCursor(w)
  <2>1. \A k \in Logs : cursor'[k] \in {cursor[k], 0}
    BY <1>1, <1>t DEF EnsureCursor, Upsert
  <2>2. pos' = pos /\ wpc'[w] = "poll" /\ \A v \in Workers : v # w => wpc'[v] = wpc[v]
    BY <1>1, <1>t, GotoType DEF EnsureCursor, WorkerPC
  <2> QED
    BY <2>1, <2>2, <1>b, <1>z, <1>v, <1>g
<1>2. CASE EnsureCursorFails(w)
  <2>1. \A k \in Logs : cursor'[k] \in {cursor[k], 0}
    BY <1>2, <1>t DEF EnsureCursorFails, Upsert
  <2>2. pos' = pos /\ wpc'[w] = "dead" /\ \A v \in Workers : v # w => wpc'[v] = wpc[v]
    BY <1>2, <1>t, GotoType DEF EnsureCursorFails, WorkerPC
  <2> QED
    BY <2>1, <2>2, <1>b, <1>z, <1>v, <1>g
<1>3. CASE ReadCursor(w)
  <2>1. cursor' = cursor /\ pos'[w] = cursor[l] /\ wpc'[w] = "sth"
        /\ \A v \in Workers : v # w => wpc'[v] = wpc[v] /\ pos'[v] = pos[v]
    BY <1>3, <1>t, GotoType DEF ReadCursor, WorkerPC, l
  <2> QED
    BY <2>1, <1>b, <1>v, <1>g, <1>l DEF l
<1>4. ASSUME NEW s \in 0 .. tree[l], GetSth(w, s)
      PROVE  HandedInv'
  <2>1. cursor' = cursor /\ pos' = pos /\ wpc[w] = "sth"
        /\ \A v \in Workers : v # w => wpc'[v] = wpc[v]
    BY <1>4, <1>t DEF GetSth, Goto
  <2> QED
    BY <2>1, <1>b, <1>v, <1>g
<1>5. CASE SkipToHead(w)
  <2>1. pos' = pos /\ wpc'[w] = "poll" /\ \A v \in Workers : v # w => wpc'[v] = wpc[v]
    BY <1>5, <1>t, GotoType DEF SkipToHead, WorkerPC
  <2>2. \A k \in Logs : cursor'[k] = cursor[k] \/ base'[k] = cursor'[k]
    <3>1. \A k \in Logs : base[k] \in Int
      BY HistoryGrows
    <3>2. cursor' = [cursor EXCEPT ![l] = Advance(cursor[l], target[w])]
          /\ base' = [base EXCEPT ![l] = IF cursor[l] < target[w] THEN target[w] ELSE base[l]]
      BY <1>5 DEF SkipToHead, l
    <3>3. base \in [Logs -> Nat \cup {NotFollowed}]
      BY DEF IngestInv, WorkerTypeOK
    <3> QED
      BY <1>t, <1>l, <3>2, <3>3 DEF Advance
  <2>3. ASSUME NEW k \in Logs
        PROVE  Below(k, cursor'[k])
    <3>1. CASE cursor'[k] = cursor[k]
      BY <3>1, <1>b
    <3>2. CASE base'[k] = cursor'[k]
      <4>1. base'[k] \in Int
        BY HistoryGrows
      <4> QED
        BY <3>2, <4>1 DEF Below
    <3> QED
      BY <3>1, <3>2, <2>2
  <2> QED
    BY <2>1, <2>3, <1>v, <1>g
<1>6. ASSUME NEW n \in 0 .. BatchSize, GetEntries(w, n)
      PROVE  HandedInv'
  <2>1. cursor' = cursor /\ pos' = pos /\ wpc[w] = "fetch"
        /\ \A v \in Workers : v # w => wpc'[v] = wpc[v]
    BY <1>6, <1>t DEF GetEntries, Goto
  <2> QED
    BY <2>1, <1>b, <1>v, <1>g
<1>7. CASE SendEntry(w)
  <2>1. cursor' = cursor /\ wpc' = wpc /\ wpc[w] = "send" /\ pos'[w] = pos[w] + 1
        /\ JobOf(l, pos[w]) \in handed'
        /\ \A v \in Workers : v # w => pos'[v] = pos[v]
    BY <1>7, <1>t DEF SendEntry, l
  <2>2. Below(l, pos[w])
    BY <2>1, <1>v DEF l
  <2>3. Below(l, pos[w] + 1)
    BY <2>1, <2>2, <1>t DEF Below
  <2> QED
    BY <2>1, <2>3, <1>b, <1>v, <1>g DEF l
<1>8. CASE DecodeFails(w)
  <2>1. cursor' = cursor /\ pos' = pos /\ wpc[w] = "send"
        /\ \A v \in Workers : v # w => wpc'[v] = wpc[v]
    BY <1>8, <1>t DEF DecodeFails, Goto
  <2> QED
    BY <2>1, <1>b, <1>v, <1>g
<1>9. CASE AdvanceCursor(w)
  <2>1. pos' = pos /\ wpc[w] = "send" /\ pos[w] = target[w]
        /\ \A v \in Workers : v # w => wpc'[v] = wpc[v]
    BY <1>9, <1>t DEF AdvanceCursor, Goto
  <2>2. \A k \in Logs : cursor'[k] = cursor[k] \/ (k = l /\ cursor'[k] = target[w])
    BY <1>9, <1>t, <1>l DEF AdvanceCursor, Advance, l
  <2>3. Below(l, target[w])
    BY <2>1, <1>v DEF l
  <2> QED
    BY <2>1, <2>2, <2>3, <1>b, <1>v, <1>g
<1>10. CASE TickFails(w)
  <2>1. cursor' = cursor /\ pos' = pos /\ wpc'[w] = "poll"
        /\ \A v \in Workers : v # w => wpc'[v] = wpc[v]
    BY <1>10, <1>t, GotoType DEF TickFails, WorkerPC
  <2> QED
    BY <2>1, <1>b, <1>v, <1>g
<1> QED
  BY <1>1, <1>2, <1>3, <1>4, <1>5, <1>6, <1>7, <1>8, <1>9, <1>10 DEF WorkerStep, l

-----------------------------------------------------------------------------
(* A worker's step adds at most one job to the channel, and remembers it. *)
LEMMA WorkerSends ==
    ASSUME IngestInv, NEW w \in Workers, WorkerStep(w)
    PROVE  /\ faults \subseteq faults'
           /\ \/ chan' = chan /\ handed' = handed
              \/ \E j \in Jobs : chan' = Append(chan, j) /\ handed' = handed \cup {j}
<1>1. CASE SendEntry(w)
  <2> DEFINE j == JobOf(LogOf[w], pos[w])
  <2>1. chan' = Append(chan, j) /\ handed' = handed \cup {j} /\ faults' = faults
    BY <1>1 DEF SendEntry
  <2>2. j \in handed' /\ handed' \subseteq Jobs
    <3>1. IngestInv'
      BY IngestInvWorker
    <3> QED
      BY <2>1, <3>1 DEF IngestInv, WorkerTypeOK
  <2> QED
    BY <2>1, <2>2
<1>2. CASE \/ EnsureCursor(w) \/ EnsureCursorFails(w) \/ ReadCursor(w)
           \/ (\E s \in 0 .. tree[LogOf[w]] : GetSth(w, s)) \/ SkipToHead(w)
           \/ (\E n \in 0 .. BatchSize : GetEntries(w, n))
           \/ DecodeFails(w) \/ AdvanceCursor(w) \/ TickFails(w)
  BY <1>2 DEF EnsureCursor, EnsureCursorFails, ReadCursor, GetSth, SkipToHead, GetEntries,
              DecodeFails, AdvanceCursor, TickFails, May
<1> QED
  BY <1>1, <1>2 DEF WorkerStep

(* The log publishing, the writer's steps and a crash. *)
LEMMA IngestPublish ==
    ASSUME IngestInv, HandedInv, NEW l \in Logs, Publish(l)
    PROVE  IngestInv' /\ HandedInv'
<1>1. /\ UNCHANGED <<cursor, wpc, pos, target, base, handed, chan, faults>>
      /\ tree[l] < Len(Entries[l]) /\ tree' = [tree EXCEPT ![l] = @ + 1]
  BY DEF Publish
<1>2. /\ tree' \in [Logs -> Nat]
      /\ \A k \in Logs : tree'[k] >= tree[k] /\ tree'[k] <= Len(Entries[k])
  BY <1>1, EntriesLen DEF IngestInv, WorkerTypeOK
<1>3. QueueTypeOK' /\ WorkerTypeOK' /\ RowExists' /\ BaseBelowCursor' /\ HandedInv'
  BY <1>1, <1>2 DEF IngestInv, QueueTypeOK, WorkerTypeOK, RowExists, BaseBelowCursor,
                    HandedInv, NoGap, PosHanded, HandedBelow
<1>4. TargetPublished'
  <2>1. /\ target \in [Workers -> Nat] /\ tree \in [Logs -> Nat]
        /\ TargetPublished
    BY DEF IngestInv, WorkerTypeOK
  <2> QED
    BY <1>1, <1>2, <2>1, LogOfType DEF TargetPublished
<1> QED
  BY <1>3, <1>4 DEF IngestInv

LEMMA IngestKept ==
    ASSUME IngestInv, HandedInv, UNCHANGED workerVars, QueueTypeOK'
    PROVE  IngestInv' /\ HandedInv'
BY DEF IngestInv, HandedInv, workerVars, WorkerTypeOK, RowExists, TargetPublished,
       BaseBelowCursor, NoGap, PosHanded, HandedBelow

LEMMA IngestCrash ==
    ASSUME IngestInv, HandedInv, Crash
    PROVE  IngestInv' /\ HandedInv'
<1>1. /\ UNCHANGED <<tree, cursor, base, handed>> /\ chan' = <<>>
      /\ wpc' = [w \in Workers |-> "start"]
      /\ pos' = [w \in Workers |-> 0] /\ target' = [w \in Workers |-> 0]
      /\ "crash" \in Faults /\ faults' = faults \cup {"crash"}
  BY DEF Crash, WorkerCrash, Fault
<1>2. QueueTypeOK'
  BY <1>1, ChannelAssumption DEF IngestInv, QueueTypeOK
<1>3. WorkerTypeOK' /\ RowExists' /\ TargetPublished' /\ BaseBelowCursor'
  BY <1>1 DEF IngestInv, WorkerTypeOK, RowExists, TargetPublished, BaseBelowCursor, WorkerPC
<1>4. HandedInv'
  BY <1>1 DEF HandedInv, NoGap, PosHanded, HandedBelow
<1> QED
  BY <1>2, <1>3, <1>4 DEF IngestInv
-----------------------------------------------------------------------------
(* worker.rs, tick: a worker that is about to skip, or may find that it has *)
(* to, read a cursor of 0; so its log is not followed from a later index    *)
(* yet, unless another worker of the log skipped in between.                *)
SkipInv ==
    \A w \in Workers :
        (/\ Alone(LogOf[w])
         /\ wpc[w] = "skip" \/ (wpc[w] = "sth" /\ pos[w] = 0)) => base[LogOf[w]] <= 0

(* Only a worker that finds its log empty or skips sets where the log is    *)
(* followed from, and only that of its own log.                             *)
LEMMA BaseMoves ==
    ASSUME IngestInv, NEW w \in Workers, WorkerStep(w), NEW l \in Logs
    PROVE  \/ base'[l] = base[l]
           \/ l = LogOf[w] /\ wpc[w] = "sth" /\ base[l] = NotFollowed /\ base'[l] = 0
           \/ l = LogOf[w] /\ wpc[w] = "skip" /\ wpc'[w] = "poll"
<1>t. base \in [Logs -> Nat \cup {NotFollowed}] /\ wpc \in [Workers -> WorkerPC]
  BY DEF IngestInv, WorkerTypeOK
<1>1. CASE SkipToHead(w)
  BY <1>1, <1>t DEF SkipToHead, Goto
<1>2. ASSUME NEW s \in 0 .. tree[LogOf[w]], GetSth(w, s)
      PROVE  \/ base'[l] = base[l]
             \/ l = LogOf[w] /\ wpc[w] = "sth" /\ base[l] = NotFollowed /\ base'[l] = 0
  BY <1>2, <1>t DEF GetSth
<1>3. CASE \/ EnsureCursor(w) \/ EnsureCursorFails(w) \/ ReadCursor(w)
           \/ (\E n \in 0 .. BatchSize : GetEntries(w, n))
           \/ SendEntry(w) \/ DecodeFails(w) \/ AdvanceCursor(w) \/ TickFails(w)
  BY <1>3 DEF EnsureCursor, EnsureCursorFails, ReadCursor, GetEntries, SendEntry, DecodeFails,
              AdvanceCursor, TickFails
<1> QED
  BY <1>1, <1>2, <1>3 DEF WorkerStep

LEMMA SkipInvWorker ==
    ASSUME IngestInv, SkipInv, NEW w \in Workers, WorkerStep(w)
    PROVE  SkipInv'
<1> SUFFICES ASSUME NEW v \in Workers, Alone(LogOf[v]),
                    wpc'[v] = "skip" \/ (wpc'[v] = "sth" /\ pos'[v] = 0)
             PROVE  base'[LogOf[v]] <= 0
  BY DEF SkipInv, Alone
<1>t. /\ wpc \in [Workers -> WorkerPC] /\ pos \in [Workers -> Nat]
      /\ base \in [Logs -> Nat \cup {NotFollowed}]
      /\ cursor \in [Logs -> Nat \cup {NoRow}] /\ LogOf[v] \in Logs
      /\ base[LogOf[v]] \in Int /\ base[LogOf[v]] <= cursor[LogOf[v]]
  BY LogOfType DEF IngestInv, WorkerTypeOK, BaseBelowCursor, NotFollowed
<1>1. CASE v # w
  <2>1. LogOf[v] # LogOf[w]
    BY <1>1 DEF Alone
  <2>2. base'[LogOf[v]] = base[LogOf[v]]
    BY <1>t, <2>1, BaseMoves
  <2>3. wpc'[v] = wpc[v] /\ pos'[v] = pos[v]
    BY <1>1, <1>t DEF WorkerStep, EnsureCursor, EnsureCursorFails, ReadCursor, GetSth, SkipToHead,
                      GetEntries, SendEntry, DecodeFails, AdvanceCursor, TickFails, Goto
  <2> QED
    BY <2>2, <2>3 DEF SkipInv
<1>2. CASE v = w
  <2>1. CASE ReadCursor(w)
    BY <2>1, <1>2, <1>t DEF ReadCursor, Goto
  <2>2. ASSUME NEW s \in 0 .. tree[LogOf[w]], GetSth(w, s)
        PROVE  base'[LogOf[v]] <= 0
    <3>1. /\ wpc[v] = "sth" /\ wpc'[v] = AfterSth(pos[v], s)
          /\ base'[LogOf[v]] \in {base[LogOf[v]], 0}
      BY <2>2, <1>2, <1>t DEF GetSth, Goto
    <3>2. pos[v] = 0
      BY <3>1 DEF AfterSth
    <3> QED
      BY <3>1, <3>2 DEF SkipInv
  <2>3. CASE \/ EnsureCursor(w) \/ EnsureCursorFails(w) \/ SkipToHead(w)
             \/ (\E n \in 0 .. BatchSize : GetEntries(w, n))
             \/ SendEntry(w) \/ DecodeFails(w) \/ AdvanceCursor(w) \/ TickFails(w)
    <3>1. wpc'[w] \in {"poll", "dead", "send"}
      BY <2>3, <1>t DEF EnsureCursor, EnsureCursorFails, SkipToHead, GetEntries, SendEntry,
                        DecodeFails, AdvanceCursor, TickFails, Goto
    <3> QED
      BY <1>2, <3>1
  <2> QED
    BY <2>1, <2>2, <2>3 DEF WorkerStep
<1> QED
  BY <1>1, <1>2

-----------------------------------------------------------------------------
(* The inductive invariant of the writer. *)
QueueHanded ==
    /\ \A k \in 1 .. Len(chan) : chan[k] \in handed
    /\ \A k \in 1 .. Len(batch) : batch[k] \in handed

FlushInv ==
    /\ phase # "flush" => naming = {} /\ matching = {}
    /\ phase = "flush" => RowCerts \subseteq certs
    /\ naming \subseteq RowNames
    /\ matching \subseteq Rows

MatcherInv == matcher \in WatchLists \cup StartLists

WriterInv ==
    /\ WriterTypeOK
    /\ QueueHanded
    /\ FlushInv
    /\ MatcherInv
    /\ PublishedAfterCommit

-----------------------------------------------------------------------------
(* Rows and certificates of a batch. *)
LEMMA RowFacts ==
    /\ RowCerts \subseteq Certs
    /\ \A i \in Rows : i \in 1 .. Len(batch) /\ CertAt(i) \in RowCerts /\ CertAt(i) \in Certs
    /\ \A c \in RowCerts : \E i \in Rows : CertAt(i) = c
BY DEF RowCerts, Rows, Storable

LEMMA ObserveType ==
    ASSUME NEW row \in Seen, NEW t \in Nat
    PROVE  /\ Observe(row, t) \in Seen /\ Observe(row, t) # Unseen
           /\ Observe(row, t).last = t
           /\ Observe(row, t).first = (IF row = Unseen THEN t ELSE row.first)
<1>1. CASE row = Unseen
  BY <1>1 DEF Observe, Seen, Unseen
<1>2. CASE row # Unseen
  <2>1. row \in [first : Nat, last : Nat] /\ Observe(row, t) = [row EXCEPT !.last = t]
    BY <1>2 DEF Observe, Seen
  <2> QED
    BY <1>2, <2>1 DEF Seen, Unseen
<1> QED
  BY <1>1, <1>2

LEMMA BatchSame ==
    ASSUME batch' = batch
    PROVE  /\ Rows' = Rows /\ RowCerts' = RowCerts /\ RowNames' = RowNames
           /\ \A i : CertAt(i)' = CertAt(i)
BY DEF Rows, RowCerts, RowNames, CertAt, EntryOf, EntryAt

-----------------------------------------------------------------------------
LEMMA WriterInvInit == Init => WriterInv
<1> SUFFICES ASSUME Init PROVE WriterInv
  OBVIOUS
<1>1. WriterTypeOK
  BY WriterAssumption DEF Init, WriterInit, WriterTypeOK, Phase, Seen
<1>2. QueueHanded /\ FlushInv /\ MatcherInv /\ PublishedAfterCommit
  BY DEF Init, QueueInit, WriterInit, QueueHanded, FlushInv, MatcherInv, PublishedAfterCommit
<1> QED
  BY <1>1, <1>2 DEF WriterInv

LEMMA WriterInvStep ==
    ASSUME IngestInv, WriterInv, WriterStep, UNCHANGED workerVars
    PROVE  WriterInv' /\ QueueTypeOK'
<1>t. /\ phase \in Phase /\ batch \in Seq(Jobs) /\ Len(batch) <= BatchMax
      /\ fresh \subseteq certs /\ certs \subseteq Certs
      /\ naming \subseteq (1 .. Len(batch)) \X Names /\ matching \subseteq 1 .. Len(batch)
      /\ seen \in [Names -> Seen] /\ outbox \in [Certs -> Nat] /\ streamed \subseteq Certs
      /\ matcher \subseteq Domains
  BY DEF WriterInv, WriterTypeOK
<1>q. chan \in Seq(Jobs) /\ Len(chan) <= ChannelCapacity /\ faults \subseteq Faults
  BY DEF IngestInv, QueueTypeOK
<1>h. handed' = handed
  BY DEF workerVars
<1>w. QueueHanded /\ FlushInv /\ MatcherInv /\ PublishedAfterCommit
  BY DEF WriterInv
<1>1. CASE RecvFirst
  <2>1. /\ phase = "recv" /\ chan # <<>> /\ batch' = <<Head(chan)>> /\ chan' = Tail(chan)
        /\ phase' = "drain"
        /\ UNCHANGED <<fresh, naming, matching, certs, seen, outbox, streamed, matcher, faults>>
    BY <1>1 DEF RecvFirst
  <2>2. /\ batch' \in Seq(Jobs) /\ Len(batch') = 1 /\ batch'[1] = chan[1]
        /\ chan' \in Seq(Jobs) /\ Len(chan') = Len(chan) - 1 /\ Len(chan) >= 1
        /\ \A k \in 1 .. Len(chan') : chan'[k] = chan[k + 1]
    BY <2>1, <1>q
  <2>3. naming = {} /\ matching = {}
    BY <2>1, <1>w DEF FlushInv
  <2>4. WriterTypeOK'
    BY <1>t, <2>1, <2>2, <2>3, WriterAssumption DEF WriterTypeOK, Phase
  <2>5. QueueHanded'
    BY <1>w, <1>h, <1>q, <2>1, <2>2 DEF QueueHanded
  <2>6. FlushInv' /\ MatcherInv' /\ PublishedAfterCommit'
    BY <1>w, <1>h, <2>1, <2>3 DEF FlushInv, MatcherInv, PublishedAfterCommit
  <2> QED
    BY <1>q, <2>1, <2>2, <2>4, <2>5, <2>6, ChannelAssumption DEF WriterInv, QueueTypeOK
<1>2. CASE DrainMore
  <2>1. /\ phase = "drain" /\ chan # <<>> /\ batch' = Append(batch, Head(chan))
        /\ Len(batch) < BatchMax /\ chan' = Tail(chan)
        /\ UNCHANGED <<phase, fresh, naming, matching, certs, seen, outbox, streamed, matcher,
                       faults>>
    BY <1>2 DEF DrainMore
  <2>2. /\ batch' \in Seq(Jobs) /\ Len(batch') = Len(batch) + 1
        /\ \A k \in 1 .. Len(batch') : batch'[k] = IF k <= Len(batch) THEN batch[k] ELSE chan[1]
        /\ chan' \in Seq(Jobs) /\ Len(chan') = Len(chan) - 1 /\ Len(chan) >= 1
        /\ \A k \in 1 .. Len(chan') : chan'[k] = chan[k + 1]
    BY <2>1, <1>q, <1>t
  <2>3. naming = {} /\ matching = {}
    BY <2>1, <1>w DEF FlushInv
  <2>4. WriterTypeOK'
    BY <1>t, <2>1, <2>2, <2>3, WriterAssumption DEF WriterTypeOK, Phase
  <2>5. QueueHanded'
    BY <1>w, <1>h, <1>q, <1>t, <2>1, <2>2 DEF QueueHanded
  <2>6. FlushInv' /\ MatcherInv' /\ PublishedAfterCommit'
    BY <1>w, <1>h, <2>1, <2>3 DEF FlushInv, MatcherInv, PublishedAfterCommit
  <2> QED
    BY <1>q, <2>1, <2>2, <2>4, <2>5, <2>6, ChannelAssumption DEF WriterInv, QueueTypeOK
<1>3. CASE DrainDone
  <2>1. /\ phase = "drain" /\ phase' = "insert"
        /\ UNCHANGED <<chan, batch, fresh, naming, matching, certs, seen, outbox, streamed,
                       matcher, faults>>
    BY <1>3 DEF DrainDone
  <2>2. naming = {} /\ matching = {}
    BY <2>1, <1>w DEF FlushInv
  <2>3. WriterTypeOK'
    BY <1>t, <2>1 DEF WriterTypeOK, Phase
  <2>4. QueueHanded' /\ FlushInv' /\ MatcherInv' /\ PublishedAfterCommit'
    BY <1>w, <1>h, <2>1, <2>2 DEF QueueHanded, FlushInv, MatcherInv, PublishedAfterCommit
  <2> QED
    BY <1>q, <2>1, <2>3, <2>4 DEF WriterInv, QueueTypeOK
<1>4. CASE InsertBatch
  <2>1. /\ phase = "insert" /\ certs' = certs \cup RowCerts /\ fresh' = RowCerts \ certs
        /\ naming' = RowNames /\ matching' = ToMatch(RowCerts \ certs) /\ phase' = "flush"
        /\ UNCHANGED <<chan, batch, seen, outbox, streamed, matcher, faults>>
    BY <1>4 DEF InsertBatch
  <2>2. matching' \subseteq Rows /\ Rows \subseteq 1 .. Len(batch)
        /\ RowNames \subseteq (1 .. Len(batch)) \X Names
    BY <2>1 DEF ToMatch, Rows, RowNames
  <2>3. WriterTypeOK'
    BY <1>t, <2>1, <2>2, RowFacts DEF WriterTypeOK, Phase
  <2>4. QueueHanded' /\ FlushInv' /\ MatcherInv'
    BY <1>w, <1>h, <2>1, <2>2, BatchSame DEF QueueHanded, FlushInv, MatcherInv
  <2>5. RowCerts \subseteq {EntryOf(j) : j \in handed}
    BY <1>w DEF RowCerts, Rows, CertAt, QueueHanded
  <2>6. PublishedAfterCommit'
    BY <1>w, <1>h, <2>1, <2>5 DEF PublishedAfterCommit
  <2> QED
    BY <1>q, <2>1, <2>3, <2>4, <2>6 DEF WriterInv, QueueTypeOK
<1>5. CASE InsertFails
  <2>1. /\ phase = "insert" /\ certs' \in {certs, certs \cup RowCerts} /\ batch' = <<>>
        /\ phase' = "recv" /\ "insert" \in Faults /\ faults' = faults \cup {"insert"}
        /\ UNCHANGED <<chan, fresh, naming, matching, seen, outbox, streamed, matcher>>
    BY <1>5 DEF InsertFails, Fault
  <2>2. naming = {} /\ matching = {}
    BY <2>1, <1>w DEF FlushInv
  <2>3. WriterTypeOK'
    BY <1>t, <2>1, <2>2, RowFacts, WriterAssumption DEF WriterTypeOK, Phase
  <2>4. QueueHanded' /\ FlushInv' /\ MatcherInv'
    BY <1>w, <1>h, <2>1, <2>2 DEF QueueHanded, FlushInv, MatcherInv
  <2>5. RowCerts \subseteq {EntryOf(j) : j \in handed}
    BY <1>w DEF RowCerts, Rows, CertAt, QueueHanded
  <2>6. PublishedAfterCommit'
    BY <1>w, <1>h, <2>1, <2>5 DEF PublishedAfterCommit
  <2> QED
    BY <1>q, <2>1, <2>3, <2>4, <2>6 DEF WriterInv, QueueTypeOK
<1>6. ASSUME NEW p \in naming, UpsertName(p[1], p[2])
      PROVE  WriterInv' /\ QueueTypeOK'
  <2>1. /\ phase = "flush" /\ naming' \subseteq naming /\ faults \subseteq faults'
        /\ faults' \subseteq Faults
        /\ UNCHANGED <<chan, phase, batch, fresh, matching, certs, outbox, streamed, matcher>>
        /\ \/ seen' = seen
           \/ seen' = [seen EXCEPT ![p[2]] = Observe(seen[p[2]], NotBefore[CertAt(p[1])])]
    BY <1>6, <1>q DEF UpsertName, Fault
  <2>2. p[1] \in Rows /\ p[2] \in Names
    BY <1>w DEF FlushInv, RowNames
  <2>3. seen' \in [Names -> Seen]
    <3>1. NotBefore[CertAt(p[1])] \in Nat
      BY <2>2, RowFacts, EntriesAssumption
    <3>2. Observe(seen[p[2]], NotBefore[CertAt(p[1])]) \in Seen
      BY <1>t, <2>2, <3>1, ObserveType
    <3> QED
      BY <1>t, <2>1, <3>2
  <2>4. WriterTypeOK'
    BY <1>t, <2>1, <2>3 DEF WriterTypeOK
  <2>5. QueueHanded' /\ FlushInv' /\ MatcherInv' /\ PublishedAfterCommit'
    BY <1>w, <1>h, <2>1, BatchSame
       DEF QueueHanded, FlushInv, MatcherInv, PublishedAfterCommit
  <2> QED
    BY <1>q, <2>1, <2>4, <2>5 DEF WriterInv, QueueTypeOK
<1>7. ASSUME NEW i \in matching, MatchRow(i)
      PROVE  WriterInv' /\ QueueTypeOK'
  <2>1. /\ phase = "flush" /\ matching' \subseteq matching /\ faults' \subseteq Faults
        /\ UNCHANGED <<chan, phase, batch, fresh, naming, certs, seen, streamed, matcher>>
        /\ \/ outbox' = outbox
           \/ outbox' = [outbox EXCEPT ![CertAt(i)] = @ + 1]
    BY <1>7, <1>q DEF MatchRow, Fault
  <2>2. CertAt(i) \in Certs /\ CertAt(i) \in certs
    BY <1>w, <2>1, RowFacts DEF FlushInv
  <2>3. WriterTypeOK'
    BY <1>t, <2>1, <2>2 DEF WriterTypeOK
  <2>4. QueueHanded' /\ FlushInv' /\ MatcherInv'
    BY <1>w, <1>h, <2>1, BatchSame DEF QueueHanded, FlushInv, MatcherInv
  <2>5. PublishedAfterCommit'
    BY <1>w, <1>h, <1>t, <2>1, <2>2 DEF PublishedAfterCommit
  <2> QED
    BY <1>q, <2>1, <2>3, <2>4, <2>5 DEF WriterInv, QueueTypeOK
<1>8. CASE Broadcast
  <2>1. /\ phase = "flush" /\ naming = {} /\ matching = {}
        /\ streamed' = streamed \cup RowCerts /\ batch' = <<>> /\ fresh' = {} /\ phase' = "recv"
        /\ UNCHANGED <<chan, naming, matching, certs, seen, outbox, matcher, faults>>
    BY <1>8 DEF Broadcast
  <2>2. WriterTypeOK'
    BY <1>t, <2>1, RowFacts, WriterAssumption DEF WriterTypeOK, Phase
  <2>3. QueueHanded' /\ FlushInv' /\ MatcherInv' /\ PublishedAfterCommit'
    BY <1>w, <1>h, <2>1 DEF QueueHanded, FlushInv, MatcherInv, PublishedAfterCommit
  <2> QED
    BY <1>q, <2>1, <2>2, <2>3 DEF WriterInv, QueueTypeOK
<1>9. ASSUME NEW W \in WatchLists, ReplaceMatcher(W)
      PROVE  WriterInv' /\ QueueTypeOK'
  <2>1. /\ matcher' = W
        /\ UNCHANGED <<chan, phase, batch, fresh, naming, matching, certs, seen, outbox,
                       streamed, faults>>
    BY <1>9 DEF ReplaceMatcher
  <2>2. WriterTypeOK'
    BY <1>t, <2>1, WriterAssumption DEF WriterTypeOK
  <2>3. QueueHanded' /\ FlushInv' /\ MatcherInv' /\ PublishedAfterCommit'
    BY <1>w, <1>h, <2>1, BatchSame DEF QueueHanded, FlushInv, MatcherInv, PublishedAfterCommit
  <2> QED
    BY <1>q, <2>1, <2>2, <2>3 DEF WriterInv, QueueTypeOK
<1> QED
  BY <1>1, <1>2, <1>3, <1>4, <1>5, <1>6, <1>7, <1>8, <1>9 DEF WriterStep, FlushStep

LEMMA WriterInvIngest ==
    ASSUME WriterInv, UNCHANGED writerVars, handed \subseteq handed',
           chan \in Seq(Jobs),
           \/ chan' = chan
           \/ \E j \in handed' : chan' = Append(chan, j)
    PROVE  WriterInv'
<1>1. WriterTypeOK' /\ FlushInv' /\ MatcherInv' /\ PublishedAfterCommit'
  BY BatchSame DEF WriterInv, writerVars, WriterTypeOK, FlushInv, MatcherInv, PublishedAfterCommit
<1>2. QueueHanded'
  BY DEF WriterInv, writerVars, QueueHanded
<1> QED
  BY <1>1, <1>2 DEF WriterInv

LEMMA WriterInvCrash ==
    ASSUME WriterInv, Crash
    PROVE  WriterInv'
<1>1. /\ chan' = <<>> /\ batch' = <<>> /\ fresh' = {} /\ naming' = {} /\ matching' = {}
      /\ phase' = "recv" /\ matcher' \in StartLists
      /\ UNCHANGED <<certs, seen, outbox, streamed, handed>>
  BY DEF Crash, WorkerCrash, WriterCrash
<1>2. WriterTypeOK'
  BY <1>1, WriterAssumption DEF WriterInv, WriterTypeOK, Phase
<1>3. QueueHanded' /\ FlushInv' /\ MatcherInv' /\ PublishedAfterCommit'
  BY <1>1 DEF WriterInv, QueueHanded, FlushInv, MatcherInv, PublishedAfterCommit
<1> QED
  BY <1>2, <1>3 DEF WriterInv

-----------------------------------------------------------------------------
(* The invariant of the whole pipeline. *)
Inv == IngestInv /\ HandedInv /\ WriterInv

LEMMA InvInit == Init => Inv
<1> SUFFICES ASSUME Init PROVE HandedInv
  BY IngestInvInit, WriterInvInit DEF Inv
<1> QED
  BY DEF Init, WorkerInit, HandedInv, NoGap, PosHanded, HandedBelow, NoRow

LEMMA InvStep == Inv /\ [Next]_vars => Inv'
<1> SUFFICES ASSUME Inv, [Next]_vars PROVE Inv'
  OBVIOUS
<1>i. IngestInv /\ HandedInv /\ WriterInv /\ chan \in Seq(Jobs)
  BY DEF Inv, IngestInv, QueueTypeOK
<1>1. ASSUME NEW l \in Logs, Publish(l), UNCHANGED writerVars PROVE Inv'
  <2>1. chan' = chan /\ handed' = handed
    BY <1>1 DEF Publish
  <2> QED
    BY <1>i, <1>1, <2>1, IngestPublish, WriterInvIngest DEF Inv
<1>2. ASSUME NEW w \in Workers, WorkerStep(w), UNCHANGED writerVars PROVE Inv'
  <2>1. IngestInv' /\ HandedInv'
    BY <1>i, <1>2, IngestInvWorker, HandedInvWorker
  <2>2. handed \subseteq handed' /\ (chan' = chan \/ \E j \in handed' : chan' = Append(chan, j))
    BY <1>i, <1>2, WorkerSends
  <2>3. WriterInv'
    BY <1>i, <1>2, <2>2, WriterInvIngest
  <2> QED
    BY <2>1, <2>3 DEF Inv
<1>3. CASE WriterStep /\ UNCHANGED workerVars
  BY <1>i, <1>3, WriterInvStep, IngestKept DEF Inv
<1>4. CASE Crash
  BY <1>i, <1>4, IngestCrash, WriterInvCrash DEF Inv
<1>5. CASE UNCHANGED vars
  <2>1. UNCHANGED writerVars /\ UNCHANGED workerVars /\ chan' = chan /\ faults' = faults
        /\ handed' = handed
    BY <1>5 DEF vars, queueVars, writerVars, workerVars
  <2>2. QueueTypeOK'
    BY <1>i, <2>1 DEF IngestInv, QueueTypeOK
  <2> QED
    BY <1>i, <2>1, <2>2, IngestKept, WriterInvIngest DEF Inv
<1> QED
  BY <1>1, <1>2, <1>3, <1>4, <1>5 DEF Next, IngestStep

LEMMA InvAlways == Spec => []Inv
BY InvInit, InvStep, PTL DEF Spec

(* Every variable keeps its type. *)
THEOREM TypeCorrect == Spec => []TypeOK
<1>1. Inv => TypeOK
  BY DEF Inv, IngestInv, WriterInv, TypeOK
<1> QED
  BY <1>1, InvAlways, PTL

(* worker.rs, tick: no entry between the index a log is followed from and   *)
(* its cursor was left out, with any number of workers per log, retries and *)
(* crashes.                                                                 *)
THEOREM NothingSkipped == Spec => []NoGap
<1>1. Inv => NoGap
  BY DEF Inv, HandedInv
<1> QED
  BY <1>1, InvAlways, PTL

(* writer.rs, flush_batch: what was alerted on or broadcast was committed   *)
(* before, and came from a worker, whatever fails.                          *)
THEOREM CommittedFirst == Spec => []PublishedAfterCommit
<1>1. Inv => PublishedAfterCommit
  BY DEF Inv, WriterInv
<1> QED
  BY <1>1, InvAlways, PTL

-----------------------------------------------------------------------------
(* cursors::advance and cursors::upsert: no step of any worker, no restart  *)
(* and no other part of the program takes a cursor back.                    *)
LEMMA CursorKept ==
    ASSUME Inv, NEW w \in Workers, WorkerStep(w), NEW l \in Logs
    PROVE  cursor'[l] >= cursor[l]
<1>t. /\ cursor \in [Logs -> Nat \cup {NoRow}] /\ target \in [Workers -> Nat]
      /\ cursor[l] \in Nat \cup {NoRow} /\ cursor[l] \in Int
  BY DEF Inv, IngestInv, WorkerTypeOK, NoRow
<1>1. CASE EnsureCursor(w) \/ EnsureCursorFails(w)
  <2>1. cursor'[l] \in {cursor[l], Upsert(cursor[l])}
    BY <1>1, <1>t DEF EnsureCursor, EnsureCursorFails
  <2> QED
    BY <2>1, <1>t DEF Upsert, NoRow
<1>2. CASE SkipToHead(w) \/ AdvanceCursor(w)
  <2>1. cursor'[l] \in {cursor[l], Advance(cursor[l], target[w])}
    BY <1>2, <1>t DEF SkipToHead, AdvanceCursor
  <2>2. target[w] \in Nat
    BY <1>t
  <2> QED
    BY <2>1, <2>2, <1>t DEF Advance
<1>3. CASE \/ ReadCursor(w) \/ (\E s \in 0 .. tree[LogOf[w]] : GetSth(w, s))
           \/ (\E n \in 0 .. BatchSize : GetEntries(w, n))
           \/ SendEntry(w) \/ DecodeFails(w) \/ TickFails(w)
  <2>1. cursor' = cursor
    BY <1>3 DEF ReadCursor, GetSth, GetEntries, SendEntry, DecodeFails, TickFails
  <2> QED
    BY <2>1, <1>t
<1> QED
  BY <1>1, <1>2, <1>3 DEF WorkerStep

(* No step of any worker and no restart takes a cursor back (cursors.rs).   *)
THEOREM CursorMonotone == Spec => CursorNeverRegresses
<1>1. Inv /\ [Next]_vars => [\A l \in Logs : cursor'[l] >= cursor[l]]_vars
  <2> SUFFICES ASSUME Inv, Next, NEW l \in Logs
               PROVE  cursor'[l] >= cursor[l]
    OBVIOUS
  <2>t. cursor[l] \in Int
    BY DEF Inv, IngestInv, WorkerTypeOK, NoRow
  <2>1. CASE IngestStep
    <3>1. CASE \E k \in Logs : Publish(k)
      BY <3>1, <2>t DEF Publish
    <3>2. CASE \E w \in Workers : WorkerStep(w)
      BY <3>2, CursorKept
    <3> QED
      BY <2>1, <3>1, <3>2 DEF IngestStep
  <2>2. CASE UNCHANGED workerVars \/ Crash
    <3>1. cursor' = cursor
      BY <2>2 DEF workerVars, Crash, WorkerCrash
    <3> QED
      BY <3>1, <2>t
  <2> QED
    BY <2>1, <2>2 DEF Next
<1> QED
  BY <1>1, InvAlways, PTL DEF Spec, CursorNeverRegresses

-----------------------------------------------------------------------------
(* worker.rs, tick: a log that is followed from an index above 0 is not     *)
(* skipped again while one worker follows it: the cursor that worker reads  *)
(* is not 0, before and after any restart.                                  *)
LEMMA SkipInvStep == Inv /\ SkipInv /\ [Next]_vars => SkipInv'
<1> SUFFICES ASSUME Inv, SkipInv, [Next]_vars PROVE SkipInv'
  OBVIOUS
<1>1. CASE \E w \in Workers : WorkerStep(w)
  BY <1>1, SkipInvWorker DEF Inv
<1>2. CASE (\E l \in Logs : Publish(l)) \/ UNCHANGED workerVars
  BY <1>2 DEF Publish, workerVars, SkipInv, Alone
<1>3. CASE Crash
  BY <1>3 DEF Crash, WorkerCrash, SkipInv
<1> QED
  BY <1>1, <1>2, <1>3 DEF Next, IngestStep, vars

(* A log with one worker is skipped to its head once (worker.rs, tick).     *)
THEOREM SkipsOnce == Spec => SkippedOnce
<1>1. Init => SkipInv
  BY DEF Init, WorkerInit, SkipInv
<1>2. Inv /\ SkipInv /\ [Next]_vars =>
          [\A l \in Logs : Alone(l) /\ base[l] > 0 => base'[l] = base[l]]_vars
  <2> SUFFICES ASSUME Inv, SkipInv, Next, NEW l \in Logs, Alone(l), base[l] > 0
               PROVE  base'[l] = base[l]
    OBVIOUS
  <2>1. ASSUME NEW w \in Workers, WorkerStep(w)
        PROVE  base'[l] = base[l]
    <3>1. IngestInv
      BY DEF Inv
    <3>2. base[l] \in Int
      BY <3>1 DEF IngestInv, WorkerTypeOK, NotFollowed
    <3>3. ~(l = LogOf[w] /\ wpc[w] = "skip")
      BY <3>2 DEF SkipInv
    <3>4. base[l] # NotFollowed
      BY DEF NotFollowed
    <3> QED
      BY <2>1, <3>1, <3>3, <3>4, BaseMoves
  <2>2. CASE (\E k \in Logs : Publish(k)) \/ UNCHANGED workerVars \/ Crash
    BY <2>2 DEF Publish, workerVars, Crash, WorkerCrash
  <2> QED
    BY <2>1, <2>2 DEF Next, IngestStep
<1> QED
  BY <1>1, <1>2, SkipInvStep, InvAlways, PTL DEF Spec, SkippedOnce

-----------------------------------------------------------------------------
(* Failures are remembered. *)
LEMMA FaultsKept ==
    ASSUME Inv, [Next]_vars
    PROVE  faults \subseteq faults'
<1>1. CASE \E w \in Workers : WorkerStep(w)
  BY <1>1, WorkerSends DEF Inv
<1>2. CASE WriterStep
  BY <1>2 DEF WriterStep, FlushStep, RecvFirst, DrainMore, DrainDone, InsertBatch, InsertFails,
              UpsertName, MatchRow, Broadcast, ReplaceMatcher, Fault
<1>3. CASE (\E l \in Logs : Publish(l)) \/ Crash \/ UNCHANGED vars
  BY <1>3 DEF Publish, Crash, Fault, vars, queueVars
<1> QED
  BY <1>1, <1>2, <1>3 DEF Next, IngestStep

(* writer.rs: a storable entry that is in the channel, in the batch or in   *)
(* the table, or is handed over by this step, is in one of these places     *)
(* after every step but a crash and a failed insert. A job moves from one   *)
(* place to the next and never out of them.                                 *)
LEMMA JobKept ==
    ASSUME Inv, [Next]_vars, ~Crash, ~InsertFails,
           NEW j \in handed', Storable(EntryOf(j)),
           j \in handed => InFlight(j) \/ EntryOf(j) \in certs
    PROVE  InFlight(j)' \/ EntryOf(j) \in certs'
<1>q. chan \in Seq(Jobs) /\ batch \in Seq(Jobs)
  BY DEF Inv, IngestInv, QueueTypeOK, WriterInv, WriterTypeOK
<1>k. j \in handed => InFlight(j) \/ EntryOf(j) \in certs
  OBVIOUS
<1>1. ASSUME NEW l \in Logs, Publish(l), UNCHANGED writerVars
      PROVE  InFlight(j)' \/ EntryOf(j) \in certs'
  BY <1>1, <1>k DEF Publish, writerVars, InFlight, InChannel, InBatch
<1>2. ASSUME NEW w \in Workers, WorkerStep(w), UNCHANGED writerVars
      PROVE  InFlight(j)' \/ EntryOf(j) \in certs'
  <2>1. \/ chan' = chan /\ handed' = handed
        \/ \E i \in Jobs : chan' = Append(chan, i) /\ handed' = handed \cup {i}
    BY <1>2, WorkerSends DEF Inv
  <2>2. CASE chan' = chan /\ handed' = handed
    BY <1>2, <2>1, <2>2, <1>k DEF writerVars, InFlight, InChannel, InBatch
  <2>3. ASSUME NEW i \in Jobs, chan' = Append(chan, i), handed' = handed \cup {i}
        PROVE  InFlight(j)' \/ EntryOf(j) \in certs'
    <3>1. /\ Len(chan') = Len(chan) + 1 /\ chan'[Len(chan) + 1] = i
          /\ \A k \in 1 .. Len(chan) : chan'[k] = chan[k]
          /\ Len(chan) \in Nat
      BY <2>3, <1>q
    <3>2. CASE j = i
      BY <3>1, <3>2 DEF InFlight, InChannel
    <3>3. CASE j \in handed
      <4>1. InChannel(j) => InChannel(j)'
        BY <3>1 DEF InChannel
      <4>2. (phase \in {"drain", "insert"} /\ InBatch(j)) =>
                (phase \in {"drain", "insert"} /\ InBatch(j))'
        BY <1>2 DEF writerVars, InBatch
      <4>3. certs' = certs
        BY <1>2 DEF writerVars
      <4> QED
        BY <3>3, <4>1, <4>2, <4>3, <2>1, <1>k DEF InFlight
    <3> QED
      BY <2>3, <3>2, <3>3
  <2> QED
    BY <2>1, <2>2, <2>3
<1>3. ASSUME WriterStep, UNCHANGED workerVars
      PROVE  InFlight(j)' \/ EntryOf(j) \in certs'
  <2>1. j \in handed
    BY <1>3 DEF workerVars
  <2>2. CASE RecvFirst
    <3>1. phase = "recv" /\ chan # <<>> /\ batch' = <<Head(chan)>> /\ chan' = Tail(chan)
          /\ phase' = "drain" /\ certs' = certs
      BY <2>2 DEF RecvFirst
    <3>2. /\ Len(batch') = 1 /\ batch'[1] = chan[1] /\ Len(chan') = Len(chan) - 1
          /\ \A k \in 1 .. Len(chan) : k = 1 \/ (k - 1 \in 1 .. Len(chan') /\ chan'[k - 1] = chan[k])
      BY <3>1, <1>q
    <3>3. InChannel(j) => InChannel(j)' \/ InBatch(j)'
      BY <3>2 DEF InChannel, InBatch
    <3> QED
      BY <3>1, <3>3, <2>1, <1>k DEF InFlight
  <2>3. CASE DrainMore
    <3>1. phase = "drain" /\ chan # <<>> /\ batch' = Append(batch, Head(chan))
          /\ chan' = Tail(chan) /\ phase' = phase /\ certs' = certs
      BY <2>3 DEF DrainMore
    <3>2. /\ Len(batch') = Len(batch) + 1 /\ batch'[Len(batch) + 1] = chan[1] /\ Len(batch) \in Nat
          /\ \A k \in 1 .. Len(batch) : batch'[k] = batch[k]
          /\ Len(chan') = Len(chan) - 1
          /\ \A k \in 1 .. Len(chan) : k = 1 \/ (k - 1 \in 1 .. Len(chan') /\ chan'[k - 1] = chan[k])
      BY <3>1, <1>q
    <3>3. InChannel(j) => InChannel(j)' \/ InBatch(j)'
      BY <3>2 DEF InChannel, InBatch
    <3>4. InBatch(j) => InBatch(j)'
      BY <3>2 DEF InBatch
    <3> QED
      BY <3>1, <3>3, <3>4, <2>1, <1>k DEF InFlight
  <2>4. CASE DrainDone
    BY <2>4, <2>1, <1>k DEF DrainDone, InFlight, InChannel, InBatch
  <2>5. CASE InsertBatch
    <3>1. chan' = chan /\ certs' = certs \cup RowCerts
      BY <2>5 DEF InsertBatch
    <3>2. InBatch(j) => EntryOf(j) \in RowCerts
      BY DEF InBatch, RowCerts, Rows, CertAt
    <3> QED
      BY <3>1, <3>2, <2>1, <1>k DEF InFlight, InChannel
  <2>7. CASE (\E p \in naming : UpsertName(p[1], p[2])) \/ (\E i \in matching : MatchRow(i))
             \/ Broadcast
    <3>1. phase = "flush" /\ chan' = chan /\ certs' = certs
      BY <2>7 DEF UpsertName, MatchRow, Broadcast
    <3> QED
      BY <3>1, <2>1, <1>k DEF InFlight, InChannel
  <2>8. CASE \E W \in WatchLists : ReplaceMatcher(W)
    BY <2>8, <2>1, <1>k DEF ReplaceMatcher, InFlight, InChannel, InBatch
  <2> QED
    BY <1>3, <2>2, <2>3, <2>4, <2>5, <2>7, <2>8 DEF WriterStep, FlushStep
<1>4. CASE UNCHANGED vars
  BY <1>4, <1>k DEF vars, queueVars, workerVars, writerVars, InFlight, InChannel, InBatch
<1> QED
  BY <1>1, <1>2, <1>3, <1>4 DEF Next, IngestStep

LEMMA InFlightStep ==
    ASSUME Inv, InFlightOrStored, [Next]_vars
    PROVE  InFlightOrStored'
<1> SUFFICES ASSUME faults' \cap {"crash", "insert"} = {},
                    NEW j \in handed', Storable(EntryOf(j))
             PROVE  InFlight(j)' \/ EntryOf(j) \in certs'
  BY DEF InFlightOrStored, Storable, EntryOf, EntryAt
<1>1. faults \subseteq faults'
  BY FaultsKept
<1>2. ~Crash /\ ~InsertFails
  BY DEF Crash, InsertFails, Fault
<1>3. j \in handed => InFlight(j) \/ EntryOf(j) \in certs
  BY <1>1 DEF InFlightOrStored
<1> QED
  BY <1>2, <1>3, JobKept

(* writer.rs, spawn and flush_batch: without a crash or a failed insert,    *)
(* what was handed over is in the channel, in the batch or in the table.    *)
THEOREM NothingLost == Spec => []InFlightOrStored
<1>1. Init => InFlightOrStored
  BY DEF Init, WorkerInit, InFlightOrStored
<1>2. Inv /\ InFlightOrStored /\ [Next]_vars => InFlightOrStored'
  BY InFlightStep
<1> QED
  BY <1>1, <1>2, InvAlways, PTL DEF Spec

(* worker.rs and writer.rs together: the cursor runs ahead of the tables by *)
(* no more than what is in flight. Without a crash or a failed insert,      *)
(* every storable entry between the index a log is followed from and its    *)
(* cursor is in the channel, in the batch or in the table; and when the     *)
(* writer waits on an empty channel, all of them are in the table.          *)
CursorCovered ==
    faults \cap {"crash", "insert"} = {} =>
        \A l \in Logs : \A i \in 0 .. cursor[l] - 1 :
            i >= base[l] /\ Storable(EntryAt(l, i)) =>
                \/ EntryAt(l, i) \in certs
                \/ InFlight(JobOf(l, i)) /\ ~(phase = "recv" /\ chan = <<>>)

(* Behind the cursor everything is stored or in flight, until something     *)
(* fails (worker.rs, tick; writer.rs, spawn).                               *)
THEOREM CursorStored == Spec => []CursorCovered
<1>1. NoGap /\ InFlightOrStored => CursorCovered
  <2> SUFFICES ASSUME NoGap, InFlightOrStored, faults \cap {"crash", "insert"} = {},
                      NEW l \in Logs, NEW i \in 0 .. cursor[l] - 1,
                      i >= base[l], Storable(EntryAt(l, i))
               PROVE  \/ EntryAt(l, i) \in certs
                      \/ InFlight(JobOf(l, i)) /\ ~(phase = "recv" /\ chan = <<>>)
    BY DEF CursorCovered
  <2> DEFINE j == JobOf(l, i)
  <2>1. j \in handed
    BY DEF NoGap
  <2>2. EntryOf(j) = EntryAt(l, i)
    BY DEF EntryOf, JobOf
  <2>3. EntryAt(l, i) \in certs \/ InFlight(j)
    BY <2>1, <2>2 DEF InFlightOrStored
  <2>4. InFlight(j) => ~(phase = "recv" /\ chan = <<>>)
    BY DEF InFlight, InChannel
  <2> QED
    BY <2>3, <2>4
<1> QED
  BY <1>1, NothingSkipped, NothingLost, PTL

(* What n places cover has at most n elements. *)
LEMMA Covered ==
    ASSUME NEW n \in Nat, NEW f, NEW T, \A x \in T : \E k \in 1 .. n : f[k] = x
    PROVE  Cardinality(T) \in Nat /\ Cardinality(T) <= n /\ IsFiniteSet(T)
<1> DEFINE R == {f[k] : k \in 1 .. n}
           g == [k \in 1 .. n |-> f[k]]
<1>1. IsFiniteSet(1 .. n) /\ Cardinality(1 .. n) = n
  BY FS_Interval
<1>2. g \in Surjection(1 .. n, R)
  BY DEF Surjection
<1> HIDE DEF g
<1>3. IsFiniteSet(R) /\ Cardinality(R) <= n
  BY <1>1, <1>2, FS_Surjection
<1>4. T \in SUBSET R
  OBVIOUS
<1>5. IsFiniteSet(T) /\ Cardinality(T) <= Cardinality(R)
  BY <1>3, <1>4, FS_Subset
<1>6. Cardinality(T) \in Nat /\ Cardinality(R) \in Nat
  BY <1>3, <1>5, FS_CardinalityType
<1> QED
  BY <1>3, <1>5, <1>6

LEMMA SizeOfUnion ==
    ASSUME NEW A, NEW B, IsFiniteSet(A), IsFiniteSet(B)
    PROVE  Cardinality(A \cup B) \in Nat /\ Cardinality(A \cup B) <= Cardinality(A) + Cardinality(B)
<1>1. A \cap B \in SUBSET A
  OBVIOUS
<1>2. Cardinality(A) \in Nat /\ Cardinality(B) \in Nat /\ Cardinality(A \cap B) \in Nat
  BY <1>1, FS_Subset, FS_CardinalityType
<1>3. /\ IsFiniteSet(A \cup B)
      /\ Cardinality(A \cup B) = Cardinality(A) + Cardinality(B) - Cardinality(A \cap B)
  BY FS_Union
<1>4. Cardinality(A \cup B) \in Nat
  BY <1>3, FS_CardinalityType
<1> QED
  BY <1>2, <1>3, <1>4

(* writer.rs, spawn and flush_batch: a crash costs at most the capacity of  *)
(* the channel and a batch, a failed insert a batch, and nothing else       *)
(* anything.                                                                *)
LEMMA LossStep ==
    ASSUME Inv, [Next]_vars
    PROVE  Cardinality(Lost' \ Lost) <= IF Crash THEN ChannelCapacity + BatchMax
                                        ELSE IF InsertFails THEN BatchMax ELSE 0
<1> DEFINE New == Lost' \ Lost
<1>t. /\ Len(chan) \in Nat /\ Len(chan) <= ChannelCapacity
      /\ Len(batch) \in Nat /\ Len(batch) <= BatchMax
      /\ ChannelCapacity \in Nat /\ BatchMax \in Nat
  BY ChannelAssumption, WriterAssumption
     DEF Inv, IngestInv, QueueTypeOK, WriterInv, WriterTypeOK
<1>n. ASSUME NEW j \in New
      PROVE  /\ j \in handed' /\ Storable(EntryOf(j)) /\ ~(InFlight(j)' \/ EntryOf(j) \in certs')
             /\ j \in handed => InFlight(j) \/ EntryOf(j) \in certs
  BY DEF Lost, Storable, EntryOf, EntryAt
<1> HIDE DEF New
<1>1. CASE Crash
  <2>1. handed' = handed /\ certs' = certs
    BY <1>1 DEF Crash, WorkerCrash, WriterCrash
  <2> DEFINE Sent == {j \in New : \E k \in 1 .. Len(chan) : chan[k] = j}
             Taken == {j \in New : \E k \in 1 .. Len(batch) : batch[k] = j}
  <2>2. New = Sent \cup Taken
    BY <1>n, <2>1 DEF InFlight, InChannel, InBatch
  <2>3. Cardinality(Sent) \in Nat /\ Cardinality(Sent) <= Len(chan) /\ IsFiniteSet(Sent)
    BY <1>t, Covered
  <2>4. Cardinality(Taken) \in Nat /\ Cardinality(Taken) <= Len(batch) /\ IsFiniteSet(Taken)
    BY <1>t, Covered
  <2> HIDE DEF Sent, Taken
  <2>5. Cardinality(New) \in Nat /\ Cardinality(New) <= Cardinality(Sent) + Cardinality(Taken)
    BY <2>2, <2>3, <2>4, SizeOfUnion
  <2> QED
    BY <1>1, <1>t, <2>3, <2>4, <2>5 DEF New
<1>2. CASE InsertFails /\ ~Crash
  <2>1. handed' = handed /\ certs \subseteq certs' /\ chan' = chan
    <3>1. phase' # phase
      BY <1>2 DEF InsertFails
    <3>2. UNCHANGED workerVars
      BY <1>2, <3>1 DEF Next, vars, writerVars
    <3> QED
      BY <1>2, <3>2 DEF InsertFails, workerVars
  <2>2. \A j \in New : \E k \in 1 .. Len(batch) : batch[k] = j
    BY <1>n, <2>1 DEF InFlight, InChannel, InBatch
  <2>3. /\ Cardinality(New) \in Nat
        /\ Cardinality(New) <= Len(batch)
    BY <1>t, <2>2, Covered
  <2> QED
    BY <1>2, <1>t, <2>3 DEF New
<1>3. CASE ~Crash /\ ~InsertFails
  <2>1. New = {}
    BY <1>n, <1>3, JobKept
  <2>2. Cardinality(New) = 0
    BY <2>1, FS_EmptySet
  <2> QED
    BY <1>3, <2>2 DEF New
<1> QED
  BY <1>1, <1>2, <1>3 DEF New

(* A crash costs at most a channel and a batch, a failed insert a batch,    *)
(* and nothing else costs anything (writer.rs, spawn and flush_batch).      *)
THEOREM FailureCost == Spec => LossBounded
<1>1. Inv /\ [Next]_vars =>
          [Cardinality(Lost' \ Lost) <= IF Crash THEN ChannelCapacity + BatchMax
                                        ELSE IF InsertFails THEN BatchMax ELSE 0]_vars
  BY LossStep
<1> QED
  BY <1>1, InvAlways, PTL DEF Spec, LossBounded

-----------------------------------------------------------------------------
(* writer.rs: a certificate that every watch list matches has an alert, or  *)
(* its row is still ahead of the loop that will queue one. The loop visits  *)
(* every row whenever the batch inserted anything, so also the new ones.    *)
(* Only a crash, a failed insert and a failed enqueue can break this.       *)
LEMMA MatchKept ==
    ASSUME Inv, [Next]_vars, ~Crash, ~InsertFails, ~EnqueueFails,
           NEW c \in certs', AlwaysWatched(c),
           c \in certs => outbox[c] > 0 \/ \E i \in matching : CertAt(i) = c
    PROVE  outbox'[c] > 0 \/ \E i \in matching' : CertAt(i)' = c
<1>t. /\ outbox \in [Certs -> Nat] /\ certs \subseteq Certs /\ MatcherInv /\ FlushInv
      /\ matching \subseteq Rows
  BY DEF Inv, WriterInv, WriterTypeOK, FlushInv
<1>k. c \in certs => outbox[c] > 0 \/ \E i \in matching : CertAt(i) = c
  OBVIOUS
<1>1. CASE UNCHANGED <<batch, matching, certs, outbox>>
  BY <1>1, <1>k, BatchSame
<1>2. CASE RecvFirst \/ DrainMore \/ DrainDone
  <2>1. matching = {} /\ certs' = certs /\ outbox' = outbox
    BY <1>2, <1>t DEF RecvFirst, DrainMore, DrainDone, FlushInv
  <2> QED
    BY <2>1, <1>k
<1>3. CASE InsertBatch
  <2>1. /\ matching = {} /\ certs' = certs \cup RowCerts /\ outbox' = outbox
        /\ batch' = batch /\ matching' = ToMatch(RowCerts \ certs)
    BY <1>3, <1>t DEF InsertBatch, FlushInv
  <2>2. CASE c \in certs
    BY <2>1, <2>2, <1>k
  <2>3. CASE c \notin certs
    <3>1. c \in RowCerts /\ matching' = Rows
      BY <2>1, <2>3 DEF ToMatch
    <3> QED
      BY <2>1, <3>1, RowFacts, BatchSame
  <2> QED
    BY <2>2, <2>3
<1>4. ASSUME NEW i \in matching, MatchRow(i)
      PROVE  outbox'[c] > 0 \/ \E k \in matching' : CertAt(k)' = c
  <2>1. /\ matching' = matching \ {i} /\ certs' = certs /\ batch' = batch
        /\ \/ Hit(CertAt(i)) /\ outbox' = [outbox EXCEPT ![CertAt(i)] = @ + 1]
           \/ ~Hit(CertAt(i)) /\ outbox' = outbox
    BY <1>4 DEF MatchRow, EnqueueFails
  <2>2. CertAt(i) \in Certs
    BY <1>t, RowFacts
  <2>3. CASE CertAt(i) = c
    <3>1. Hit(c)
      BY <1>t DEF AlwaysWatched, Hit, MatcherInv
    <3> QED
      BY <2>1, <2>2, <2>3, <3>1, <1>t
  <2>4. CASE CertAt(i) # c
    BY <2>1, <2>2, <2>4, <1>k, <1>t, BatchSame
  <2> QED
    BY <2>3, <2>4
<1>5. CASE Broadcast
  BY <1>5, <1>k DEF Broadcast
<1>6. ASSUME UNCHANGED writerVars
      PROVE  outbox'[c] > 0 \/ \E i \in matching' : CertAt(i)' = c
  BY <1>6, <1>1 DEF writerVars
<1>7. CASE \/ \E p \in naming : UpsertName(p[1], p[2])
           \/ \E W \in WatchLists : ReplaceMatcher(W)
           \/ UNCHANGED vars
  BY <1>7, <1>1 DEF UpsertName, ReplaceMatcher, vars, writerVars
<1> QED
  BY <1>2, <1>3, <1>4, <1>5, <1>6, <1>7
     DEF Next, IngestStep, WriterStep, FlushStep

LEMMA AlertedStep ==
    ASSUME Inv, EveryMatchAlerted, [Next]_vars
    PROVE  EveryMatchAlerted'
<1> SUFFICES ASSUME faults' \cap {"crash", "insert", "enqueue"} = {},
                    NEW c \in certs', AlwaysWatched(c)
             PROVE  outbox'[c] > 0 \/ \E i \in matching' : CertAt(i)' = c
  BY DEF EveryMatchAlerted, AlwaysWatched
<1>1. faults \subseteq faults'
  BY FaultsKept
<1>2. ~Crash /\ ~InsertFails
  BY DEF Crash, InsertFails, Fault
<1>3. ~EnqueueFails
  <2>1. /\ \A i \in matching : CertAt(i) \in Certs
        /\ outbox \in [Certs -> Nat]
    BY RowFacts DEF Inv, WriterInv, WriterTypeOK, FlushInv
  <2> QED
    BY <2>1 DEF EnqueueFails, MatchRow, Fault
<1>4. c \in certs => outbox[c] > 0 \/ \E i \in matching : CertAt(i) = c
  BY <1>1 DEF EveryMatchAlerted
<1> QED
  BY <1>2, <1>3, <1>4, MatchKept

(* writer.rs, flush_batch: unless something failed, a stored certificate    *)
(* that every watch list matches has an alert or is about to get one.       *)
THEOREM NoMatchMissed == Spec => []EveryMatchAlerted
<1>1. Init => EveryMatchAlerted
  BY DEF Init, WriterInit, EveryMatchAlerted
<1>2. Inv /\ EveryMatchAlerted /\ [Next]_vars => EveryMatchAlerted'
  BY AlertedStep
<1> QED
  BY <1>1, <1>2, InvAlways, PTL DEF Spec

(* writer.rs, flush_batch: a crash, or a failed insert that was committed,  *)
(* leaves at most a batch of matching certificates without an alert, a      *)
(* failed enqueue one, and nothing else any.                                *)
LEMMA MissStep ==
    ASSUME Inv, [Next]_vars
    PROVE  Cardinality(Missed' \ Missed) <= IF Crash \/ InsertFails THEN BatchMax
                                            ELSE IF EnqueueFails THEN 1 ELSE 0
<1> DEFINE New == Missed' \ Missed
           row == [k \in 1 .. Len(batch) |-> CertAt(k)]
<1>t. /\ Len(batch) \in Nat /\ Len(batch) <= BatchMax /\ BatchMax \in Nat
      /\ FlushInv /\ outbox \in [Certs -> Nat] /\ certs \subseteq Certs
      /\ matching \subseteq 1 .. Len(batch)
  BY WriterAssumption DEF Inv, WriterInv, WriterTypeOK
<1>n. ASSUME NEW c \in New
      PROVE  /\ c \in certs' /\ AlwaysWatched(c) /\ outbox'[c] = 0
             /\ ~\E i \in matching' : CertAt(i)' = c
             /\ c \in certs => outbox[c] # 0 \/ \E i \in matching : CertAt(i) = c
  BY DEF Missed, AlwaysWatched
<1>b. ASSUME \A c \in New : \E k \in 1 .. Len(batch) : CertAt(k) = c
      PROVE  Cardinality(New) \in Nat /\ Cardinality(New) <= BatchMax
  <2>1. \A c \in New : \E k \in 1 .. Len(batch) : row[k] = c
    BY <1>b
  <2> HIDE DEF New, row
  <2>2. Cardinality(New) \in Nat /\ Cardinality(New) <= Len(batch)
    BY <1>t, <2>1, Covered
  <2> QED
    BY <1>t, <2>2
<1> HIDE DEF New, row
<1>1. CASE Crash
  <2>1. certs' = certs /\ outbox' = outbox
    BY <1>1 DEF Crash, WriterCrash
  <2>2. \A c \in New : \E k \in 1 .. Len(batch) : CertAt(k) = c
    BY <1>n, <1>t, <2>1
  <2> QED
    BY <1>1, <1>b, <2>2 DEF New
<1>2. CASE InsertFails
  <2>1. /\ phase = "insert" /\ certs' \in {certs, certs \cup RowCerts} /\ outbox' = outbox
        /\ matching = {}
    BY <1>2, <1>t DEF InsertFails, FlushInv
  <2>2. \A c \in New : c \in RowCerts
    BY <1>n, <2>1
  <2>3. \A c \in New : \E k \in 1 .. Len(batch) : CertAt(k) = c
    BY <2>2, RowFacts
  <2> QED
    BY <1>2, <1>b, <2>3 DEF New
<1>3. CASE EnqueueFails /\ ~Crash /\ ~InsertFails
  <2> PICK i \in matching : MatchRow(i) /\ UNCHANGED outbox
    BY <1>3 DEF EnqueueFails
  <2>1. certs' = certs /\ outbox' = outbox /\ matching' = matching \ {i} /\ batch' = batch
    BY DEF MatchRow
  <2>2. New \in SUBSET {CertAt(i)}
    BY <1>n, <2>1, BatchSame
  <2>3. IsFiniteSet({CertAt(i)}) /\ Cardinality({CertAt(i)}) = 1
    BY FS_Singleton
  <2>4. IsFiniteSet(New) /\ Cardinality(New) <= 1
    BY <2>2, <2>3, FS_Subset
  <2> QED
    BY <1>3, <2>4 DEF New
<1>4. CASE ~Crash /\ ~InsertFails /\ ~EnqueueFails
  <2>1. New = {}
    <3> SUFFICES ASSUME NEW c \in New PROVE FALSE
      OBVIOUS
    <3>1. c \in certs' /\ AlwaysWatched(c)
      BY <1>n
    <3>2. c \in certs => outbox[c] > 0 \/ \E i \in matching : CertAt(i) = c
      BY <1>n, <1>t
    <3>3. outbox'[c] > 0 \/ \E i \in matching' : CertAt(i)' = c
      BY <1>4, <3>1, <3>2, MatchKept
    <3> QED
      BY <1>n, <3>3
  <2>2. Cardinality(New) = 0
    BY <2>1, FS_EmptySet
  <2> QED
    BY <1>4, <2>2 DEF New
<1> QED
  BY <1>1, <1>2, <1>3, <1>4

(* A crash or a failed insert leaves at most a batch of matches without     *)
(* alert, a failed enqueue one, nothing else any (writer.rs, flush_batch).  *)
THEOREM MissCost == Spec => MissBounded
<1>1. Inv /\ [Next]_vars =>
          [Cardinality(Missed' \ Missed) <= IF Crash \/ InsertFails THEN BatchMax
                                            ELSE IF EnqueueFails THEN 1 ELSE 0]_vars
  BY MissStep
<1> QED
  BY <1>1, InvAlways, PTL DEF Spec, MissBounded

-----------------------------------------------------------------------------
(* names.rs, upsert: first_seen and last_seen are dates of stored           *)
(* certificates that carry the name.                                        *)
Dated(n) ==
    \E c, d \in certs : /\ n \in NamesOf[c] /\ n \in NamesOf[d]
                        /\ seen[n].first = NotBefore[c]
                        /\ seen[n].last = NotBefore[d]

Named(c, n) == seen[n] # Unseen \/ \E p \in naming : CertAt(p[1]) = c /\ p[2] = n

LEMMA NamesAgreeMeans ==
    NamesAgree <=>
        /\ \A n \in Names : seen[n] # Unseen => Dated(n)
        /\ faults \cap {"crash", "insert", "names"} = {} =>
               \A c \in certs : \A n \in NamesOf[c] : Named(c, n)
BY DEF NamesAgree, Dated, Named

(* The upsert of one name. *)
LEMMA NamesAgreeUpsert ==
    ASSUME Inv, NamesAgree, NEW i, NEW m, UpsertName(i, m)
    PROVE  NamesAgree'
<1>t. /\ seen \in [Names -> Seen] /\ certs \subseteq Certs /\ FlushInv
      /\ NotBefore \in [Certs -> Nat] /\ naming \subseteq RowNames
  BY EntriesAssumption DEF Inv, WriterInv, WriterTypeOK, FlushInv
<1>1. /\ phase = "flush" /\ <<i, m>> \in naming /\ naming' = naming \ {<<i, m>>}
      /\ \/ /\ seen' = [seen EXCEPT ![m] = Observe(@, NotBefore[CertAt(i)])]
            /\ faults' = faults
         \/ seen' = seen /\ faults' = faults \cup {"names"}
      /\ UNCHANGED <<batch, certs>>
  BY DEF UpsertName, Fault
<1>2. /\ i \in Rows /\ m \in Names /\ m \in NamesOf[CertAt(i)]
      /\ CertAt(i) \in certs /\ NotBefore[CertAt(i)] \in Nat
  <2>1. i \in Rows /\ m \in Names /\ m \in NamesOf[CertAt(i)]
    BY <1>t, <1>1 DEF RowNames
  <2>2. CertAt(i) \in certs
    BY <1>t, <1>1, <2>1, RowFacts DEF FlushInv
  <2> QED
    BY <1>t, <2>1, <2>2
<1>b. \A k : CertAt(k)' = CertAt(k)
  BY <1>1, BatchSame
<1>3. CASE seen' = seen /\ faults' = faults \cup {"names"}
  <2>1. \A n \in Names : seen'[n] # Unseen => Dated(n)'
    BY <1>1, <1>3, NamesAgreeMeans DEF Dated
  <2> QED
    BY <1>3, <2>1 DEF NamesAgree, Dated
<1>4. CASE seen' = [seen EXCEPT ![m] = Observe(@, NotBefore[CertAt(i)])] /\ faults' = faults
  <2> DEFINE t == NotBefore[CertAt(i)]
  <2>1. seen[m] \in Seen /\ t \in Nat /\ seen'[m] = Observe(seen[m], t)
    BY <1>t, <1>2, <1>4
  <2>2. /\ seen'[m] # Unseen /\ seen'[m].last = t
        /\ seen'[m].first = (IF seen[m] = Unseen THEN t ELSE seen[m].first)
    BY <2>1, ObserveType
  <2>3. \A n \in Names : n # m => seen'[n] = seen[n]
    BY <1>t, <1>4
  <2>4. ASSUME NEW n \in Names, seen'[n] # Unseen
        PROVE  Dated(n)'
    <3>1. CASE n # m
      BY <1>1, <2>3, <2>4, <3>1, NamesAgreeMeans DEF Dated
    <3>2. CASE n = m /\ seen[m] = Unseen
      BY <1>1, <1>2, <2>2, <3>2 DEF Dated
    <3>3. CASE n = m /\ seen[m] # Unseen
      <4>1. PICK c \in certs : m \in NamesOf[c] /\ seen[m].first = NotBefore[c]
        BY <1>2, <3>3, NamesAgreeMeans DEF Dated
      <4> QED
        BY <1>1, <1>2, <2>2, <3>3, <4>1 DEF Dated
    <3> QED
      BY <3>1, <3>2, <3>3
  <2>5. ASSUME faults \cap {"crash", "insert", "names"} = {},
               NEW c \in certs, NEW n \in NamesOf[c]
        PROVE  Named(c, n)'
    <3>1. n \in Names
      BY <1>t, WriterAssumption
    <3>2. CASE n = m
      BY <2>2, <3>2 DEF Named
    <3>3. CASE n # m
      <4>1. Named(c, n)
        BY <2>5, NamesAgreeMeans
      <4> QED
        BY <1>1, <1>b, <2>3, <3>1, <3>3, <4>1 DEF Named
    <3> QED
      BY <3>2, <3>3
  <2> QED
    BY <1>1, <1>4, <2>4, <2>5 DEF NamesAgree, Dated, Named
<1> QED
  BY <1>1, <1>3, <1>4

LEMMA NamesAgreeStep ==
    ASSUME Inv, NamesAgree, [Next]_vars
    PROVE  NamesAgree'
<1>t. certs \subseteq Certs /\ FlushInv
  BY DEF Inv, WriterInv, WriterTypeOK
<1>1. CASE UNCHANGED <<batch, naming, certs, seen>> /\ faults \subseteq faults'
  <2>1. \A k : CertAt(k)' = CertAt(k)
    BY <1>1, BatchSame
  <2> QED
    BY <1>1, <2>1 DEF NamesAgree
<1>2. CASE RecvFirst \/ DrainMore \/ DrainDone \/ Broadcast
  <2>1. naming = {} /\ naming' = {} /\ UNCHANGED <<certs, seen, faults>>
    BY <1>2, <1>t DEF RecvFirst, DrainMore, DrainDone, Broadcast, FlushInv
  <2> QED
    BY <2>1 DEF NamesAgree
<1>3. CASE InsertBatch
  <2>1. /\ naming = {} /\ certs' = certs \cup RowCerts /\ naming' = RowNames
        /\ UNCHANGED <<seen, faults, batch>>
    BY <1>3, <1>t DEF InsertBatch, FlushInv
  <2>2. \A n \in Names : seen'[n] # Unseen => Dated(n)'
    BY <2>1, NamesAgreeMeans DEF Dated
  <2>3. ASSUME faults \cap {"crash", "insert", "names"} = {},
               NEW c \in certs', NEW n \in NamesOf[c]
        PROVE  Named(c, n)'
    <3>1. CASE c \in certs
      BY <2>1, <2>3, <3>1, NamesAgreeMeans DEF Named
    <3>2. CASE c \in RowCerts
      <4>1. PICK i \in Rows : CertAt(i) = c
        BY <3>2, RowFacts
      <4>2. n \in Names
        BY <3>2, RowFacts, WriterAssumption
      <4>3. <<i, n>> \in naming'
        BY <2>1, <4>1, <4>2 DEF RowNames
      <4>4. CertAt(i)' = c
        BY <2>1, <4>1, BatchSame
      <4> QED
        BY <4>3, <4>4 DEF Named
    <3> QED
      BY <2>1, <3>1, <3>2
  <2> QED
    BY <2>1, <2>2, <2>3 DEF NamesAgree, Dated, Named
<1>4. CASE InsertFails \/ Crash
  <2>1. certs \subseteq certs' /\ seen' = seen
        /\ faults' \cap {"crash", "insert", "names"} # {}
    BY <1>4 DEF InsertFails, Crash, WriterCrash, Fault
  <2>2. \A n \in Names : seen'[n] # Unseen => Dated(n)'
    BY <2>1, NamesAgreeMeans DEF Dated
  <2> QED
    BY <2>1, <2>2 DEF NamesAgree, Dated
<1>5. CASE \E p \in naming : UpsertName(p[1], p[2])
  BY <1>5, NamesAgreeUpsert
<1>6. ASSUME NEW w \in Workers, WorkerStep(w), UNCHANGED writerVars
      PROVE  NamesAgree'
  <2>1. faults \subseteq faults'
    BY <1>6, WorkerSends DEF Inv
  <2> QED
    BY <2>1, <1>6, <1>1 DEF writerVars
<1>7. CASE \/ \E l \in Logs : Publish(l) /\ UNCHANGED writerVars
           \/ \E i \in matching : MatchRow(i)
           \/ \E W \in WatchLists : ReplaceMatcher(W)
           \/ UNCHANGED vars
  BY <1>7, <1>1 DEF Publish, MatchRow, ReplaceMatcher, Fault, vars, queueVars, writerVars
<1> QED
  BY <1>2, <1>3, <1>4, <1>5, <1>6, <1>7 DEF Next, IngestStep, WriterStep, FlushStep

(* writer.rs, names.rs: names_observed agrees with certs, whatever order    *)
(* the certificates come in.                                                *)
THEOREM NamesFollowCerts == Spec => []NamesAgree
<1>1. Init => NamesAgree
  BY DEF Init, WriterInit, NamesAgree
<1>2. Inv /\ NamesAgree /\ [Next]_vars => NamesAgree'
  BY NamesAgreeStep
<1> QED
  BY <1>1, <1>2, InvAlways, PTL DEF Spec

-----------------------------------------------------------------------------
(* Pipeline implements Mirror: what a step does to the mirrored state.      *)
From == [l \in Logs |-> IF base[l] = NotFollowed THEN 0 ELSE base[l]]

LEMMA MirrorStutters ==
    ASSUME UNCHANGED <<tree, cursor, From, handed, certs, outbox, streamed>>
    PROVE  UNCHANGED M!mirrorVars
BY DEF From, M!mirrorVars

LEMMA MirrorInit == Init => M!Init
BY DEF Init, WorkerInit, WriterInit, M!Init, M!Unknown, NoRow, NotFollowed

(* worker.rs: what a worker does to its log's cursor, and to what was       *)
(* handed over, the mirror does to its position, and to what was taken.     *)
LEMMA MirrorWorker ==
    ASSUME Inv, NEW w \in Workers, WorkerStep(w), UNCHANGED writerVars
    PROVE  M!Next \/ UNCHANGED M!mirrorVars
<1> DEFINE l == LogOf[w]
<1>l. l \in Logs
  BY LogOfType
<1>t. /\ tree \in [Logs -> Nat] /\ cursor \in [Logs -> Nat \cup {NoRow}]
      /\ pos \in [Workers -> Nat] /\ target \in [Workers -> Nat]
      /\ base \in [Logs -> Nat \cup {NotFollowed}]
      /\ TargetPublished /\ PosHanded
      /\ pos[w] \in Nat /\ target[w] \in Nat /\ tree[l] \in Nat
      /\ cursor[l] \in Int /\ base[l] \in Int
  BY <1>l DEF Inv, IngestInv, WorkerTypeOK, HandedInv, NoRow, NotFollowed
<1>w. UNCHANGED <<certs, outbox, streamed>>
  BY DEF writerVars
<1>f. ASSUME UNCHANGED <<tree, cursor, base, handed>>
      PROVE  UNCHANGED M!mirrorVars
  BY <1>w, <1>f, MirrorStutters DEF From
<1>n. ASSUME M!FollowStep(l) PROVE M!Next
  BY <1>l, <1>n DEF M!Next
<1>1. CASE EnsureCursor(w) \/ EnsureCursorFails(w)
  <2>1. /\ cursor' \in {cursor, [cursor EXCEPT ![l] = Upsert(@)]}
        /\ UNCHANGED <<tree, base, handed>>
    BY <1>1 DEF EnsureCursor, EnsureCursorFails
  <2>2. CASE cursor' = cursor
    BY <1>f, <2>1, <2>2
  <2>3. CASE cursor' = [cursor EXCEPT ![l] = Upsert(@)] /\ cursor[l] = NoRow
    <3>1. M!Register(l)
      BY <1>w, <2>1, <2>3 DEF M!Register, M!Unknown, Upsert, NoRow
    <3> QED
      BY <1>n, <3>1 DEF M!FollowStep
  <2>4. CASE cursor' = [cursor EXCEPT ![l] = Upsert(@)] /\ cursor[l] # NoRow
    <3>1. cursor' = cursor
      BY <1>t, <2>4 DEF Upsert
    <3> QED
      BY <1>f, <2>1, <3>1
  <2> QED
    BY <2>1, <2>2, <2>3, <2>4
<1>2. CASE \E s \in 0 .. tree[l] : GetSth(w, s)
  <2>1. /\ base' = [base EXCEPT ![l] = base'[l]]
        /\ base'[l] = base[l] \/ (base[l] = NotFollowed /\ base'[l] = 0)
        /\ UNCHANGED <<tree, cursor, handed>>
    BY <1>2, <1>t, <1>l DEF GetSth
  <2>2. ASSUME NEW k \in Logs
        PROVE  base'[k] = base[k] \/ (base[k] = NotFollowed /\ base'[k] = 0)
    BY <2>1, <1>t, <1>l
  <2>3. From' = From
    BY <2>2 DEF From, NotFollowed
  <2> QED
    BY <1>w, <2>1, <2>3, MirrorStutters
<1>3. CASE SkipToHead(w)
  <2>1. /\ cursor' = [cursor EXCEPT ![l] = Advance(@, target[w])]
        /\ base' = [base EXCEPT ![l] = IF cursor[l] < target[w] THEN target[w] ELSE @]
        /\ wpc[w] = "skip" /\ UNCHANGED <<tree, handed>>
    BY <1>3 DEF SkipToHead
  <2>2. CASE cursor[l] < target[w]
    <3> PICK p \in Nat : p = target[w]
      BY <1>t
    <3>1. p \in 0 .. tree[l]
      BY <1>t, <2>1 DEF TargetPublished
    <3>2. /\ cursor' = [cursor EXCEPT ![l] = p]
          /\ base' = [base EXCEPT ![l] = p]
      BY <2>1, <2>2, <1>l, <1>t DEF Advance
    <3>3. From' = [From EXCEPT ![l] = p]
      <4>1. ASSUME NEW k \in Logs
            PROVE  base'[k] = IF k = l THEN p ELSE base[k]
        BY <3>2, <1>t
      <4>2. p # NotFollowed
        BY DEF NotFollowed
      <4>3. ASSUME NEW k \in Logs
            PROVE  From'[k] = [From EXCEPT ![l] = p][k]
        BY <4>1, <4>2 DEF From
      <4>4. /\ From' = [k \in Logs |-> From'[k]]
            /\ [From EXCEPT ![l] = p] = [k \in Logs |-> [From EXCEPT ![l] = p][k]]
        BY DEF From
      <4> QED
        BY <4>3, <4>4
    <3>4. M!Follow(l, p)
      <4>1. UNCHANGED <<tree, handed, certs, outbox, streamed>>
        BY <1>w, <2>1
      <4> QED
        BY <4>1, <2>2, <3>1, <3>2, <3>3 DEF M!Follow, From
    <3>5. \E q \in 0 .. tree[l] : M!Follow(l, q) \/ M!MoveOn(l, q)
      BY <3>1, <3>4
    <3> QED
      BY <1>n, <3>5 DEF M!FollowStep
  <2>3. CASE ~(cursor[l] < target[w])
    <3>1. cursor' = cursor /\ base' = base
      BY <1>t, <1>l, <2>1, <2>3 DEF Advance
    <3> QED
      BY <1>f, <2>1, <3>1
  <2> QED
    BY <2>2, <2>3
<1>4. CASE SendEntry(w)
  <2>1. /\ wpc[w] = "send" /\ pos[w] < target[w] /\ EntryAt(l, pos[w]) # Undecodable
        /\ handed' = handed \cup {JobOf(l, pos[w])} /\ UNCHANGED <<tree, cursor, base>>
    BY <1>4 DEF SendEntry
  <2>2. pos[w] \in 0 .. tree[l] - 1
    BY <1>t, <2>1 DEF TargetPublished
  <2>3. M!TakeOver([log |-> l, index |-> pos[w]])
    BY <1>w, <2>1 DEF M!TakeOver, M!EntryOf, JobOf, EntryAt
  <2> QED
    BY <1>n, <2>2, <2>3 DEF M!FollowStep
<1>5. CASE AdvanceCursor(w)
  <2>1. /\ wpc[w] = "send" /\ pos[w] = target[w]
        /\ cursor' = [cursor EXCEPT ![l] = Advance(@, target[w])]
        /\ UNCHANGED <<tree, base, handed>>
    BY <1>5 DEF AdvanceCursor
  <2>2. CASE cursor[l] < target[w]
    <3>1. target[w] \in 0 .. tree[l]
      BY <1>t, <2>1 DEF TargetPublished
    <3>2. cursor' = [cursor EXCEPT ![l] = target[w]]
      BY <2>1, <2>2, <1>l, <1>t DEF Advance
    <3>3. HandedBelow(l, target[w])
      BY <1>t, <2>1 DEF PosHanded
    <3>4. \A i \in 0 .. target[w] - 1 : i >= From[l] => [log |-> l, index |-> i] \in handed
      BY <1>l, <1>t, <3>3 DEF HandedBelow, JobOf, From, NotFollowed
    <3>5. M!MoveOn(l, target[w])
      <4>1. UNCHANGED <<tree, base, handed, certs, outbox, streamed>>
        BY <1>w, <2>1
      <4> QED
        BY <1>l, <4>1, <2>2, <3>1, <3>2, <3>4 DEF M!MoveOn, From
    <3> QED
      BY <1>n, <3>1, <3>5 DEF M!FollowStep
  <2>3. CASE ~(cursor[l] < target[w])
    <3>1. cursor' = cursor
      BY <1>t, <1>l, <2>1, <2>3 DEF Advance
    <3> QED
      BY <1>f, <2>1, <3>1
  <2> QED
    BY <2>2, <2>3
<1>6. CASE ReadCursor(w) \/ DecodeFails(w) \/ TickFails(w)
           \/ \E n \in 0 .. BatchSize : GetEntries(w, n)
  <2>1. UNCHANGED <<tree, cursor, base, handed>>
    BY <1>6 DEF ReadCursor, DecodeFails, TickFails, GetEntries
  <2> QED
    BY <1>f, <2>1
<1> QED
  BY <1>1, <1>2, <1>3, <1>4, <1>5, <1>6 DEF WorkerStep

(* writer.rs: the insert of a batch stores certificates of entries taken    *)
(* over, an alert and the broadcast are about stored ones, and the rest of  *)
(* a flush is invisible.                                                    *)
LEMMA MirrorWriter ==
    ASSUME Inv, WriterStep, UNCHANGED workerVars
    PROVE  M!Next \/ UNCHANGED M!mirrorVars
<1> DEFINE Keepable == {c \in Certs : Storable(c)}
<1>w. UNCHANGED <<tree, cursor, base, handed>>
  BY DEF workerVars
<1>i. /\ QueueHanded /\ FlushInv /\ certs \subseteq Certs /\ outbox \in [Certs -> Nat]
      /\ batch \in Seq(Jobs)
  BY DEF Inv, WriterInv, WriterTypeOK
<1>r. RowCerts \subseteq Keepable /\ RowCerts \subseteq {M!EntryOf(t) : t \in handed}
  <2>1. ASSUME NEW i \in Rows
        PROVE  CertAt(i) \in Keepable /\ CertAt(i) \in {M!EntryOf(t) : t \in handed}
    <3>1. i \in 1 .. Len(batch) /\ Storable(CertAt(i)) /\ batch[i] \in handed
      BY <1>i DEF Rows, QueueHanded
    <3> QED
      BY <3>1 DEF Storable, CertAt, EntryOf, EntryAt, M!EntryOf
  <2> QED
    BY <2>1 DEF RowCerts
<1>f. ASSUME UNCHANGED <<certs, outbox, streamed>>
      PROVE  UNCHANGED M!mirrorVars
  BY <1>w, <1>f, MirrorStutters DEF From
<1>s. ASSUME certs' = certs \cup RowCerts, UNCHANGED <<outbox, streamed>>
      PROVE  M!Next
  <2>1. M!Store(RowCerts)
    BY <1>w, <1>r, <1>s DEF M!Store
  <2> QED
    BY <1>r, <2>1 DEF M!Next
<1>1. CASE InsertBatch
  BY <1>1, <1>s DEF InsertBatch
<1>2. CASE InsertFails
  <2>1. certs' \in {certs, certs \cup RowCerts} /\ UNCHANGED <<outbox, streamed>>
    BY <1>2 DEF InsertFails
  <2> QED
    BY <1>s, <1>f, <2>1
<1>3. CASE \E i \in matching : MatchRow(i)
  <2> PICK i \in matching : MatchRow(i)
    BY <1>3
  <2>1. /\ UNCHANGED <<certs, streamed>> /\ phase = "flush"
        /\ outbox' = outbox \/ outbox' = [outbox EXCEPT ![CertAt(i)] = @ + 1]
    BY DEF MatchRow
  <2>2. CASE outbox' = outbox
    BY <1>f, <2>1, <2>2
  <2>3. CASE outbox' = [outbox EXCEPT ![CertAt(i)] = @ + 1]
    <3>1. i \in Rows /\ CertAt(i) \in RowCerts
      BY <1>i, RowFacts DEF FlushInv
    <3>2. CertAt(i) \in certs /\ CertAt(i) \in Keepable
      BY <1>i, <1>r, <2>1, <3>1 DEF FlushInv
    <3> PICK d \in Keepable : d = CertAt(i)
      BY <3>2
    <3>3. {c \in Certs : outbox'[c] > 0} = {c \in Certs : outbox[c] > 0} \cup {d}
      BY <1>i, <2>3, <3>2
    <3>4. M!Alert(d)
      BY <1>w, <2>1, <3>2, <3>3 DEF M!Alert
    <3>5. \E c \in Keepable : M!Alert(c)
      BY <3>4
    <3> QED
      BY <3>5 DEF M!Next
  <2> QED
    BY <2>1, <2>2, <2>3
<1>4. CASE Broadcast
  <2>1. /\ phase = "flush" /\ streamed' = streamed \cup RowCerts
        /\ UNCHANGED <<certs, outbox>>
    BY <1>4 DEF Broadcast
  <2>2. M!Stream(RowCerts)
    BY <1>w, <1>i, <2>1 DEF M!Stream, FlushInv
  <2> QED
    BY <1>r, <2>2 DEF M!Next
<1>5. CASE RecvFirst \/ DrainMore \/ DrainDone \/ (\E p \in naming : UpsertName(p[1], p[2]))
           \/ \E W \in WatchLists : ReplaceMatcher(W)
  <2>1. UNCHANGED <<certs, outbox, streamed>>
    BY <1>5 DEF RecvFirst, DrainMore, DrainDone, UpsertName, ReplaceMatcher
  <2> QED
    BY <1>f, <2>1
<1> QED
  BY <1>1, <1>2, <1>3, <1>4, <1>5 DEF WriterStep, FlushStep

LEMMA MirrorStep == Inv /\ [Next]_vars => [M!Next]_M!mirrorVars
<1> SUFFICES ASSUME Inv, [Next]_vars PROVE M!Next \/ UNCHANGED M!mirrorVars
  OBVIOUS
<1>f. ASSUME UNCHANGED <<tree, cursor, base, handed, certs, outbox, streamed>>
      PROVE  UNCHANGED M!mirrorVars
  BY <1>f, MirrorStutters DEF From
<1>1. ASSUME NEW l \in Logs, Publish(l), UNCHANGED writerVars PROVE M!Next
  <2>1. M!Publish(l)
    BY <1>1 DEF Publish, writerVars, M!Publish
  <2> QED
    BY <2>1 DEF M!Next, M!FollowStep
<1>2. CASE Crash \/ UNCHANGED vars
  <2>1. UNCHANGED <<tree, cursor, base, handed, certs, outbox, streamed>>
    BY <1>2 DEF Crash, WorkerCrash, WriterCrash, vars, workerVars, writerVars
  <2> QED
    BY <1>f, <2>1
<1> QED
  BY <1>1, <1>2, MirrorWorker, MirrorWriter DEF Next, IngestStep

(* worker.rs, writer.rs: the tasks, the channel, the batches, the failures  *)
(* and the restarts together do nothing the abstract mirror would not do.   *)
THEOREM ImplementsMirror == Spec => MirrorSpec
BY MirrorInit, MirrorStep, InvAlways, PTL DEF Spec, MirrorSpec, M!Spec

-----------------------------------------------------------------------------
(* writer.rs, spawn and flush_batch: to the database, the writer is a       *)
(* client of insert_batch, with one call at a time and one answer to each,  *)
(* or none.                                                                 *)
LEMMA SameSize == \A S : Atomic!Cardinality(S) = Cardinality(S)
BY DEF Atomic!Cardinality, Cardinality

LEMMA CallsInit == Init => Atomic!Init
BY DEF Init, WriterInit, Atomic!Init

LEMMA CallsStep == Inv /\ [Next]_vars => [Atomic!Next]_Atomic!atomicVars
<1> SUFFICES ASSUME Inv, [Next]_vars PROVE Atomic!Next \/ UNCHANGED Atomic!atomicVars
  OBVIOUS
<1> DEFINE Asked == IF phase = "insert" THEN RowCerts ELSE {}
           Returned == IF phase = "flush" THEN Cardinality(fresh) ELSE 0
<1>s. ASSUME certs' = certs, Asked' = Asked, Returned' = Returned
      PROVE  UNCHANGED Atomic!atomicVars
  BY <1>s DEF Atomic!atomicVars
<1>a. ASSUME NEW S \in SUBSET Certs, Asked = {}, Asked' = S, certs' = certs, Returned' = Returned
      PROVE  Atomic!Next
  <2>1. Atomic!Call("serve", S)
    BY <1>a DEF Atomic!Call
  <2> QED
    BY <2>1 DEF Atomic!Next
<1>n. ASSUME \/ Atomic!Insert("serve") \/ Atomic!AnswerLost("serve") \/ Atomic!Refuse("serve")
             \/ Atomic!EndFlush("serve")
      PROVE  Atomic!Next
  BY <1>n DEF Atomic!Next
<1>1. CASE UNCHANGED <<phase, batch, fresh, certs>>
  <2>1. RowCerts' = RowCerts
    BY <1>1, BatchSame
  <2> QED
    BY <1>1, <2>1, <1>s
<1>2. CASE RecvFirst \/ DrainMore
  <2>1. certs' = certs /\ phase \in {"recv", "drain"} /\ phase' = "drain"
    BY <1>2 DEF RecvFirst, DrainMore
  <2> QED
    BY <2>1, <1>s
<1>3. CASE DrainDone
  <2>1. phase = "drain" /\ phase' = "insert" /\ certs' = certs /\ batch' = batch
    BY <1>3 DEF DrainDone
  <2>2. RowCerts' = RowCerts /\ RowCerts \in SUBSET Certs
    BY <2>1, BatchSame, RowFacts
  <2> QED
    BY <2>1, <2>2, <1>a
<1>4. CASE InsertBatch
  <2>1. /\ phase = "insert" /\ phase' = "flush" /\ certs' = certs \cup RowCerts
        /\ fresh' = RowCerts \ certs
    BY <1>4 DEF InsertBatch
  <2>2. Atomic!Insert("serve")
    BY <2>1, SameSize DEF Atomic!Insert, Atomic!Return
  <2> QED
    BY <2>2, <1>n
<1>5. CASE InsertFails
  <2>1. phase = "insert" /\ phase' = "recv" /\ certs' \in {certs, certs \cup RowCerts}
    BY <1>5 DEF InsertFails
  <2>2. Atomic!AnswerLost("serve") \/ Atomic!Refuse("serve")
    BY <2>1 DEF Atomic!AnswerLost, Atomic!Refuse, Atomic!Return
  <2> QED
    BY <2>2, <1>n
<1>6. CASE Broadcast
  <2>1. phase = "flush" /\ phase' = "recv" /\ certs' = certs
    BY <1>6 DEF Broadcast
  <2>2. Atomic!EndFlush("serve")
    BY <2>1 DEF Atomic!EndFlush
  <2> QED
    BY <2>2, <1>n
<1>7. CASE Crash
  <2>1. phase' = "recv" /\ certs' = certs
    BY <1>7 DEF Crash, WriterCrash
  <2>2. CASE phase = "insert"
    <3>1. Atomic!Refuse("serve")
      BY <2>1, <2>2 DEF Atomic!Refuse, Atomic!Return
    <3> QED
      BY <3>1, <1>n
  <2>3. CASE phase = "flush"
    <3>1. Atomic!EndFlush("serve")
      BY <2>1, <2>3 DEF Atomic!EndFlush
    <3> QED
      BY <3>1, <1>n
  <2>4. CASE phase \notin {"insert", "flush"}
    BY <2>1, <2>4, <1>s
  <2> QED
    BY <2>2, <2>3, <2>4
<1>8. CASE IngestStep /\ UNCHANGED writerVars
  BY <1>8, <1>1 DEF writerVars
<1>9. CASE \/ (\E p \in naming : UpsertName(p[1], p[2])) \/ (\E i \in matching : MatchRow(i))
           \/ (\E W \in WatchLists : ReplaceMatcher(W)) \/ UNCHANGED vars
  BY <1>9, <1>1 DEF UpsertName, MatchRow, ReplaceMatcher, vars, writerVars
<1> QED
  BY <1>2, <1>3, <1>4, <1>5, <1>6, <1>7, <1>8, <1>9 DEF Next, WriterStep, FlushStep

(* The writer of serve inserts as AtomicInsert allows (writer.rs,           *)
(* flush_batch; certs.rs, insert_batch).                                    *)
THEOREM ImplementsAtomicInsert == Spec => OneCallAtATime
BY CallsInit, CallsStep, InvAlways, PTL DEF Spec, OneCallAtATime, Atomic!Spec

=============================================================================
