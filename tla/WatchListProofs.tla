--------------------------- MODULE WatchListProofs ---------------------------
(***************************************************************************)
(* WatchList: what certificates are matched against is one whole list of   *)
(* the source, not older than the last listing that succeeded, for any     *)
(* domains, any contents of the file or the URL and any failures.          *)
(***************************************************************************)
EXTENDS WatchList, TLAPS

(* Only a serving process has a loop, only in db mode is the table listed   *)
(* first, and before the first reload the matcher is empty. What the source *)
(* holds now, and what the loop listed, belong to what the source has held  *)
(* since that listing.                                                      *)
Reloading ==
    /\ loop # "off" => up = "serving"
    /\ up # "serving" => matcher = {} /\ ~listed
    /\ up = "listing" => mode = "db"
    /\ up # "down" => InMemory(Source(mode)) \in since
    /\ loop = "replace" => {InMemory(loaded), InMemory(Source(mode))} \subseteq fresh

Inv == TypeOK /\ Reloading /\ MatcherIsOneList

-----------------------------------------------------------------------------
(* The contents of a source and of the matcher are sets of domains.         *)
LEMMA ListTypes ==
    ASSUME TypeOK
    PROVE  /\ \A m \in Modes : Source(m) \subseteq Texts
           /\ \A S \in SUBSET Texts : InMemory(S) \subseteq Texts
           /\ \A d \in Texts : Normal(d) \in Texts
BY WatchListAssumption DEF TypeOK, Modes, Source, InMemory, Normal

(* The contents of the source change only with it.                          *)
LEMMA SourceSame ==
    ASSUME UNCHANGED <<mode, table, remote>>
    PROVE  (Source(mode))' = Source(mode)
BY DEF Source

LEMMA ListInit == Init => Inv
BY WatchListAssumption
DEF Init, Inv, TypeOK, Reloading, MatcherIsOneList, Modes

-----------------------------------------------------------------------------
(* The process starts, lists the table first, or dies.                      *)
LEMMA StartStep ==
    ASSUME Inv, NEW m \in Modes, Start(m)
    PROVE  Inv'
<1> USE DEF Inv
<1>1. TypeOK'
  BY ListTypes DEF Start, TypeOK, Modes
<1>2. Reloading'
  <2>1. since' = {InMemory(Source(m))} /\ mode' = m /\ loop' # "replace" /\ UNCHANGED <<table, remote>>
    BY DEF Start
  <2>2. (Source(mode))' = Source(m)
    BY <2>1 DEF Source
  <2>3. QED
    BY <2>1, <2>2 DEF Start, Reloading
<1>3. MatcherIsOneList'
  BY DEF Start, Reloading, MatcherIsOneList, InMemory
<1>4. QED
  BY <1>1, <1>2, <1>3

LEMMA ListFirstStep ==
    ASSUME Inv, ListFirst \/ ListFirstFails
    PROVE  Inv'
<1> USE DEF Inv
<1>1. CASE ListFirst
  <2>1. mode = "db" /\ Source(mode) = table
    BY <1>1 DEF ListFirst, Reloading, Source
  <2>2. TypeOK'
    BY <1>1, ListTypes DEF ListFirst, TypeOK
  <2>3. Reloading'
    BY <1>1, <2>1, SourceSame DEF ListFirst, Reloading
  <2>4. MatcherIsOneList'
    BY <1>1 DEF ListFirst, MatcherIsOneList
  <2>5. QED
    BY <2>2, <2>3, <2>4
<1>2. CASE ListFirstFails
  <2>1. TypeOK'
    BY <1>2, WatchListAssumption DEF ListFirstFails, Fault, TypeOK
  <2>2. Reloading'
    BY <1>2, SourceSame DEF ListFirstFails, Reloading
  <2>3. MatcherIsOneList'
    BY <1>2 DEF ListFirstFails, Fault, Reloading, MatcherIsOneList
  <2>4. QED
    BY <2>1, <2>2, <2>3
<1>3. QED
  BY <1>1, <1>2

LEMMA DieStep == ASSUME Inv, Die PROVE Inv'
BY WatchListAssumption
DEF Inv, Die, Fault, TypeOK, Reloading, MatcherIsOneList

(* A round of the loop, with its failure.                                   *)
LEMMA LoopStep ==
    ASSUME Inv, List \/ ListFails \/ Replace \/ Wake
    PROVE  Inv'
<1> USE DEF Inv
<1>1. CASE List
  <2>1. TypeOK'
    BY <1>1, ListTypes DEF List, TypeOK
  <2>2. Reloading'
    BY <1>1, SourceSame DEF List, Reloading
  <2>3. MatcherIsOneList'
    BY <1>1 DEF List, MatcherIsOneList, InMemory
  <2>4. QED
    BY <2>1, <2>2, <2>3
<1>2. CASE ListFails
  <2>1. TypeOK'
    BY <1>2, WatchListAssumption DEF ListFails, Fault, TypeOK
  <2>2. Reloading'
    BY <1>2, SourceSame DEF ListFails, Reloading
  <2>3. MatcherIsOneList'
    BY <1>2 DEF ListFails, Fault, MatcherIsOneList, InMemory
  <2>4. QED
    BY <2>1, <2>2, <2>3
<1>3. CASE Replace
  <2>1. InMemory(loaded) \in fresh /\ up = "serving"
    BY <1>3 DEF Replace, Reloading
  <2>2. TypeOK'
    BY <1>3, ListTypes DEF Replace, TypeOK
  <2>3. Reloading'
    BY <1>3, <2>1, SourceSame DEF Replace, Reloading
  <2>4. MatcherIsOneList'
    BY <1>3, <2>1 DEF Replace, MatcherIsOneList, InMemory
  <2>5. QED
    BY <2>2, <2>3, <2>4
<1>4. CASE Wake
  <2>1. TypeOK' /\ Reloading'
    BY <1>4, SourceSame DEF Wake, TypeOK, Reloading
  <2>2. MatcherIsOneList'
    BY <1>4 DEF Wake, MatcherIsOneList, InMemory
  <2>3. QED
    BY <2>1, <2>2
<1>5. QED
  BY <1>1, <1>2, <1>3, <1>4

(* The source is edited: the table by the API, the rest by somebody else.   *)
LEMMA PutStep ==
    ASSUME Inv, NEW rows \in SUBSET Texts, Put(rows)
    PROVE  Inv'
<1> USE DEF Inv
<1>1. InMemory(rows) \in SUBSET Texts /\ (Source(mode))' = rows
  <2>1. mode' = "db" /\ table' = rows
    BY DEF Put
  <2>2. QED
    BY <2>1, ListTypes DEF Source
<1>2. TypeOK'
  BY <1>1 DEF Put, Holds, TypeOK
<1>3. Reloading'
  <2>1. /\ UNCHANGED <<mode, up, loop, loaded, matcher, listed>>
        /\ since' = since \cup {InMemory(rows)}
        /\ loop = "replace" => fresh' = fresh \cup {InMemory(rows)}
    BY DEF Put, Holds
  <2>2. QED
    BY <1>1, <2>1 DEF Reloading, InMemory
<1>4. MatcherIsOneList'
  BY DEF Put, Holds, MatcherIsOneList
<1>5. QED
  BY <1>2, <1>3, <1>4

LEMMA EditStep ==
    ASSUME Inv, NEW S \in Contents, Edit(S)
    PROVE  Inv'
<1> USE DEF Inv
<1>1. InMemory(S) \in SUBSET Texts
  BY WatchListAssumption, ListTypes
<1>2. TypeOK'
  BY <1>1, WatchListAssumption DEF Edit, Holds, TypeOK
<1>3. Reloading'
  <2>1. CASE mode \in {"file", "url"}
    <3>1. /\ UNCHANGED <<mode, up, loop, loaded, matcher, listed>>
          /\ since' = since \cup {InMemory(S)}
          /\ loop = "replace" => fresh' = fresh \cup {InMemory(S)}
      BY <2>1 DEF Edit, Holds
    <3>2. (Source(mode))' = S
      BY <2>1, <3>1 DEF Edit, Source
    <3>3. QED
      BY <3>1, <3>2 DEF Reloading, InMemory
  <2>2. CASE mode \notin {"file", "url"}
    <3>1. (Source(mode))' = Source(mode)
      BY <2>2 DEF Edit, TypeOK, Modes, Source
    <3>2. QED
      BY <2>2, <3>1 DEF Edit, Reloading, InMemory
  <2>3. QED
    BY <2>1, <2>2
<1>4. MatcherIsOneList'
  BY DEF Edit, Holds, MatcherIsOneList
<1>5. QED
  BY <1>2, <1>3, <1>4

LEMMA ListStep == Inv /\ [Next]_vars => Inv'
<1> SUFFICES ASSUME Inv, [Next]_vars
             PROVE  Inv'
  OBVIOUS
<1>1. ASSUME NEW m \in Modes, Start(m)
      PROVE  Inv'
  BY <1>1, StartStep
<1>2. CASE ListFirst \/ ListFirstFails
  BY <1>2, ListFirstStep
<1>3. CASE List \/ ListFails \/ Replace \/ Wake
  BY <1>3, LoopStep
<1>4. CASE Die
  BY <1>4, DieStep
<1>5. ASSUME NEW d \in Texts, Add(d) \/ Remove(d)
      PROVE  Inv'
  <2>1. table \cup {Normal(d)} \in SUBSET Texts /\ table \ {Normal(d)} \in SUBSET Texts
    BY ListTypes DEF Inv, TypeOK
  <2>2. QED
    BY <1>5, <2>1, PutStep DEF Add, Remove
<1>6. ASSUME NEW S \in Contents, Edit(S)
      PROVE  Inv'
  BY <1>6, EditStep
<1>7. CASE UNCHANGED vars
  <2>1. TypeOK' /\ Reloading'
    BY <1>7, SourceSame DEF vars, Inv, TypeOK, Reloading
  <2>2. MatcherIsOneList'
    BY <1>7 DEF vars, Inv, MatcherIsOneList, InMemory
  <2>3. QED
    BY <2>1, <2>2 DEF Inv
<1>8. QED
  BY <1>1, <1>2, <1>3, <1>4, <1>5, <1>6, <1>7 DEF Next, Failures, Edits

(* The inductive invariant holds of every run of the watch list.            *)
THEOREM ListInvariance == Spec => []Inv
BY ListInit, ListStep, PTL DEF Spec

-----------------------------------------------------------------------------
(* Certificates are matched against one whole list, never one older than    *)
(* the last listing that succeeded (src/watchlist/mod.rs, matcher.rs).      *)
THEOREM OneWholeList == Spec => []MatcherIsOneList
<1>1. Inv => MatcherIsOneList
  BY DEF Inv
<1>2. QED
  BY <1>1, ListInvariance, PTL
=============================================================================
