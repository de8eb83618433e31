----------------------------- MODULE WatchList -----------------------------
(***************************************************************************)
(* Where the watch list in memory comes from (src/watchlist, cmd/serve.rs, *)
(* api/watchlist.rs). Its source is the watchlist table ("db"), which the  *)
(* API edits, or a file or a URL somebody else edits. One loop lists the   *)
(* source and then replaces the list in memory; when it cannot list it,    *)
(* the old list stays. In db mode the table is listed once more, before    *)
(* the writer is spawned; in the others the writer starts with no list.    *)
(* The writer (Writer!ReplaceMatcher) takes any sequence of lists.         *)
(*                                                                         *)
(* A file is taken to be replaced as a whole. The refresh interval is      *)
(* abstracted: the loop may wake at any time.                              *)
(***************************************************************************)
EXTENDS Integers, FiniteSets

CONSTANTS
    Texts,     \* domains as operators write them
    Lower,     \* to_ascii_lowercase
    Reg,       \* registered_domain, or NoDomain; it keeps the case
    NoDomain,
    Contents,  \* what the file or the URL may hold
    Faults     \* "list": the source cannot be listed; "crash": the process dies

ASSUME WatchListAssumption ==
    /\ NoDomain \notin Texts
    /\ Lower \in [Texts -> Texts]
    /\ Reg \in [Texts -> Texts \cup {NoDomain}]
    /\ Contents \subseteq SUBSET Texts
    /\ Faults \subseteq {"list", "crash"}

VARIABLES
    mode,     \* WATCHLIST_MODE of this process
    up,       \* the process is down, lists the table first, or serves
    table,    \* table watchlist
    remote,   \* what the file or the URL holds
    loop,     \* where the reload loop is
    loaded,   \* what it listed and has not put in place yet
    matcher,  \* Matcher.inner
    listed,   \* history: this process could list its source
    since,    \* history: what lists the contents its source has had since the list
              \* in memory was read make in memory; since the start, if none was
    fresh,    \* history: the same for the list the loop is about to put in place
    faults    \* history: the kinds of failure so far

vars == <<mode, up, table, remote, loop, loaded, matcher,
          listed, since, fresh, faults>>

Modes == {"db", "file", "url", "disabled"}

-----------------------------------------------------------------------------
Source(m) == CASE m = "db" -> table
               [] m \in {"file", "url"} -> remote
               [] m = "disabled" -> {}

(* What Matcher::replace keeps of the domains S. *)
InMemory(S) == {Lower[d] : d \in S}

(* What the API makes of a domain. *)
Normal(d) == IF Reg[d] = NoDomain THEN Lower[d] ELSE Reg[d]

Fault(k) == k \in Faults /\ faults' = faults \cup {k}

-----------------------------------------------------------------------------
(* run: the process starts with some configuration. *)
Start(m) ==
    /\ up = "down"
    /\ mode' = m
    /\ up' = IF m = "db" THEN "listing" ELSE "serving"
    /\ loop' = IF m \in {"file", "url"} THEN "list" ELSE "off"
    /\ since' = {InMemory(Source(m))}
    /\ UNCHANGED <<table, remote, loaded, matcher, listed, fresh, faults>>

(* run, in db mode: the table is listed, then the rest is spawned. *)
ListFirst ==
    /\ up = "listing"
    /\ matcher' = InMemory(table)
    /\ listed' = TRUE /\ since' = {InMemory(table)}
    /\ up' = "serving"
    /\ loop' = "list"
    /\ UNCHANGED <<mode, table, remote, loaded, fresh, faults>>

(* An error of that statement is ignored. *)
ListFirstFails ==
    /\ up = "listing"
    /\ Fault("list")
    /\ up' = "serving"
    /\ loop' = "list"
    /\ UNCHANGED <<mode, table, remote, loaded, matcher, listed, since, fresh>>

(* The loop lists the source: a SELECT, a file read or a GET. *)
List ==
    /\ loop = "list"
    /\ loaded' = Source(mode) /\ fresh' = {InMemory(Source(mode))}
    /\ loop' = "replace"
    /\ UNCHANGED <<mode, up, table, remote, matcher, listed, since, faults>>

(* Mutants: an error counts as an empty list; an error ends the loop. *)
ListFailsEmpty ==
    /\ loop = "list"
    /\ Fault("list")
    /\ loaded' = {} /\ fresh' = {InMemory(Source(mode))}
    /\ loop' = "replace"
    /\ UNCHANGED <<mode, up, table, remote, matcher, listed, since>>

ListFailsForGood ==
    /\ loop = "list"
    /\ Fault("list")
    /\ loop' = "off"
    /\ UNCHANGED <<mode, up, table, remote, loaded, matcher, listed, since, fresh>>

(* The source cannot be listed: the error is logged. *)
ListFails ==
    /\ loop = "list"
    /\ Fault("list")
    /\ loop' = "sleep"
    /\ UNCHANGED <<mode, up, table, remote, loaded, matcher, listed, since, fresh>>

(* Matcher::replace, in one piece for whoever matches (the write lock). *)
Replace ==
    /\ loop = "replace"
    /\ matcher' = InMemory(loaded)
    /\ listed' = TRUE /\ since' = fresh /\ fresh' = {}
    /\ loop' = "sleep" /\ loaded' = {}
    /\ UNCHANGED <<mode, up, table, remote, faults>>

Wake ==
    /\ loop = "sleep"
    /\ loop' = "list"
    /\ UNCHANGED <<mode, up, table, remote, loaded, matcher, listed, since, fresh, faults>>

(* The process dies; the table, the file and the URL stay. *)
Die ==
    /\ up # "down"
    /\ Fault("crash")
    /\ up' = "down"
    /\ loop' = "off"
    /\ loaded' = {} /\ matcher' = {}
    /\ listed' = FALSE /\ since' = {} /\ fresh' = {}
    /\ UNCHANGED <<mode, table, remote>>

-----------------------------------------------------------------------------
(* The source now holds S. *)
Holds(S) ==
    /\ since' = since \cup {InMemory(S)}
    /\ fresh' = IF loop = "replace" THEN fresh \cup {InMemory(S)} ELSE {}

Put(rows) ==
    /\ up = "serving" /\ mode = "db"
    /\ table' = rows
    /\ Holds(rows)
    /\ UNCHANGED <<mode, up, remote, loop, loaded, matcher, listed, faults>>

(* POST /v1/watchlist: INSERT ... ON CONFLICT DO NOTHING, in db mode only. *)
Add(d) == Put(table \cup {Normal(d)})

(* DELETE /v1/watchlist/:domain *)
Remove(d) == Put(table \ {Normal(d)})

(* Somebody edits the file, or what the URL answers (external). *)
Edit(S) ==
    /\ remote' = S
    /\ IF mode \in {"file", "url"} THEN Holds(S) ELSE UNCHANGED <<since, fresh>>
    /\ UNCHANGED <<mode, up, table, loop, loaded, matcher, listed, faults>>

-----------------------------------------------------------------------------
Init ==
    /\ mode = "disabled"
    /\ up = "down"
    /\ table = {}
    /\ remote \in Contents
    /\ loop = "off"
    /\ loaded = {} /\ matcher = {}
    /\ listed = FALSE /\ since = {} /\ fresh = {}
    /\ faults = {}

Failures == ListFirstFails \/ ListFails \/ Die

Edits ==
    \/ \E d \in Texts : Add(d) \/ Remove(d)
    \/ \E S \in Contents : Edit(S)

Next ==
    \/ \E m \in Modes : Start(m)
    \/ ListFirst
    \/ List
    \/ Replace
    \/ Wake
    \/ Failures
    \/ Edits

Spec == Init /\ [][Next]_vars

(* The tasks run and the timer ticks. *)
Fairness == WF_vars(ListFirst) /\ WF_vars(List \/ Replace \/ Wake)

(* From some moment on the source can be listed and is left alone, and the  *)
(* process stays up (or down).                                              *)
StableSpec == Spec /\ Fairness /\ <>[][~(Failures \/ Edits)]_vars

-----------------------------------------------------------------------------
TypeOK ==
    /\ mode \in Modes
    /\ up \in {"down", "listing", "serving"}
    /\ table \subseteq Texts
    /\ remote \subseteq Texts
    /\ loop \in {"off", "list", "replace", "sleep"}
    /\ loaded \subseteq Texts
    /\ matcher \subseteq Texts
    /\ listed \in BOOLEAN
    /\ since \subseteq SUBSET Texts
    /\ fresh \subseteq SUBSET Texts
    /\ faults \subseteq {"list", "crash"}

(* What certificates are matched against is one list, as a whole, and not   *)
(* older than the last listing that succeeded: a list its source has had    *)
(* since then, whatever failed meanwhile and however the edits fall between *)
(* a read and its replacement. While every listing failed, the first one in *)
(* db mode included, it is empty, and the writer matches nothing            *)
(* (watchlist/mod.rs, matcher.rs, replace; cmd/serve.rs, run).              *)
MatcherIsOneList ==
    IF listed THEN matcher \in since ELSE matcher = {}

(* When failures and edits stop, the list in memory comes to be that of its *)
(* source and stays so: a failed reload is made up for (watchlist/mod.rs).  *)
EventuallyCurrent ==
    <>[](up = "down" \/ matcher = InMemory(Source(mode)))
=============================================================================
