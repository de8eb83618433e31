------------------------------- MODULE Stream -------------------------------
(***************************************************************************)
(* The live stream (src/stream/handler.rs): the writer broadcasts events   *)
(* over a ring of bounded capacity (tokio::sync::broadcast), and each      *)
(* WebSocket connection has a handler that forwards the events its filter  *)
(* passes. A subscriber slower than the writer falls off the ring and is   *)
(* closed.                                                                 *)
(*                                                                         *)
(* The number of subscribers (stats::Counters) is loaded and stored in two *)
(* steps, and the cap is checked against it before the upgrade.            *)
(*                                                                         *)
(* Heartbeats, pongs and closes are in StreamLoop, the same loop in time;  *)
(* here they are the reasons for which Quit leaves it, and a handler may   *)
(* rest at any moment.                                                     *)
(***************************************************************************)
EXTENDS Integers, FiniteSets

CONSTANTS
    Enabled,         \* STREAM_ENABLED
    Clients,         \* connections; each is attempted once
    MaxEvents,       \* bound: events broadcast
    Domains,         \* registered domains
    DomainsOf,       \* DomainsOf[i]: the registered domains of event i
    Filtered,        \* the connections whose request has a ?domains=
    Asked,           \* Asked[c]: the domains it lists
    Capacity,        \* the ring's capacity (STREAM_MAX_LAG)
    MaxSubscribers   \* STREAM_MAX_SUBSCRIBERS

ASSUME StreamAssumption ==
    /\ Enabled \in BOOLEAN
    /\ MaxEvents \in Nat /\ Capacity \in Nat \ {0} /\ MaxSubscribers \in Nat
    /\ DomainsOf \in [1 .. MaxEvents -> SUBSET Domains]
    /\ Filtered \subseteq Clients
    /\ Asked \in [Clients -> SUBSET Domains]

VARIABLES
    published,  \* how many events were broadcast
    gauge,      \* Counters.stream_subscribers
    dropped,    \* Counters.stream_subscribers_dropped
    conn        \* conn[c]: the state of c's connection and of its handler

vars == <<published, gauge, dropped, conn>>

PC == {"new", "refused", "upgrading", "entering", "open", "sending", "evicting",
       "leaving", "exiting", "gone"}

(* saw: the gauge's value loaded; next: the receiver's position. History:   *)
(* joined, the position at subscription; got, the events sent.              *)
NewConn == [pc |-> "new", saw |-> 0, next |-> 1, joined |-> 1, got |-> {}]

-----------------------------------------------------------------------------
(* The events that pass c's filter: all without one, else those with one of *)
(* its domains.                                                             *)
Passes(c, i) == c \notin Filtered \/ DomainsOf[i] \cap Asked[c] # {}

(* select's first branch is ready: an event, or the news that some were lost. *)
RxReady(c) == conn[c].next <= published

(* More events are unread than the ring holds. *)
Lagged(c) == published - conn[c].next >= Capacity

GoTo(c, where) == conn' = [conn EXCEPT ![c].pc = where]

-----------------------------------------------------------------------------
(* stream_tx.send, by the writer, who never waits (external). *)
Publish ==
    /\ published < MaxEvents
    /\ published' = published + 1
    /\ UNCHANGED <<gauge, dropped, conn>>

(* upgrade: refused when the stream is off or the cap is reached, else the  *)
(* receiver is subscribed.                                                  *)
Upgrade(c) ==
    /\ conn[c].pc = "new"
    /\ conn' = [conn EXCEPT ![c] =
           IF ~Enabled \/ gauge >= MaxSubscribers THEN [@ EXCEPT !.pc = "refused"]
           ELSE [@ EXCEPT !.pc = "upgrading", !.next = published + 1, !.joined = published + 1]]
    /\ UNCHANGED <<published, gauge, dropped>>

(* The client is gone before the handler starts. *)
UpgradeFails(c) ==
    /\ conn[c].pc = "upgrading"
    /\ GoTo(c, "gone")
    /\ UNCHANGED <<published, gauge, dropped>>

(* handle: set_subscribers(subscribers() + 1), *)
EnterLoad(c) ==
    /\ conn[c].pc = "upgrading"
    /\ conn' = [conn EXCEPT ![c].pc = "entering", ![c].saw = gauge]
    /\ UNCHANGED <<published, gauge, dropped>>

EnterStore(c) ==
    /\ conn[c].pc = "entering"
    /\ gauge' = conn[c].saw + 1
    /\ GoTo(c, "open")
    /\ UNCHANGED <<published, dropped>>

(* then the loop. rx.recv(): an event, which is sent if the filter passes   *)
(* it,                                                                      *)
TakeEvent(c) ==
    /\ conn[c].pc = "open" /\ RxReady(c) /\ ~Lagged(c)
    /\ conn' = [conn EXCEPT ![c].next = @ + 1,
                            ![c].pc = IF Passes(c, conn[c].next) THEN "sending" ELSE "open"]
    /\ UNCHANGED <<published, gauge, dropped>>

Sent(c) ==
    /\ conn[c].pc = "sending"
    /\ conn' = [conn EXCEPT ![c].pc = "open", ![c].got = @ \cup {conn[c].next - 1}]
    /\ UNCHANGED <<published, gauge, dropped>>

SendFails(c) ==
    /\ conn[c].pc = "sending"
    /\ GoTo(c, "leaving")
    /\ UNCHANGED <<published, gauge, dropped>>

(* Mutant: the receiver goes on with the oldest event left. *)
LagContinues(c) ==
    /\ conn[c].pc = "open" /\ RxReady(c) /\ Lagged(c)
    /\ conn' = [conn EXCEPT ![c].next = published - Capacity + 1]
    /\ UNCHANGED <<published, gauge, dropped>>

(* or RecvError::Lagged: a close is sent,                                   *)
Lag(c) ==
    /\ conn[c].pc = "open" /\ RxReady(c) /\ Lagged(c)
    /\ GoTo(c, "evicting")
    /\ UNCHANGED <<published, gauge, dropped>>

(* and, whatever became of it, the connection counted as dropped.           *)
Evict(c) ==
    /\ conn[c].pc = "evicting"
    /\ GoTo(c, "leaving")
    /\ dropped' = dropped + 1
    /\ UNCHANGED <<published, gauge>>

(* A heartbeat or a message of the client ends the loop (StreamLoop); more  *)
(* events may come while a ping or a close is sent.                         *)
Quit(c) ==
    /\ conn[c].pc = "open"
    /\ GoTo(c, "leaving")
    /\ UNCHANGED <<published, gauge, dropped>>

(* handle, after the loop: set_subscribers((subscribers() - 1).max(0)). The *)
(* handler drops its receiver and its socket.                               *)
LeaveLoad(c) ==
    /\ conn[c].pc = "leaving"
    /\ conn' = [conn EXCEPT ![c].pc = "exiting", ![c].saw = gauge]
    /\ UNCHANGED <<published, gauge, dropped>>

(* Mutant: without max(0). *)
LeaveStoreUnclamped(c) ==
    /\ conn[c].pc = "exiting"
    /\ gauge' = conn[c].saw - 1
    /\ GoTo(c, "gone")
    /\ UNCHANGED <<published, dropped>>

LeaveStore(c) ==
    /\ conn[c].pc = "exiting"
    /\ gauge' = IF conn[c].saw > 0 THEN conn[c].saw - 1 ELSE 0
    /\ GoTo(c, "gone")
    /\ UNCHANGED <<published, dropped>>

-----------------------------------------------------------------------------
Init ==
    /\ published = 0
    /\ gauge = 0
    /\ dropped = 0
    /\ conn = [c \in Clients |-> NewConn]

Next ==
    \/ Publish
    \/ \E c \in Clients :
          \/ Upgrade(c) \/ UpgradeFails(c) \/ EnterLoad(c) \/ EnterStore(c)
          \/ TakeEvent(c) \/ Sent(c) \/ SendFails(c)
          \/ Lag(c) \/ Evict(c) \/ Quit(c)
          \/ LeaveLoad(c) \/ LeaveStore(c)

Spec == Init /\ [][Next]_vars

-----------------------------------------------------------------------------
Conn == [pc : PC, saw : Nat, next : Nat \ {0}, joined : Nat \ {0},
         got : SUBSET (1 .. MaxEvents)]

(* The number of subscribers never goes below 0, although updates of it are *)
(* lost (handler.rs, handle).                                               *)
TypeOK ==
    /\ published \in 0 .. MaxEvents
    /\ gauge \in Nat /\ dropped \in Nat
    /\ conn \in [Clients -> Conn]
    /\ \A c \in Clients : conn[c].next <= published + 1

(* No silent gap: a subscriber that was not closed yet got every event its  *)
(* filter passes from its subscription on, but for the one being sent; one  *)
(* that cannot keep up is closed, never skipped ahead (handler.rs, handle). *)
NoSilentGap ==
    \A c \in Clients : \A i \in conn[c].joined .. conn[c].next - 1 :
        Passes(c, i) /\ (i < conn[c].next - 1 \/ conn[c].pc = "open") => i \in conn[c].got
=============================================================================
