----------------------------- MODULE StreamLoop -----------------------------
(***************************************************************************)
(* The select loop of one live-stream connection in time                   *)
(* (src/stream/handler.rs, handle). The select is biased: an event that is *)
(* ready is taken first, else a heartbeat that is due, else a message of   *)
(* the client. Every 30 seconds a heartbeat is due; it closes the          *)
(* connection when the last pong was read more than 90 seconds ago, and    *)
(* sends a ping otherwise. Late heartbeats are made up for, one by one     *)
(* (tokio's MissedTickBehavior::Burst).                                    *)
(*                                                                         *)
(* Time passes at any moment, in a send above all: send().await has no     *)
(* timeout, and a client that does not read holds it up for as long as it  *)
(* likes. The properties are stated in what the handler and the client     *)
(* took at most, which history variables record.                           *)
(*                                                                         *)
(* Stream has the same loop with its events one by one and without time.   *)
(***************************************************************************)
EXTENDS Integers

CONSTANTS
    Interval,   \* between two heartbeats: 30 s
    Limit,      \* without a pong: 90 s
    Capacity,   \* the ring's capacity (STREAM_MAX_LAG)
    MaxPongs,   \* bound: pongs of the client that the handler did not read yet
    MaxHeld     \* bound: time the handler is busy without a pause

ASSUME LoopAssumption ==
    /\ Interval \in Nat \ {0} /\ Limit \in Nat /\ Capacity \in Nat \ {0}
    /\ MaxPongs \in Nat /\ MaxHeld \in Nat

VARIABLES
    pc,      \* where the handler is
    unread,  \* events in the ring not yet received; Capacity + 1: some were lost
    age,     \* last_pong.elapsed()
    toBeat,  \* until the next heartbeat not yet taken; due from 0 on
    pongs,   \* pongs the handler did not read yet
    close,   \* after them: a close, the end of the connection or an error
    why      \* why the loop was left

(* Histories: *)
VARIABLES
    silent,  \* how long ago the client sent its last pong (or connected)
    asked,   \* a ping was sent that no pong followed yet,
    owing,   \* and how long ago
    slow,    \* the longest the client took for a pong so far
    held,    \* how long the handler has had something to do by now
    worst    \* the longest it had so far

loopVars == <<pc, unread, age, toBeat, pongs, close, why>>
vars == <<pc, unread, age, toBeat, pongs, close, why,
          silent, asked, owing, slow, held, worst>>

-----------------------------------------------------------------------------
RxReady == unread > 0
Lagged == unread > Capacity
Due == toBeat <= 0

(* The handler waits in its select. *)
Idle == pc = "open" /\ ~RxReady /\ ~Due /\ pongs = 0 /\ ~close

(* A step that takes no time: held starts anew when nothing is left to do. *)
AtOnce ==
    /\ held' = IF Idle' THEN 0 ELSE held
    /\ UNCHANGED <<silent, slow, worst>>

Leave(reason) == pc' = "left" /\ why' = reason

-----------------------------------------------------------------------------
(* stream_tx.send, by the writer (external). *)
Publish ==
    /\ pc # "left"
    /\ unread' = IF Lagged THEN unread ELSE unread + 1
    /\ UNCHANGED <<pc, age, toBeat, pongs, close, why, asked, owing>>
    /\ AtOnce

(* rx.recv(): an event, sent if it passes the filter (Stream's Passes), *)
TakeEvent ==
    /\ pc = "open" /\ RxReady /\ ~Lagged
    /\ pc' \in {"open", "sending"}
    /\ unread' = unread - 1
    /\ UNCHANGED <<age, toBeat, pongs, close, why, asked, owing>>
    /\ AtOnce

Sent ==
    /\ pc = "sending"
    /\ pc' = "open"
    /\ UNCHANGED <<unread, age, toBeat, pongs, close, why, asked, owing>>
    /\ AtOnce

(* or RecvError::Lagged: a close is sent. *)
Lag ==
    /\ pc = "open" /\ Lagged
    /\ pc' = "closing" /\ why' = "lagged"
    /\ UNCHANGED <<unread, age, toBeat, pongs, close, asked, owing>>
    /\ AtOnce

(* Mutant: after 60 seconds. *)
ExpiredEarly == age > Limit - Interval

(* last_pong.elapsed() > 90 s *)
Expired == age > Limit

(* Mutant: a ping that is sent counts as a pong. *)
HeartbeatResets ==
    /\ pc = "open" /\ ~RxReady /\ Due
    /\ toBeat' = toBeat + Interval
    /\ pc' = "pinging" /\ age' = 0
    /\ UNCHANGED <<unread, pongs, close, why, asked, owing>>
    /\ AtOnce

(* hb.tick(): a close or a ping is sent. *)
Heartbeat ==
    /\ pc = "open" /\ ~RxReady /\ Due
    /\ toBeat' = toBeat + Interval
    /\ \/ Expired /\ pc' = "closing" /\ why' = "idle"
       \/ ~Expired /\ pc' = "pinging" /\ why' = why
    /\ UNCHANGED <<unread, age, pongs, close, asked, owing>>
    /\ AtOnce

Pinged ==
    /\ pc = "pinging"
    /\ pc' = "open"
    /\ asked' = TRUE
    /\ UNCHANGED <<unread, age, toBeat, pongs, close, why, owing>>
    /\ AtOnce

(* The close was sent, or failed: its result is not looked at. *)
CloseSent ==
    /\ pc = "closing"
    /\ Leave(why)
    /\ UNCHANGED <<unread, age, toBeat, pongs, close, asked, owing>>
    /\ AtOnce

(* An event or a ping cannot be sent. *)
SendFails ==
    /\ pc \in {"sending", "pinging"}
    /\ Leave("error")
    /\ UNCHANGED <<unread, age, toBeat, pongs, close, asked, owing>>
    /\ AtOnce

(* socket.recv(): a pong, *)
ReadPong ==
    /\ pc = "open" /\ ~RxReady /\ ~Due
    /\ pongs > 0
    /\ pongs' = pongs - 1
    /\ age' = 0
    /\ UNCHANGED <<pc, unread, toBeat, close, why, asked, owing>>
    /\ AtOnce

(* Mutant: the end of the client's messages is passed over. *)
ReadCloseIgnored ==
    /\ pc = "open" /\ ~RxReady /\ ~Due
    /\ pongs = 0 /\ close
    /\ UNCHANGED vars

(* or the end of the client's messages. *)
ReadClose ==
    /\ pc = "open" /\ ~RxReady /\ ~Due
    /\ pongs = 0 /\ close
    /\ Leave("closed")
    /\ UNCHANGED <<unread, age, toBeat, pongs, close, asked, owing>>
    /\ AtOnce

-----------------------------------------------------------------------------
(* The client sends a pong, or closes or is lost (external). *)
ClientPongs ==
    /\ pc # "left" /\ ~close /\ pongs < MaxPongs
    /\ pongs' = pongs + 1
    /\ silent' = 0 /\ asked' = FALSE /\ owing' = 0
    /\ held' = held
    /\ UNCHANGED <<pc, unread, age, toBeat, close, why, slow, worst>>

ClientCloses ==
    /\ pc # "left" /\ ~close
    /\ close' = TRUE
    /\ UNCHANGED <<pc, unread, age, toBeat, pongs, why, asked, owing>>
    /\ AtOnce

Larger(x, y) == IF x < y THEN y ELSE x

(* A unit of time passes. *)
Tick ==
    /\ pc # "left"
    /\ held < MaxHeld
    /\ age' = age + 1
    /\ toBeat' = toBeat - 1
    /\ silent' = silent + 1
    /\ owing' = IF asked THEN owing + 1 ELSE 0
    /\ slow' = Larger(slow, owing')
    /\ held' = IF Idle THEN 0 ELSE held + 1
    /\ worst' = Larger(worst, held')
    /\ UNCHANGED <<pc, unread, pongs, close, why, asked>>

-----------------------------------------------------------------------------
(* handle starts its interval and its clock; events may have come since the *)
(* receiver was made.                                                       *)
Init ==
    /\ pc = "open"
    /\ unread \in 0 .. Capacity + 1
    /\ age = 0 /\ toBeat = Interval
    /\ pongs = 0 /\ close = FALSE
    /\ why = "none"
    /\ silent = 0 /\ asked = FALSE /\ owing = 0 /\ slow = 0
    /\ held = 0 /\ worst = 0

(* What a select that finds no event ready goes on with. *)
NoEvent == Heartbeat \/ ReadPong \/ ReadClose

Next ==
    \/ TakeEvent \/ Sent \/ Lag \/ NoEvent
    \/ Pinged \/ CloseSent \/ SendFails
    \/ Publish \/ ClientPongs \/ ClientCloses \/ Tick

Spec == Init /\ [][Next]_vars

(* The handler is scheduled: an event that stays ready is taken, and so is  *)
(* a heartbeat or a message when a select finds no event ready again and    *)
(* again. Of a send only this is assumed: once the client is gone it ends.  *)
Fairness ==
    /\ WF_vars(TakeEvent) /\ WF_vars(Lag)
    /\ SF_vars(NoEvent)
    /\ SF_vars(close /\ (SendFails \/ CloseSent))

LiveSpec == Spec /\ Fairness

-----------------------------------------------------------------------------
TypeOK ==
    /\ pc \in {"open", "sending", "pinging", "closing", "left"}
    /\ unread \in 0 .. Capacity + 1
    /\ age \in Nat /\ toBeat \in Int /\ pongs \in 0 .. MaxPongs
    /\ close \in BOOLEAN /\ asked \in BOOLEAN
    /\ why \in {"none", "lagged", "idle", "error", "closed"}
    /\ {silent, owing, slow, held, worst} \subseteq Nat

(* A connection is closed for want of a pong only if the client or the      *)
(* handler were slow: pings are 30 seconds apart, so unless the client took *)
(* for a pong, and the handler twice for what it had to do, more than the   *)
(* 60 seconds that are left, the pong is read in time, although heartbeats  *)
(* and events go first (handler.rs, handle: last_pong, biased).             *)
IdleWasSlow == why = "idle" => Limit < Interval + slow + 2 * worst

(* A client that sends no pong any more is dropped after 90 seconds, up to  *)
(* 30 for the next heartbeat, and what the handler may be held up, in a     *)
(* send or by events, before it reads the last pong and before it comes to  *)
(* that heartbeat and has sent the close (handler.rs, handle).              *)
DroppedInTime == pc # "left" => silent <= Limit + Interval + 2 * worst

(* A connection whose client is gone comes to its end, unless from some     *)
(* time on an event is ready at every turn of the loop: the client's        *)
(* messages come last (handler.rs, handle: biased).                         *)
ClosedEnds == (close ~> pc = "left") \/ <>[](pc = "open" => RxReady)
=============================================================================
