------------------------------- MODULE Webhook -------------------------------
(***************************************************************************)
(* The webhook dispatcher (src/webhook.rs), the webhook_outbox table       *)
(* (src/store/outbox.rs) and the admin endpoint that re-delivers an event  *)
(* (src/api/admin.rs).                                                     *)
(*                                                                         *)
(* Every two seconds the dispatcher reads the rows that are due and posts  *)
(* them one after the other; after each answer it updates the row, by id   *)
(* and with no condition. The rows it holds were read before the posts, so *)
(* an admin request may change a row in between.                           *)
(*                                                                         *)
(* next_attempt is abstracted to the delay it was set to: 0 when the row   *)
(* is due, Parked when it was set ten years ahead.                         *)
(***************************************************************************)
EXTENDS Integers, FiniteSets

CONSTANTS
    Events,       \* the alerts the writer may queue, by event_id
    MaxAttempts,  \* WebhookCfg.max_attempts
    Limit,        \* how many due rows a round reads (50)
    MaxTries,     \* bound: no re-delivery of a row that was tried so often already
    Faults        \* "mark": an UPDATE may fail; "crash": the process may die

ASSUME WebhookAssumption ==
    /\ MaxAttempts \in Nat /\ Limit \in Nat \ {0} /\ MaxTries \in Nat
    /\ Faults \subseteq {"mark", "crash"}

VARIABLES
    queued,     \* the rows of webhook_outbox
    attempts,   \* attempts[e]
    wait,       \* wait[e]: the delay until next_attempt
    delivered,  \* the rows whose delivered_at is not NULL
    todo,       \* what outbox::due returned and is still to be posted
    snapshot,   \* snapshot[e]: row.attempts as the dispatcher read it
    current,    \* <<e, "ok" or "failed">>: posted, the row not yet updated
    accepted,   \* history: the events the receiver answered 2xx to
    asked       \* history: re-deliveries asked for while no answer for the row
                \* was awaited, and not posted since

vars == <<queued, attempts, wait, delivered, todo, snapshot, current, accepted, asked>>

dispatcherVars == <<todo, snapshot, current>>

NoPost == <<>>
Parked == -1
Answers == {"ok", "failed"}

-----------------------------------------------------------------------------
(* Mutant: gives up one attempt early. *)
TerminalOffByOne(n) == n + 1 >= MaxAttempts

(* schedule_retry: the row fails for good at max_attempts. *)
Terminal(n) == n >= MaxAttempts

(* schedule_retry: 4u64.pow(next_attempts.min(7)), in seconds; the next     *)
(* attempt is at least the first.                                           *)
Delays == <<4, 16, 64, 256, 1024, 4096, 16384>>
RetryDelay(n) == Delays[IF n < 7 THEN n ELSE 7]

(* Mutant: only rows that were never tried are read. *)
IsDueUntried(e) == e \in queued /\ e \notin delivered /\ wait[e] = 0 /\ attempts[e] = 0

(* outbox::due: delivered_at IS NULL AND next_attempt <= now() *)
IsDue(e) == e \in queued /\ e \notin delivered /\ wait[e] = 0

Due == {e \in Events : IsDue(e)}

(* e was posted and its row is not updated yet. *)
Awaited(e) == \E answer \in Answers : current = <<e, answer>>

-----------------------------------------------------------------------------
(* The writer queues an alert (outbox::enqueue); the row is due at once. *)
Enqueue(e) ==
    /\ e \notin queued
    /\ queued' = queued \cup {e}
    /\ UNCHANGED <<attempts, wait, delivered, todo, snapshot, current, accepted, asked>>

(* next_attempt comes. *)
Elapse(e) ==
    /\ wait[e] > 0
    /\ wait' = [wait EXCEPT ![e] = 0]
    /\ UNCHANGED <<queued, attempts, delivered, todo, snapshot, current, accepted, asked>>

(* Mutant: the next round begins while the last answer is awaited. *)
ReadDueEarly(S) ==
    /\ todo = {}
    /\ S # {} /\ S \subseteq Due
    /\ IF Cardinality(Due) <= Limit THEN S = Due ELSE Cardinality(S) = Limit
    /\ todo' = S
    /\ snapshot' = [e \in Events |-> IF e \in S THEN attempts[e] ELSE 0]
    /\ UNCHANGED <<queued, attempts, wait, delivered, current, accepted, asked>>

(* run: read at most Limit due rows, in the order of next_attempt (any). *)
ReadDue(S) ==
    /\ todo = {} /\ current = NoPost
    /\ S # {} /\ S \subseteq Due
    /\ IF Cardinality(Due) <= Limit THEN S = Due ELSE Cardinality(S) = Limit
    /\ todo' = S
    /\ snapshot' = [e \in Events |-> IF e \in S THEN attempts[e] ELSE 0]
    /\ UNCHANGED <<queued, attempts, wait, delivered, current, accepted, asked>>

(* deliver_one: post the row's body. The receiver may accept it and the     *)
(* answer be lost, so that the dispatcher sees an error.                    *)
Post(e, answer, arrived) ==
    /\ current = NoPost
    /\ e \in todo
    /\ todo' = todo \ {e}
    /\ current' = <<e, answer>>
    /\ answer = "ok" => arrived
    /\ accepted' = IF arrived THEN accepted \cup {e} ELSE accepted
    /\ asked' = asked \ {e}
    /\ UNCHANGED <<queued, attempts, wait, delivered, snapshot>>

(* Mutant: any answer counts as a delivery. *)
MarkDeliveredAnyStatus(e) ==
    /\ current # NoPost /\ current[1] = e
    /\ attempts' = [attempts EXCEPT ![e] = @ + 1]
    /\ delivered' = delivered \cup {e}
    /\ current' = NoPost
    /\ UNCHANGED <<queued, wait, todo, snapshot, accepted, asked>>

(* deliver_one: mark_delivered after a 2xx. *)
MarkDelivered(e) ==
    /\ current = <<e, "ok">>
    /\ attempts' = [attempts EXCEPT ![e] = @ + 1]
    /\ delivered' = delivered \cup {e}
    /\ current' = NoPost
    /\ UNCHANGED <<queued, wait, todo, snapshot, accepted, asked>>

(* Mutant: the attempt is counted twice. *)
MarkAttemptCountedTwice(e) ==
    LET n == snapshot[e] + 1 IN
    /\ current = <<e, "failed">>
    /\ attempts' = [attempts EXCEPT ![e] = @ + 1]
    /\ wait' = [wait EXCEPT ![e] = IF Terminal(n) THEN Parked ELSE RetryDelay(n + 1)]
    /\ current' = NoPost
    /\ UNCHANGED <<queued, delivered, todo, snapshot, accepted, asked>>

(* schedule_retry: mark_attempt with the delay of the next attempt, or ten  *)
(* years ahead. The number is counted from the row as it was read.          *)
MarkAttempt(e) ==
    LET n == snapshot[e] + 1 IN
    /\ current = <<e, "failed">>
    /\ attempts' = [attempts EXCEPT ![e] = @ + 1]
    /\ wait' = [wait EXCEPT ![e] = IF Terminal(n) THEN Parked ELSE RetryDelay(n)]
    /\ current' = NoPost
    /\ UNCHANGED <<queued, delivered, todo, snapshot, accepted, asked>>

(* The UPDATE fails; its error is dropped (let _ = ...). *)
MarkFails ==
    /\ current # NoPost
    /\ "mark" \in Faults
    /\ current' = NoPost
    /\ UNCHANGED <<queued, attempts, wait, delivered, todo, snapshot, accepted, asked>>

(* Mutant: re-delivers an event that has no row. *)
RedeliverUnknown(e) ==
    /\ attempts[e] < MaxTries
    /\ delivered' = delivered \ {e}
    /\ wait' = [wait EXCEPT ![e] = 0]
    /\ asked' = IF Awaited(e) THEN asked ELSE asked \cup {e}
    /\ UNCHANGED <<queued, attempts, todo, snapshot, current, accepted>>

(* Mutant: next_attempt is left where it is. *)
RedeliverAsScheduled(e) ==
    /\ e \in queued
    /\ attempts[e] < MaxTries
    /\ delivered' = delivered \ {e}
    /\ asked' = IF Awaited(e) THEN asked ELSE asked \cup {e}
    /\ UNCHANGED <<queued, attempts, wait, todo, snapshot, current, accepted>>

(* POST /v1/admin/webhook/{event_id}/redeliver: outbox::force_redeliver *)
Redeliver(e) ==
    /\ e \in queued
    /\ attempts[e] < MaxTries
    /\ delivered' = delivered \ {e}
    /\ wait' = [wait EXCEPT ![e] = 0]
    /\ asked' = IF Awaited(e) THEN asked ELSE asked \cup {e}
    /\ UNCHANGED <<queued, attempts, todo, snapshot, current, accepted>>

(* The process dies and starts again: the table remains. *)
Crash ==
    /\ "crash" \in Faults
    /\ todo' = {}
    /\ snapshot' = [e \in Events |-> 0]
    /\ current' = NoPost
    /\ UNCHANGED <<queued, attempts, wait, delivered, accepted, asked>>

-----------------------------------------------------------------------------
Init ==
    /\ queued = {}
    /\ attempts = [e \in Events |-> 0]
    /\ wait = [e \in Events |-> 0]
    /\ delivered = {}
    /\ todo = {}
    /\ snapshot = [e \in Events |-> 0]
    /\ current = NoPost
    /\ accepted = {}
    /\ asked = {}

Deliver(e) ==
    \/ \E answer \in Answers, arrived \in BOOLEAN : Post(e, answer, arrived)
    \/ MarkDelivered(e)
    \/ MarkAttempt(e)

Next ==
    \/ \E S \in SUBSET Due : ReadDue(S)
    \/ \E e \in Events : Enqueue(e) \/ Elapse(e) \/ Deliver(e) \/ Redeliver(e)
    \/ MarkFails
    \/ Crash

Spec == Init /\ [][Next]_vars

(* The dispatcher's loop keeps running and delays elapse. The due rows are  *)
(* read oldest first, so a row that is due again and again is read          *)
(* eventually although a round reads at most Limit rows.                    *)
Fairness ==
    /\ \A e \in Events :
          /\ WF_vars(Elapse(e))
          /\ WF_vars(Deliver(e))
          /\ SF_vars(\E S \in SUBSET Due : e \in S /\ ReadDue(S))

LiveSpec == Spec /\ Fairness

(* The same when, from some moment on, updates succeed and the process      *)
(* stays up.                                                                *)
StableSpec == LiveSpec /\ <>[][~(MarkFails \/ Crash)]_vars

-----------------------------------------------------------------------------
TypeOK ==
    /\ queued \subseteq Events
    /\ attempts \in [Events -> Nat]
    /\ wait \in [Events -> Nat \cup {Parked}]
    /\ delivered \subseteq queued
    /\ todo \subseteq queued
    /\ snapshot \in [Events -> Nat]
    /\ current \in {NoPost} \cup (Events \X Answers)
    /\ accepted \subseteq queued
    /\ asked \subseteq queued

(* At least once: a row is only marked delivered when the receiver accepted *)
(* it, whatever the admin endpoint, lost answers, failed updates and        *)
(* restarts do in between (webhook.rs, deliver_one).                        *)
DeliveredAccepted == delivered \subseteq accepted

(* A row is only given up after max_attempts recorded attempts, although    *)
(* the decision is taken on the attempts the dispatcher read before it      *)
(* posted (webhook.rs, schedule_retry).                                     *)
ParkedAfterMax == \A e \in Events : wait[e] = Parked => attempts[e] >= MaxAttempts

(* The delay a row waits is that of its recorded number of attempts: the    *)
(* attempts the delay was computed from are the row's (schedule_retry and   *)
(* mark_attempt, which increments in SQL).                                  *)
BackoffMatchesAttempts ==
    \A e \in Events : wait[e] > 0 => wait[e] = RetryDelay(attempts[e])

(* A delivered row is not posted again unless someone asks for it: the rows *)
(* the dispatcher still holds are undelivered, although they were read      *)
(* before the posts of this round, and other rows are answered and marked   *)
(* meanwhile (webhook.rs, run).                                             *)
DeliveredNotPosted == todo \cap delivered = {}

(* A re-delivery asked for is kept: unless the dispatcher was waiting for   *)
(* the answer to that very row, the row stays due until it is posted again, *)
(* although it may be delivered, parked, or in the dispatcher's hands when  *)
(* the request comes (force_redeliver). A request made during the wait is   *)
(* undone by the update that follows it.                                    *)
RedeliverKept == \A e \in asked : e \notin delivered /\ wait[e] = 0

(* What the row of an alert says of it. *)
Status ==
    [e \in Events |-> IF e \notin queued THEN "none"
                      ELSE IF e \in delivered THEN "delivered"
                      ELSE IF wait[e] = Parked THEN "abandoned"
                      ELSE "pending"]

D == INSTANCE Delivery WITH
       status <- Status, tries <- attempts, received <- accepted

(* The dispatcher keeps the promise of Delivery, although it acts on rows   *)
(* it read before it posted, its updates have no condition and may fail,    *)
(* and the admin endpoint writes to the same rows: a delivered or abandoned *)
(* alert is not sent, and the decision to give up is right for the attempts *)
(* in the table (webhook.rs, run, deliver_one, schedule_retry).             *)
KeepsPromise == D!Spec

(* Every alert is eventually delivered or given up: the dispatcher comes    *)
(* back to it, also after a crash or a failed update, although a round      *)
(* reads fewer rows than may be due (webhook.rs, run).                      *)
EventuallySettled ==
    \A e \in Events : e \in queued ~> e \in delivered \/ wait[e] = Parked
=============================================================================
