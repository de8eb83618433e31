------------------------------ MODULE Delivery ------------------------------
(***************************************************************************)
(* What the webhook promises an alert (src/webhook.rs, src/store/outbox.rs *)
(* and the admin endpoint), with no dispatcher, rounds, rows read ahead or *)
(* restarts: an alert is sent only while it is pending; it becomes         *)
(* delivered only when the receiver has it; each attempt that fails counts *)
(* once, and one that brings the count to max_attempts or beyond, and no   *)
(* other, gives the alert up; whoever asks for it makes it pending again.  *)
(***************************************************************************)
EXTENDS Integers

CONSTANTS Events, MaxAttempts

VARIABLES
    status,   \* status[e] \in {"none", "pending", "delivered", "abandoned"}
    tries,    \* tries[e]: the attempts counted
    received  \* the alerts the receiver has

deliveryVars == <<status, tries, received>>

Init ==
    /\ status = [e \in Events |-> "none"]
    /\ tries = [e \in Events |-> 0]
    /\ received = {}

Queue(e) ==
    /\ status[e] = "none"
    /\ status' = [status EXCEPT ![e] = "pending"]
    /\ UNCHANGED <<tries, received>>

Receive(e) ==
    /\ status[e] = "pending"
    /\ received' = received \cup {e}
    /\ UNCHANGED <<status, tries>>

Count(e) == tries' = [tries EXCEPT ![e] = @ + 1]

Settle(e) ==
    /\ status[e] = "pending" /\ e \in received
    /\ status' = [status EXCEPT ![e] = "delivered"]
    /\ Count(e) /\ UNCHANGED received

Fail(e) ==
    /\ status[e] = "pending"
    /\ Count(e)
    /\ status' = IF tries[e] + 1 >= MaxAttempts
                 THEN [status EXCEPT ![e] = "abandoned"] ELSE status
    /\ UNCHANGED received

AskAgain(e) ==
    /\ status[e] # "none"
    /\ status' = [status EXCEPT ![e] = "pending"]
    /\ UNCHANGED <<tries, received>>

Next == \E e \in Events :
            Queue(e) \/ Receive(e) \/ Settle(e) \/ Fail(e) \/ AskAgain(e)

Spec == Init /\ [][Next]_deliveryVars
=============================================================================
