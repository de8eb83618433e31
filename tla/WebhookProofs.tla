---------------------------- MODULE WebhookProofs ----------------------------
(***************************************************************************)
(* What the dispatcher guarantees for any set of alerts, any max_attempts  *)
(* and any interleaving with the admin endpoint, failed updates and        *)
(* restarts.                                                               *)
(*                                                                         *)
(* The argument: the rows the dispatcher holds (read and not yet updated)  *)
(* are as they were read, because only the dispatcher itself, which takes  *)
(* one row at a time, changes attempts or marks a row delivered.           *)
(***************************************************************************)
EXTENDS Webhook, TLAPS

(* The row is read and not posted, or posted and not updated. *)
Held(e) == e \in todo \/ \E a \in Answers : current = <<e, a>>

(* The rows in hand: due when read, unchanged since. *)
HeldAsRead ==
    \A e \in Events : Held(e) => snapshot[e] = attempts[e] /\ wait[e] = 0

(* A posted row is undelivered and not posted again before it is updated,   *)
(* no request for it is outstanding, and an ok answer was an acceptance.    *)
PostedOnce ==
    \A e \in Events, a \in Answers : current = <<e, a>> =>
        /\ e \notin todo /\ e \in queued /\ e \notin asked /\ e \notin delivered
        /\ a = "ok" => e \in accepted

(* An alert without a row was never put off. *)
NewRowsDue == \A e \in Events \ queued : wait[e] = 0

IInv == /\ TypeOK /\ HeldAsRead /\ PostedOnce /\ NewRowsDue
        /\ DeliveredAccepted /\ ParkedAfterMax /\ BackoffMatchesAttempts
        /\ DeliveredNotPosted /\ RedeliverKept

-----------------------------------------------------------------------------
(* Every delay is a positive number of seconds. *)
LEMMA DelayType == \A n \in Nat \ {0} : RetryDelay(n) \in Nat \ {0}
  BY DEF RetryDelay, Delays

(* The initial state satisfies the inductive invariant. *)
LEMMA InitInv == Init => IInv
  BY WebhookAssumption
  DEF Init, IInv, TypeOK, HeldAsRead, PostedOnce, NewRowsDue, Held, DeliveredAccepted,
      ParkedAfterMax, BackoffMatchesAttempts, DeliveredNotPosted, NoPost,
        RedeliverKept, Awaited,
      Answers, Parked

(* A step of the dispatcher on one row keeps it. *)
LEMMA DeliverInv ==
  ASSUME IInv, NEW e \in Events, Deliver(e)
  PROVE  IInv'
  <1> USE WebhookAssumption
  <1>1. CASE \E answer \in Answers, arrived \in BOOLEAN : Post(e, answer, arrived)
    BY <1>1
    DEF Post, IInv, TypeOK, HeldAsRead, PostedOnce, NewRowsDue, Held, DeliveredAccepted,
        ParkedAfterMax, BackoffMatchesAttempts, DeliveredNotPosted, NoPost,
        RedeliverKept, Awaited,
        Answers, Parked
  <1>2. CASE MarkDelivered(e)
    BY <1>2
    DEF MarkDelivered, IInv, TypeOK, HeldAsRead, PostedOnce, NewRowsDue, Held,
        DeliveredAccepted, ParkedAfterMax, BackoffMatchesAttempts,
        DeliveredNotPosted, RedeliverKept, Awaited, NoPost, Answers,
        Parked
  <1>3. CASE MarkAttempt(e)
    <2>1. snapshot[e] = attempts[e] /\ attempts[e] \in Nat
      BY <1>3 DEF MarkAttempt, IInv, TypeOK, HeldAsRead, Held, Answers
    <2>2. RetryDelay(attempts[e] + 1) \in Nat \ {0}
      BY <2>1, DelayType
    <2>3. TypeOK'
      BY <1>3, <2>1, <2>2 DEF MarkAttempt, IInv, TypeOK, NoPost, Answers, Parked
    <2>4. HeldAsRead' /\ PostedOnce' /\ NewRowsDue'
      BY <1>3 DEF MarkAttempt, IInv, TypeOK, HeldAsRead, PostedOnce, NewRowsDue, Held, NoPost, Answers
    <2>5. ParkedAfterMax'
      BY <1>3, <2>1, <2>2
      DEF MarkAttempt, IInv, TypeOK, ParkedAfterMax, Terminal, Parked
    <2>6. BackoffMatchesAttempts'
      BY <1>3, <2>1, <2>2
      DEF MarkAttempt, IInv, TypeOK, BackoffMatchesAttempts, Parked
    <2>7. DeliveredAccepted' /\ DeliveredNotPosted'
      BY <1>3 DEF MarkAttempt, IInv, DeliveredAccepted, DeliveredNotPosted
    <2>8. RedeliverKept'
      BY <1>3
      DEF MarkAttempt, IInv, TypeOK, PostedOnce, RedeliverKept, Answers
    <2> QED BY <2>3, <2>4, <2>5, <2>6, <2>7, <2>8 DEF IInv
  <1> QED BY <1>1, <1>2, <1>3 DEF Deliver

(* Every step keeps it. *)
LEMMA StepInv == IInv /\ [Next]_vars => IInv'
  <1> SUFFICES ASSUME IInv, [Next]_vars PROVE IInv'
    OBVIOUS
  <1> USE WebhookAssumption
  <1>1. CASE \E S \in SUBSET Due : ReadDue(S)
    BY <1>1
    DEF ReadDue, Due, IsDue, IInv, TypeOK, HeldAsRead, PostedOnce, NewRowsDue, Held,
        DeliveredAccepted, ParkedAfterMax, BackoffMatchesAttempts,
        DeliveredNotPosted, RedeliverKept, Awaited, NoPost, Answers,
        Parked
  <1>2. ASSUME NEW e \in Events, Enqueue(e) PROVE IInv'
    BY <1>2
    DEF Enqueue, IInv, TypeOK, HeldAsRead, PostedOnce, NewRowsDue, Held, DeliveredAccepted,
        ParkedAfterMax, BackoffMatchesAttempts, DeliveredNotPosted, NoPost,
        RedeliverKept, Awaited,
        Answers, Parked
  <1>3. ASSUME NEW e \in Events, Elapse(e) PROVE IInv'
    BY <1>3
    DEF Elapse, IInv, TypeOK, HeldAsRead, PostedOnce, NewRowsDue, Held, DeliveredAccepted,
        ParkedAfterMax, BackoffMatchesAttempts, DeliveredNotPosted, NoPost,
        RedeliverKept, Awaited,
        Answers, Parked
  <1>4. ASSUME NEW e \in Events, Deliver(e) PROVE IInv'
    BY <1>4, DeliverInv
  <1>5. ASSUME NEW e \in Events, Redeliver(e) PROVE IInv'
    BY <1>5
    DEF Redeliver, IInv, TypeOK, HeldAsRead, PostedOnce, NewRowsDue, Held, DeliveredAccepted,
        ParkedAfterMax, BackoffMatchesAttempts, DeliveredNotPosted, NoPost,
        RedeliverKept, Awaited,
        Answers, Parked
  <1>6. CASE MarkFails
    BY <1>6
    DEF MarkFails, IInv,
        TypeOK, HeldAsRead, PostedOnce, NewRowsDue, Held, DeliveredAccepted,
        ParkedAfterMax, BackoffMatchesAttempts, DeliveredNotPosted, NoPost,
        RedeliverKept, Awaited,
        Answers, Parked
  <1>7. CASE Crash
    BY <1>7
    DEF Crash, IInv,
        TypeOK, HeldAsRead, PostedOnce, NewRowsDue, Held, DeliveredAccepted,
        ParkedAfterMax, BackoffMatchesAttempts, DeliveredNotPosted, NoPost,
        RedeliverKept, Awaited,
        Answers, Parked
  <1>8. CASE UNCHANGED vars
    BY <1>8
    DEF vars, IInv, TypeOK, HeldAsRead, PostedOnce, NewRowsDue, Held, DeliveredAccepted,
        ParkedAfterMax, BackoffMatchesAttempts, DeliveredNotPosted,
        RedeliverKept
  <1> QED BY <1>1, <1>2, <1>3, <1>4, <1>5, <1>6, <1>7, <1>8 DEF Next

LEMMA Invariance == Spec => []IInv
  BY InitInv, StepInv, PTL DEF Spec

-----------------------------------------------------------------------------
(* The outbox and the dispatcher's state keep their types. *)
THEOREM WebhookTypes == Spec => []TypeOK
  BY Invariance, PTL DEF IInv

(* A row is only marked delivered when the receiver accepted it: no alert   *)
(* is dropped as delivered, whatever the admin endpoint, failed updates and *)
(* restarts do (webhook.rs, deliver_one).                                   *)
THEOREM AtLeastOnce == Spec => []DeliveredAccepted
  BY Invariance, PTL DEF IInv

(* A row is given up only after max_attempts recorded attempts, though the  *)
(* dispatcher decides on attempts it read before it posted (schedule_retry).*)
THEOREM GivenUpAtMax == Spec => []ParkedAfterMax
  BY Invariance, PTL DEF IInv

(* The delay in force is the one of the recorded attempts (schedule_retry). *)
THEOREM DelayInStep == Spec => []BackoffMatchesAttempts
  BY Invariance, PTL DEF IInv

(* The dispatcher never holds a row that is already delivered (run).        *)
THEOREM NoneTwice == Spec => []DeliveredNotPosted
  BY Invariance, PTL DEF IInv

(* A re-delivery asked for while no answer for the row is awaited keeps the *)
(* row due until it is posted again (api/admin.rs, force_redeliver).        *)
THEOREM RequestKept == Spec => []RedeliverKept
  BY Invariance, PTL DEF IInv
-----------------------------------------------------------------------------
(* The initial table is the initial state of Delivery. *)
LEMMA PromiseInit == Init => D!Init
  BY DEF Init, D!Init, Status

(* An update of the row of e alone changes the status of e alone. *)
LEMMA StatusOf ==
  ASSUME NEW e \in Events, NEW s,
         Status'[e] = s, \A o \in Events \ {e} : Status'[o] = Status[o]
  PROVE  Status' = [Status EXCEPT ![e] = s]
  BY DEF Status

(* A row in the dispatcher's hands is pending. *)
LEMMA HeldPending ==
  ASSUME IInv, NEW e \in Events, Held(e)
  PROVE  Status[e] = "pending"
  BY DEF IInv, TypeOK, Held, HeldAsRead, PostedOnce, DeliveredNotPosted, Status, Parked,
         Answers

(* A step of the dispatcher on one row is a step of Delivery on that alert. *)
LEMMA PromiseDeliver ==
  ASSUME IInv, NEW e \in Events, Deliver(e)
  PROVE  [D!Next]_(D!deliveryVars)
  <1>1. CASE \E answer \in Answers, arrived \in BOOLEAN : Post(e, answer, arrived)
    <2>1. Status[e] = "pending"
      BY <1>1, HeldPending DEF Post, Held
    <2>2. UNCHANGED <<Status, attempts>>
      BY <1>1 DEF Post, Status
    <2>3. accepted' = accepted \cup {e} \/ UNCHANGED accepted
      BY <1>1 DEF Post
    <2> QED BY <2>1, <2>2, <2>3 DEF D!Next, D!Receive, D!deliveryVars
  <1>2. CASE MarkDelivered(e)
    <2>1. Status[e] = "pending" /\ e \in queued /\ e \in accepted
      BY <1>2, HeldPending DEF MarkDelivered, Held, IInv, PostedOnce, Answers
    <2>2. Status' = [Status EXCEPT ![e] = "delivered"]
      <3>1. Status'[e] = "delivered"
        BY <1>2, <2>1 DEF MarkDelivered, Status
      <3>2. \A o \in Events \ {e} : Status'[o] = Status[o]
        BY <1>2 DEF MarkDelivered, Status
      <3> QED BY <3>1, <3>2, StatusOf
    <2>3. D!Settle(e)
      BY <1>2, <2>1, <2>2 DEF MarkDelivered, D!Settle, D!Count
    <2> QED BY <2>3 DEF D!Next
  <1>3. CASE MarkAttempt(e)
    <2>1. Status[e] = "pending" /\ e \in queued /\ e \notin delivered
      BY <1>3, HeldPending DEF MarkAttempt, Held, IInv, PostedOnce, Answers
    <2>2. snapshot[e] = attempts[e] /\ attempts[e] \in Nat
      BY <1>3 DEF MarkAttempt, IInv, TypeOK, HeldAsRead, Held, Answers
    <2>3. RetryDelay(attempts[e] + 1) \in Nat \ {0}
      BY <2>2, DelayType
    <2>4. \A o \in Events \ {e} : Status'[o] = Status[o]
      BY <1>3 DEF MarkAttempt, Status, IInv, TypeOK
    <2>5. CASE attempts[e] + 1 >= MaxAttempts
      <3>1. Status'[e] = "abandoned"
        BY <1>3, <2>1, <2>2, <2>5 DEF MarkAttempt, Status, Terminal, IInv, TypeOK
      <3>2. Status' = [Status EXCEPT ![e] = "abandoned"]
        BY <3>1, <2>4, StatusOf
      <3> QED BY <1>3, <2>1, <2>5, <3>2 DEF MarkAttempt, D!Fail, D!Count, D!Next
    <2>6. CASE ~(attempts[e] + 1 >= MaxAttempts)
      <3>1. Status'[e] = "pending"
        BY <1>3, <2>1, <2>2, <2>3, <2>6
        DEF MarkAttempt, Status, Terminal, IInv, TypeOK, Parked
      <3>2. Status' = Status
        BY <3>1, <2>1, <2>4 DEF Status
      <3> QED BY <1>3, <2>1, <2>6, <3>2 DEF MarkAttempt, D!Fail, D!Count, D!Next
    <2> QED BY <2>5, <2>6
  <1> QED BY <1>1, <1>2, <1>3 DEF Deliver

(* Every step of the webhook is a step of Delivery or none. *)
LEMMA PromiseStep == IInv /\ [Next]_vars => [D!Next]_(D!deliveryVars)
  <1> SUFFICES ASSUME IInv, [Next]_vars PROVE [D!Next]_(D!deliveryVars)
    OBVIOUS
  <1>1. CASE \E S \in SUBSET Due : ReadDue(S)
    BY <1>1 DEF ReadDue, Status, D!deliveryVars
  <1>2. ASSUME NEW e \in Events, Enqueue(e) PROVE D!Queue(e)
    <2>1. Status[e] = "none"
      BY <1>2 DEF Enqueue, Status
    <2>2. Status'[e] = "pending"
      <3>1. wait[e] = 0 /\ e \notin delivered
        BY <1>2 DEF Enqueue, IInv, TypeOK, NewRowsDue
      <3> QED BY <1>2, <3>1 DEF Enqueue, Status, Parked
    <2>3. \A o \in Events \ {e} : Status'[o] = Status[o]
      BY <1>2 DEF Enqueue, Status
    <2>4. Status' = [Status EXCEPT ![e] = "pending"]
      BY <2>2, <2>3, StatusOf
    <2> QED BY <1>2, <2>1, <2>4 DEF Enqueue, D!Queue
  <1>3. ASSUME NEW e \in Events, Elapse(e) PROVE UNCHANGED D!deliveryVars
    BY <1>3 DEF Elapse, Status, D!deliveryVars, IInv, TypeOK, Parked
  <1>4. ASSUME NEW e \in Events, Deliver(e) PROVE [D!Next]_(D!deliveryVars)
    BY <1>4, PromiseDeliver
  <1>5. ASSUME NEW e \in Events, Redeliver(e) PROVE D!AskAgain(e)
    <2>1. Status[e] # "none"
      BY <1>5 DEF Redeliver, Status
    <2>2. Status'[e] = "pending"
      BY <1>5 DEF Redeliver, Status, Parked, IInv, TypeOK
    <2>3. \A o \in Events \ {e} : Status'[o] = Status[o]
      BY <1>5 DEF Redeliver, Status, IInv, TypeOK
    <2>4. Status' = [Status EXCEPT ![e] = "pending"]
      BY <2>2, <2>3, StatusOf
    <2> QED BY <1>5, <2>1, <2>4 DEF Redeliver, D!AskAgain
  <1>6. CASE MarkFails \/ Crash \/ UNCHANGED vars
    BY <1>6 DEF MarkFails, Crash, vars, Status, D!deliveryVars
  <1> QED BY <1>1, <1>2, <1>3, <1>4, <1>5, <1>6 DEF Next, D!Next

(* The dispatcher, the table and the admin endpoint together implement      *)
(* Delivery, for any set of alerts and any max_attempts.                    *)
THEOREM WebhookKeepsPromise == Spec => KeepsPromise
  BY Invariance, PromiseInit, PromiseStep, PTL DEF Spec, KeepsPromise, D!Spec
=============================================================================
