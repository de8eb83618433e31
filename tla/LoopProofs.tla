----------------------------- MODULE LoopProofs -----------------------------
(***************************************************************************)
(* The select loop of a live-stream connection in time, for every interval *)
(* and limit. The bounds are sums: what the handler's clock says is what   *)
(* the client took, what passed until the next heartbeat, and what the     *)
(* handler was held up; the invariant keeps an account of them for each    *)
(* state a pong can be in: unread, asked for, or not asked for yet.        *)
(***************************************************************************)
EXTENDS StreamLoop, TLAPS

Up == pc \in {"open", "sending", "pinging"}

(* Something is left to do since the last heartbeat was due, at least. *)
Clocks ==
    /\ toBeat <= Interval
    /\ toBeat + held >= 0
    /\ held <= worst
    /\ owing <= slow
    /\ ~asked => owing = 0

(* How old last_pong can be before the next pong is read: *)
PongUnread == Up /\ pongs > 0 => age <= Interval + slow + worst + held

PongAsked == Up /\ pongs = 0 /\ asked => age <= Interval + worst + owing

PongNotAsked ==
    Up /\ pongs = 0 /\ ~asked =>
        IF pc = "pinging" THEN age <= Interval + held ELSE age + toBeat <= Interval

(* and at all. *)
Aged ==
    /\ Up => age + toBeat <= Limit + Interval
    /\ pc = "closing" => age <= Limit + Interval + held

(* What the handler's clock says of the client. *)
Heard ==
    pc # "left" => IF pongs > 0 THEN silent <= held ELSE silent <= age + worst

Bounds == Clocks /\ PongUnread /\ PongAsked /\ PongNotAsked /\ Aged /\ Heard

LoopInv ==
    /\ TypeOK /\ Bounds
    /\ Up => why = "none"
    /\ IdleWasSlow

-----------------------------------------------------------------------------
(* Every step keeps the types, *)
LEMMA TypeStep == ASSUME TypeOK, [Next]_vars PROVE TypeOK'
  <1>1. /\ Interval \in Nat /\ Capacity \in Nat /\ MaxPongs \in Nat
        /\ unread \in 0 .. Capacity + 1 /\ pongs \in 0 .. MaxPongs
        /\ age \in Nat /\ toBeat \in Int
        /\ silent \in Nat /\ owing \in Nat /\ slow \in Nat /\ held \in Nat /\ worst \in Nat
    BY LoopAssumption DEF TypeOK
  <1>2. CASE UNCHANGED vars
    BY <1>2 DEF vars, TypeOK
  <1>3. ASSUME AtOnce PROVE {silent', slow', held', worst'} \subseteq Nat
    BY <1>1, <1>3 DEF AtOnce
  <1>4. CASE TakeEvent \/ Sent \/ Lag \/ Publish
    BY <1>1, <1>3, <1>4 DEF TakeEvent, Sent, Lag, Publish, TypeOK, RxReady, Lagged
  <1>5. CASE NoEvent
    BY <1>1, <1>3, <1>5 DEF NoEvent, Heartbeat, ReadPong, ReadClose, Leave, TypeOK
  <1>6. CASE Pinged \/ CloseSent \/ SendFails \/ ClientCloses
    BY <1>1, <1>3, <1>6 DEF Pinged, CloseSent, SendFails, ClientCloses, Leave, TypeOK
  <1>7. CASE ClientPongs
    <2>1. pongs' \in 0 .. MaxPongs
      BY <1>1, <1>7 DEF ClientPongs
    <2>2. {silent', owing', slow', held', worst'} \subseteq Nat
      BY <1>1, <1>7 DEF ClientPongs
    <2>3. asked' \in BOOLEAN /\ close' \in BOOLEAN
      BY <1>7 DEF ClientPongs, TypeOK
    <2> QED BY <1>7, <2>1, <2>2, <2>3 DEF ClientPongs, TypeOK
  <1>8. CASE Tick
    BY <1>1, <1>8 DEF Tick, Larger, TypeOK
  <1> QED BY <1>2, <1>4, <1>5, <1>6, <1>7, <1>8 DEF Next

(* and the account of the bounds. *)
LEMMA BoundsStep == ASSUME TypeOK, TypeOK', Bounds, [Next]_vars PROVE Bounds'
  <1>1. /\ Interval \in Nat /\ Limit \in Nat /\ Capacity \in Nat /\ unread \in Nat
        /\ pongs \in Nat /\ age \in Nat /\ toBeat \in Int
        /\ silent \in Nat /\ owing \in Nat /\ slow \in Nat /\ held \in Nat /\ worst \in Nat
        /\ Bounds
    BY LoopAssumption DEF TypeOK
  <1>2. CASE UNCHANGED vars
    BY <1>1, <1>2 DEF vars, Bounds, Clocks, PongUnread, PongAsked, PongNotAsked, Aged, Heard, Up
  <1>3. CASE TakeEvent
    BY <1>1, <1>3 DEF TakeEvent, AtOnce, Idle, Due, RxReady,
       Bounds, Clocks, PongUnread, PongAsked, PongNotAsked, Aged, Heard, Up
  <1>4. CASE Sent
    BY <1>1, <1>4 DEF Sent, AtOnce, Idle, Due, RxReady,
       Bounds, Clocks, PongUnread, PongAsked, PongNotAsked, Aged, Heard, Up
  <1>5. CASE Lag
    BY <1>1, <1>5 DEF Lag, AtOnce, Idle, Due, RxReady,
       Bounds, Clocks, PongUnread, PongAsked, PongNotAsked, Aged, Heard, Up
  <1>6. CASE Heartbeat
    BY <1>1, <1>6 DEF Heartbeat, Expired, AtOnce, Idle, Due, RxReady,
       Bounds, Clocks, PongUnread, PongAsked, PongNotAsked, Aged, Heard, Up
  <1>7. CASE Pinged
    BY <1>1, <1>7 DEF Pinged, AtOnce, Idle, Due, RxReady,
       Bounds, Clocks, PongUnread, PongAsked, PongNotAsked, Aged, Heard, Up
  <1>8. CASE CloseSent
    BY <1>1, <1>8 DEF CloseSent, Leave, AtOnce, Idle, Due, RxReady,
       Bounds, Clocks, PongUnread, PongAsked, PongNotAsked, Aged, Heard, Up
  <1>9. CASE SendFails
    BY <1>1, <1>9 DEF SendFails, Leave, AtOnce, Idle, Due, RxReady,
       Bounds, Clocks, PongUnread, PongAsked, PongNotAsked, Aged, Heard, Up
  <1>10. CASE ReadPong
    BY <1>1, <1>10 DEF ReadPong, AtOnce, Idle, Due, RxReady,
       Bounds, Clocks, PongUnread, PongAsked, PongNotAsked, Aged, Heard, Up
  <1>11. CASE ReadClose
    BY <1>1, <1>11 DEF ReadClose, Leave, AtOnce, Idle, Due, RxReady,
       Bounds, Clocks, PongUnread, PongAsked, PongNotAsked, Aged, Heard, Up
  <1>12. CASE Publish
    BY <1>1, <1>12 DEF Publish, Lagged, AtOnce, Idle, Due, RxReady,
       Bounds, Clocks, PongUnread, PongAsked, PongNotAsked, Aged, Heard, Up
  <1>13. CASE ClientCloses
    BY <1>1, <1>13 DEF ClientCloses, AtOnce, Idle, Due, RxReady,
       Bounds, Clocks, PongUnread, PongAsked, PongNotAsked, Aged, Heard, Up
  <1>14. CASE ClientPongs
    BY <1>1, <1>14 DEF ClientPongs, AtOnce, Idle, Due, RxReady,
       Bounds, Clocks, PongUnread, PongAsked, PongNotAsked, Aged, Heard, Up
  <1>15. CASE Tick
    BY <1>1, <1>15 DEF Tick, Larger, AtOnce, Idle, Due, RxReady,
       Bounds, Clocks, PongUnread, PongAsked, PongNotAsked, Aged, Heard, Up
  <1> QED BY <1>2, <1>3, <1>4, <1>5, <1>6, <1>7, <1>8, <1>9, <1>10, <1>11, <1>12, <1>13,
             <1>14, <1>15 DEF Next, NoEvent

(* The bound of IdleWasSlow only grows. *)
LEMMA BoundGrows ==
  ASSUME NEW s \in Nat, NEW w \in Nat, NEW t \in Nat, NEW x \in Nat,
         s <= t, w <= x, Interval \in Nat, Limit \in Nat,
         Limit < Interval + s + 2 * w
  PROVE  Limit < Interval + t + 2 * x
  OBVIOUS

(* Every step keeps the invariant: only a heartbeat gives idle as the       *)
(* reason, and it finds the account as it is.                               *)
LEMMA StepInv == LoopInv /\ [Next]_vars => LoopInv'
  <1> SUFFICES ASSUME LoopInv, [Next]_vars PROVE LoopInv'
    OBVIOUS
  <1>1. TypeOK /\ Bounds /\ TypeOK' /\ Bounds'
    BY TypeStep, BoundsStep DEF LoopInv
  <1>2. (Up => why = "none")'
    BY DEF LoopInv, Up, Next, NoEvent, vars, TakeEvent, Sent, Lag, Heartbeat, Pinged, CloseSent,
           SendFails, ReadPong, ReadClose, Leave, Publish, ClientPongs, ClientCloses, Tick
  <1>3. IdleWasSlow'
    <2>1. /\ Interval \in Nat /\ Limit \in Nat
          /\ age \in Nat /\ toBeat \in Int /\ pongs \in Nat
          /\ owing \in Nat /\ slow \in Nat /\ held \in Nat /\ worst \in Nat
          /\ slow' \in Nat /\ worst' \in Nat
      BY <1>1, LoopAssumption DEF TypeOK
    <2>2. slow <= slow' /\ worst <= worst'
      BY <2>1 DEF Next, NoEvent, vars, TakeEvent, Sent, Lag, Heartbeat, Pinged, CloseSent,
                  SendFails, ReadPong, ReadClose, Publish, ClientPongs, ClientCloses,
                  Tick, AtOnce, Larger
    <2>3. CASE why' = why
      <3>1. ASSUME why = "idle" PROVE Limit < Interval + slow' + 2 * worst'
        <4>1. Limit < Interval + slow + 2 * worst
          BY <3>1 DEF LoopInv, IdleWasSlow
        <4> QED BY <2>1, <2>2, <4>1, BoundGrows
      <3> QED BY <2>3, <3>1 DEF IdleWasSlow
    <2>4. CASE Heartbeat /\ Expired
      <3>1. Limit < Interval + slow + worst + worst
        BY <1>1, <2>1, <2>4 DEF Heartbeat, Expired, Due, Up,
           Bounds, Clocks, PongUnread, PongAsked, PongNotAsked
      <3>2. Limit < Interval + slow + 2 * worst
        BY <2>1, <3>1
      <3>3. Limit < Interval + slow' + 2 * worst'
        BY <2>1, <2>2, <3>2, BoundGrows
      <3> QED BY <3>3 DEF IdleWasSlow
    <2>5. why' = why \/ why' \in {"lagged", "error", "closed"} \/ (Heartbeat /\ Expired)
      BY DEF Next, NoEvent, vars, TakeEvent, Sent, Lag, Heartbeat, Pinged, CloseSent,
             SendFails, ReadPong, ReadClose, Leave, Publish, ClientPongs, ClientCloses, Tick
    <2> QED BY <2>3, <2>4, <2>5 DEF IdleWasSlow
  <1> QED BY <1>1, <1>2, <1>3 DEF LoopInv

(* It holds at first. *)
LEMMA InitInv == Init => LoopInv
  <1> SUFFICES ASSUME Init PROVE LoopInv
    OBVIOUS
  <1>1. Bounds
    BY LoopAssumption
    DEF Init, Bounds, Clocks, PongUnread, PongAsked, PongNotAsked, Aged, Heard, Up
  <1>2. TypeOK
    <2>1. {silent, owing, slow, held, worst} \subseteq Nat
      BY DEF Init
    <2>2. 0 \in 0 .. MaxPongs /\ Interval \in Int
      BY LoopAssumption
    <2> QED BY <2>1, <2>2 DEF Init, TypeOK
  <1>3. IdleWasSlow /\ why = "none"
    BY DEF Init, IdleWasSlow
  <1> QED BY <1>1, <1>2, <1>3 DEF LoopInv

(* The invariant holds of every behaviour of the loop. *)
THEOREM LoopInvariance == Spec => []LoopInv
  BY InitInv, StepInv, PTL DEF Spec

(* Nobody is closed for want of a pong but for a slow client or a handler   *)
(* held up (handle: last_pong.elapsed() > 90 s, under a biased select).     *)
THEOREM IdleOnlyWhenSlow == Spec => []IdleWasSlow
  <1>1. LoopInv => IdleWasSlow
    BY DEF LoopInv
  <1> QED BY <1>1, LoopInvariance, PTL

(* A silent client is dropped in time (handle: the heartbeat's check).      *)
THEOREM SilentDropped == Spec => []DroppedInTime
  <1>1. LoopInv => DroppedInTime
    <2> SUFFICES ASSUME LoopInv, pc # "left" PROVE silent <= Limit + Interval + 2 * worst
      BY DEF DroppedInTime
    <2>1. /\ Interval \in Nat /\ Limit \in Nat /\ age \in Nat /\ toBeat \in Int
          /\ pongs \in Nat /\ silent \in Nat /\ held \in Nat /\ worst \in Nat
      BY LoopAssumption DEF LoopInv, TypeOK
    <2>2. held <= worst /\ age <= Limit + Interval + held
      BY <2>1 DEF LoopInv, TypeOK, Bounds, Clocks, Aged, Up
    <2> QED BY <2>1, <2>2 DEF LoopInv, Bounds, Heard
  <1> QED BY <1>1, LoopInvariance, PTL
=============================================================================
