---------------------------- MODULE StreamProofs ----------------------------
(***************************************************************************)
(* What the live stream guarantees for any number of connections, any      *)
(* events and any capacity.                                                *)
(*                                                                         *)
(* No silent gap: the receiver's position moves by one, and from there     *)
(* only a successful send leads back to the loop.                          *)
(***************************************************************************)
EXTENDS Stream, TLAPS

(* All the events passing c's filter in joined .. next - 1 were sent, save  *)
(* the one being sent or whose send failed.                                 *)
Forwarded(c) ==
    /\ conn[c].pc \in {"new", "upgrading", "entering"} => conn[c].joined = conn[c].next
    /\ conn[c].joined <= conn[c].next
    /\ conn[c].pc = "sending" => conn[c].joined < conn[c].next
    /\ \A i \in conn[c].joined .. conn[c].next - 1 :
          Passes(c, i) /\ (i < conn[c].next - 1 \/ conn[c].pc = "open")
              => i \in conn[c].got

IInv == TypeOK /\ \A c \in Clients : Forwarded(c)

-----------------------------------------------------------------------------
(* A step of one connection leaves the others as they are. *)
LEMMA OneConn ==
  ASSUME IInv, NEW c \in Clients, published' = published,
         gauge' \in Nat, dropped' \in Nat,
         NEW r, conn' = [conn EXCEPT ![c] = r], r \in Conn, r.next <= published + 1,
         Forwarded(c)'
  PROVE  IInv'
  <1>1. conn \in [Clients -> Conn] /\ conn'[c] = r
    BY DEF IInv, TypeOK
  <1>2. TypeOK'
    BY <1>1 DEF IInv, TypeOK
  <1>3. ASSUME NEW d \in Clients, d # c PROVE Forwarded(d)'
    BY <1>1, <1>3 DEF IInv, Forwarded, Passes
  <1> QED BY <1>2, <1>3 DEF IInv

(* Steps that move only the handler, or what it saw of the gauge. *)
LEMMA MoveStep ==
  ASSUME IInv, NEW c \in Clients,
         UpgradeFails(c) \/ EnterLoad(c) \/ EnterStore(c) \/ SendFails(c)
         \/ Lag(c) \/ Evict(c) \/ Quit(c) \/ LeaveLoad(c) \/ LeaveStore(c)
  PROVE  IInv'
  <1>1. /\ conn \in [Clients -> Conn] /\ conn[c] \in Conn /\ Forwarded(c)
        /\ published \in Nat /\ gauge \in Nat /\ dropped \in Nat
        /\ conn[c].next <= published + 1
    BY StreamAssumption DEF IInv, TypeOK
  <1>2. PICK where \in PC, seen \in Nat :
           /\ conn' = [conn EXCEPT ![c] = [conn[c] EXCEPT !.pc = where, !.saw = seen]]
           /\ where = "open" => conn[c].pc = "entering"
           /\ where = "entering" => conn[c].pc = "upgrading"
           /\ where \notin {"new", "upgrading", "sending"}
    <2>1. conn[c].saw \in Nat
      BY <1>1 DEF Conn
    <2>2. CASE EnterLoad(c) \/ LeaveLoad(c)
      <3>1. \E where \in {"entering", "exiting"} :
               /\ conn' = [conn EXCEPT ![c] = [conn[c] EXCEPT !.pc = where, !.saw = gauge]]
               /\ where = "entering" => conn[c].pc = "upgrading"
        BY <1>1, <2>2 DEF EnterLoad, LeaveLoad, Conn
      <3> QED BY <1>1, <3>1 DEF PC
    <2>3. CASE \/ UpgradeFails(c) \/ EnterStore(c) \/ SendFails(c) \/ Lag(c)
               \/ Evict(c) \/ Quit(c) \/ LeaveStore(c)
      <3>1. \E where \in {"gone", "open", "leaving", "evicting"} :
               /\ GoTo(c, where)
               /\ where = "open" => conn[c].pc = "entering"
        BY <2>3 DEF UpgradeFails, EnterStore, SendFails, Lag, Evict, Quit, LeaveStore
      <3>2. PICK where \in {"gone", "open", "leaving", "evicting"} :
               /\ GoTo(c, where)
               /\ where = "open" => conn[c].pc = "entering"
        BY <3>1
      <3>3. conn' = [conn EXCEPT ![c] = [conn[c] EXCEPT !.pc = where, !.saw = conn[c].saw]]
        BY <1>1, <3>2 DEF GoTo, Conn
      <3> QED BY <2>1, <3>2, <3>3 DEF PC
    <2> QED BY <2>2, <2>3
  <1> DEFINE r == [conn[c] EXCEPT !.pc = where, !.saw = seen]
  <1>3. r \in Conn /\ r.next <= published + 1 /\ conn'[c] = r
    BY <1>1, <1>2 DEF Conn
  <1>4. published' = published /\ gauge' \in Nat /\ dropped' \in Nat
    BY <1>1 DEF UpgradeFails, EnterLoad, EnterStore, SendFails, Lag, Evict, Quit,
                LeaveLoad, LeaveStore, Conn
  <1>5. Forwarded(c)'
    BY <1>1, <1>2, <1>3 DEF Forwarded, Conn, Passes
  <1> QED BY <1>2, <1>3, <1>4, <1>5, OneConn

(* Joining. *)
LEMMA JoinStep ==
  ASSUME IInv, NEW c \in Clients, Upgrade(c)
  PROVE  IInv'
  <1>1. /\ conn \in [Clients -> Conn] /\ conn[c] \in Conn /\ Forwarded(c)
        /\ published \in Nat /\ gauge \in Nat /\ dropped \in Nat
        /\ conn[c].next <= published + 1 /\ published' = published /\ dropped' = dropped
    BY StreamAssumption DEF IInv, TypeOK, Upgrade
  <1> DEFINE refused == ~Enabled \/ gauge >= MaxSubscribers
             r == IF refused THEN [conn[c] EXCEPT !.pc = "refused"]
                  ELSE [conn[c] EXCEPT !.pc = "upgrading", !.next = published + 1,
                                       !.joined = published + 1]
  <1>2. conn' = [conn EXCEPT ![c] = r] /\ gauge' = gauge /\ conn'[c] = r
    BY <1>1 DEF Upgrade
  <1> HIDE DEF refused
  <1>3. r \in Conn /\ r.next <= published + 1
    <2>1. [conn[c] EXCEPT !.pc = "refused"] \in Conn
      BY <1>1 DEF Conn, PC
    <2>2. CASE refused
      BY <1>1, <2>1, <2>2 DEF Conn
    <2>3. CASE ~refused
      <3>1. published + 1 \in Nat \ {0}
        BY <1>1
      <3>2. [conn[c] EXCEPT !.pc = "upgrading", !.next = published + 1,
                            !.joined = published + 1] \in Conn
        BY <1>1, <3>1 DEF Conn, PC
      <3> QED BY <1>1, <2>3, <3>1, <3>2 DEF Conn
    <2> QED BY <2>2, <2>3
  <1>4. Forwarded(c)'
    BY <1>1, <1>2 DEF Forwarded, Conn, Passes
  <1> QED BY <1>1, <1>2, <1>3, <1>4, OneConn

(* Events. *)
LEMMA EventStep ==
  ASSUME IInv, NEW c \in Clients, TakeEvent(c) \/ Sent(c)
  PROVE  IInv'
  <1>1. /\ conn \in [Clients -> Conn] /\ conn[c] \in Conn /\ Forwarded(c)
        /\ published \in Nat /\ published <= MaxEvents /\ gauge \in Nat /\ dropped \in Nat
        /\ conn[c].next <= published + 1 /\ published' = published
    BY StreamAssumption DEF IInv, TypeOK, TakeEvent, Sent
  <1>2. CASE TakeEvent(c)
    <2> DEFINE where == IF Passes(c, conn[c].next) THEN "sending" ELSE "open"
               r == [conn[c] EXCEPT !.next = conn[c].next + 1, !.pc = where]
    <2>1. /\ conn' = [conn EXCEPT ![c] = r] /\ conn'[c] = r
          /\ gauge' \in Nat /\ dropped' \in Nat
      BY <1>1, <1>2 DEF TakeEvent
    <2>2. r \in Conn /\ r.next <= published + 1
      <3>1. where \in PC /\ conn[c].next + 1 \in Nat \ {0}
        BY <1>1 DEF Conn, PC
      <3> HIDE DEF where
      <3>2. r \in Conn
        BY <1>1, <3>1 DEF Conn
      <3>3. r.next = conn[c].next + 1 /\ conn[c].next <= published
        BY <1>1, <1>2 DEF TakeEvent, Conn, RxReady
      <3>4. conn[c].next \in Nat
        BY <1>1 DEF Conn
      <3> QED BY <1>1, <3>2, <3>3, <3>4
    <2>3. Forwarded(c)'
      <3>1. /\ conn[c].pc = "open" /\ conn[c].next \in Nat /\ conn[c].joined \in Nat
            /\ conn'[c].next = conn[c].next + 1 /\ conn'[c].pc = where
            /\ conn'[c].joined = conn[c].joined /\ conn'[c].got = conn[c].got
        BY <1>1, <1>2, <2>1 DEF TakeEvent, Conn
      <3>2. CASE Passes(c, conn[c].next)
        BY <1>1, <3>1, <3>2 DEF Forwarded, Passes
      <3>3. CASE ~Passes(c, conn[c].next)
        BY <1>1, <3>1, <3>3 DEF Forwarded, Passes
      <3> QED BY <3>2, <3>3
    <2> QED BY <1>1, <2>1, <2>2, <2>3, OneConn
  <1>3. CASE Sent(c)
    <2> DEFINE r == [conn[c] EXCEPT !.pc = "open", !.got = conn[c].got \cup {conn[c].next - 1}]
    <2>1. conn' = [conn EXCEPT ![c] = r] /\ conn'[c] = r /\ gauge' \in Nat /\ dropped' \in Nat
      BY <1>1, <1>3 DEF Sent, Conn
    <2>2. r \in Conn /\ r.next <= published + 1
      <3>1. conn[c].next - 1 \in 1 .. MaxEvents
        BY <1>1, <1>3, StreamAssumption DEF Sent, Forwarded, Conn
      <3> QED BY <1>1, <3>1 DEF Conn, PC
    <2>3. Forwarded(c)'
      BY <1>1, <1>3, <2>1 DEF Sent, Forwarded, Conn, Passes
    <2> QED BY <1>1, <2>1, <2>2, <2>3, OneConn
  <1> QED BY <1>2, <1>3

-----------------------------------------------------------------------------
(* The invariant holds at first, *)
LEMMA InitInv == Init => IInv
  BY StreamAssumption
  DEF Init, IInv, TypeOK, NewConn, Conn, PC, Forwarded

(* and every step keeps it. *)
LEMMA StepInv == IInv /\ [Next]_vars => IInv'
  <1> SUFFICES ASSUME IInv, [Next]_vars PROVE IInv'
    OBVIOUS
  <1>1. CASE UNCHANGED vars
    BY <1>1 DEF vars, IInv, TypeOK, Forwarded, Passes
  <1>2. CASE Publish
    <2>1. TypeOK'
      <3>1. \A c \in Clients : conn[c].next \in Nat
        BY DEF IInv, TypeOK, Conn
      <3> QED BY <1>2, <3>1, StreamAssumption DEF Publish, IInv, TypeOK
    <2> QED BY <1>2, <2>1 DEF Publish, IInv, Forwarded, Passes
  <1>3. ASSUME NEW c \in Clients,
               \/ Upgrade(c) \/ UpgradeFails(c) \/ EnterLoad(c) \/ EnterStore(c)
               \/ TakeEvent(c) \/ Sent(c) \/ SendFails(c)
               \/ Lag(c) \/ Evict(c) \/ Quit(c)
               \/ LeaveLoad(c) \/ LeaveStore(c)
        PROVE  IInv'
    BY <1>3, JoinStep, EventStep, MoveStep
  <1> QED BY <1>1, <1>2, <1>3 DEF Next

(* The invariant holds of every behaviour of the stream. *)
THEOREM Invariance == Spec => []IInv
  BY InitInv, StepInv, PTL DEF Spec

(* The gauge never goes below 0, although updates of it overlap (handle).    *)
THEOREM StreamTypes == Spec => []TypeOK
  <1>1. IInv => TypeOK
    BY DEF IInv
  <1> QED BY <1>1, Invariance, PTL

(* A subscriber that was not closed got every event its filter passes        *)
(* (handle: an event missed ends the connection).                            *)
THEOREM NothingLeftOut == Spec => []NoSilentGap
  <1>1. IInv => NoSilentGap
    BY DEF IInv, Forwarded, NoSilentGap
  <1> QED BY <1>1, Invariance, PTL
=============================================================================
