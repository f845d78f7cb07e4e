----------------------------- MODULE BrokerProofs ---------------------------
(***************************************************************************)
(* Proofs about Broker: its types, the ownership of the authority lane,    *)
(* and that it implements AuthorityLane, for every set of requests and     *)
(* leases, every workload and every behaviour of the extension.            *)
(***************************************************************************)
EXTENDS Broker, TLAPS

-----------------------------------------------------------------------------
(* Types *)

\* Cancelling the recorded timer (_clear_authority_reservation) keeps the
\* timers' types.
LEMMA CancelType ==
  ASSUME TypeOK, CancelReservationTimer
  PROVE  timer' \in [Requests -> TimerStates]
BY DEF TypeOK, CancelReservationTimer, TimerStates

\* A fresh broker (__init__, start) has the types of TypeOK.
LEMMA TypeCorrectInit == Init => TypeOK
<1> SUFFICES ASSUME Init PROVE TypeOK
  OBVIOUS
<1>1. waiter \in [Requests -> Seq(Messages)] /\ events \in [Requests -> 0..MaxEvents]
  BY BrokerAssumption DEF Init
<1>2. /\ timer \in [Requests -> TimerStates]
      /\ pc \in [Requests -> HandlerPCs]
      /\ op \in [Requests -> Ops]
      /\ lease \in [Requests -> Leases \union {NoLease}]
      /\ releaseLane \in [Requests -> BOOLEAN]
      /\ answer \in [Requests -> Answers]
  BY DEF Init, TimerStates, HandlerPCs, Answers, Ops, LaneOps
<1> QED  BY <1>1, <1>2 DEF Init, TypeOK, MainStates

\* Every step of a handler, a timer, the main thread and the extension keeps
\* the types.
LEMMA TypeCorrectStep == TypeOK /\ [Next]_vars => TypeOK'
<1> SUFFICES ASSUME TypeOK, [Next]_vars PROVE TypeOK'
  OBVIOUS
<1> USE DEF TypeOK, Goto, Return, ClearReservation, laneVars, handlerVars, queueVars,
    hostVars, wireVars
<1>1. ASSUME NEW r \in Requests, NEW w \in Workload, Arrive(r, w.op, w.lease)
      PROVE  TypeOK'
  <2>1. w.op \in Ops /\ w.lease \in Leases \union {NoLease}
    BY BrokerAssumption
  <2> QED  BY <1>1, <2>1 DEF Arrive, HandlerPCs, Answers
<1>2. ASSUME NEW r \in Requests, ClaimReserved(r) PROVE TypeOK'
  BY <1>2, CancelType DEF ClaimReserved, Matches, HandlerPCs, Answers
<1>3. ASSUME NEW r \in Requests, AcquireLock(r) PROVE TypeOK'
  BY <1>3 DEF AcquireLock, HandlerPCs, Answers
<1>4. ASSUME NEW r \in Requests, Forward(r) PROVE TypeOK'
  BY <1>4 DEF Forward, HandlerPCs
<1>5. ASSUME NEW r \in Requests, ForwardFails(r) PROVE TypeOK'
  BY <1>5 DEF ForwardFails, HandlerPCs, Answers
<1>6. ASSUME NEW r \in Requests, TakeMessage(r) PROVE TypeOK'
  <2>1. /\ waiter[r] \in Seq(Messages) /\ waiter[r] # <<>>
        /\ waiter' = [waiter EXCEPT ![r] = Tail(@)]
    BY <1>6 DEF TakeMessage
  <2>2. Head(waiter[r]) \in Messages /\ Tail(waiter[r]) \in Seq(Messages)
    BY <2>1
  <2>3. waiter' \in [Requests -> Seq(Messages)]
    BY <2>1, <2>2
  <2>4. pc' \in [Requests -> HandlerPCs] /\ answer' \in [Requests -> Answers]
    BY <1>6, <2>2 DEF TakeMessage, HandlerPCs, Answers, Messages
  <2> QED  BY <1>6, <2>3, <2>4 DEF TakeMessage
<1>7. ASSUME NEW r \in Requests, WaitTimeout(r) PROVE TypeOK'
  BY <1>7 DEF WaitTimeout, HandlerPCs, Answers
<1>8. ASSUME NEW r \in Requests, Reserve(r) PROVE TypeOK'
  BY <1>8 DEF Reserve, HandlerPCs, TimerStates
<1>9. ASSUME NEW r \in Requests, ArmTimer(r) PROVE TypeOK'
  BY <1>9 DEF ArmTimer, HandlerPCs, TimerStates
<1>10. ASSUME NEW r \in Requests, Pop(r) PROVE TypeOK'
  BY <1>10 DEF Pop, AfterExchange, HandlerPCs
<1>11. ASSUME NEW r \in Requests, ReleaseLock(r) PROVE TypeOK'
  BY <1>11 DEF ReleaseLock, HandlerPCs
<1>12. ASSUME NEW r \in Requests, CompleteReservation(r) PROVE TypeOK'
  BY <1>12, CancelType DEF CompleteReservation, HandlerPCs, Answers
<1>13. ASSUME NEW t \in Requests, TimerStep(t) PROVE TypeOK'
  BY <1>13 DEF TimerStep, TimerFires, ExpireReservation, ReleaseExpired, TimerStates
<1>14. CASE MainStep
  <2>1. ASSUME NEW tabKnown \in TabReports, Hello(tabKnown) \/ RuntimeState(tabKnown)
        PROVE  TypeOK'
    BY <2>1, BrokerAssumption DEF Hello, RuntimeState
  <2>2. CASE BeginClose
    BY <2>2, CancelType DEF BeginClose, MainStates
  <2>3. CASE CloseStep
    <3>1. CASE DrainPending
      <4>1. waiter' \in [Requests -> Seq(Messages)]
        <5> SUFFICES ASSUME NEW q \in Requests
                     PROVE  Append(waiter[q], "error") \in Seq(Messages)
          BY <3>1 DEF DrainPending
        <5> QED  BY DEF Messages
      <4> QED  BY <3>1, <4>1 DEF DrainPending, MainStates
    <3> QED
      BY <2>3, <3>1 DEF CloseStep, CloseReleasesLane, StopServer, ExitProcess,
          MainStates
  <2> QED  BY <1>14, <2>1, <2>2, <2>3 DEF MainStep
<1>15. ASSUME NEW r \in Requests, ExtensionEvent(r) PROVE TypeOK'
  BY <1>15, BrokerAssumption DEF ExtensionEvent, RouteMessage, Messages
<1>16. ASSUME NEW r \in Requests, NEW message \in {"ok", "error"},
              ExtensionAnswers(r, message)
       PROVE  TypeOK'
  BY <1>16 DEF ExtensionAnswers, RouteMessage, Messages
<1>17. CASE UNCHANGED vars
  BY <1>17 DEF vars
<1> QED
  BY <1>1, <1>2, <1>3, <1>4, <1>5, <1>6, <1>7, <1>8, <1>9, <1>10, <1>11, <1>12, <1>13,
      <1>14, <1>15, <1>16, <1>17
     DEF Next, BrokerStep, ExtensionStep, HandlerStep, Finished

\* Every variable of the broker keeps its type (handle_local_request,
\* route_native_message, close and the reservation timers).
THEOREM TypeCorrect == Spec => []TypeOK
BY TypeCorrectInit, TypeCorrectStep, PTL DEF Spec

-----------------------------------------------------------------------------
(* The ownership of the lane *)

\* What each handler's position says about its request, its reservation and
\* its timer.  LaneOwnership is not inductive without it: an expired timer
\* finds its own lease reserved only if it ever had one, and a handler that
\* has handed the lane over must not come back to "pop" as an owner.
HandlerInv ==
  \A r \in Requests :
    /\ pc[r] \in {"claim", "acquire"} => op[r] \in LaneOps
    /\ pc[r] = "complete" =>
         op[r] = "canonical_read_complete" /\ lease[r] # NoLease
    /\ pc[r] = "reserve" =>
         lease[r] # NoLease /\ op[r] \in {"turn", "canonical_read"} /\ releaseLane[r]
    /\ ~releaseLane[r] => pc[r] \in {"arm", "pop", "done"}
    /\ pc[r] = "arm" => timer[r] \in {"created", "cancelled"}
    /\ timer[r] # "none" => lease[r] # NoLease /\ ~releaseLane[r]
    /\ timer[r] = "created" => pc[r] = "arm"
    /\ pc[r] = "release" =>
         op[r] # "ui_liveness" /\ (op[r] = "canonical_read" => lease[r] = NoLease)

IInv == TypeOK /\ HandlerInv /\ LaneOwnership /\ ReservationIsBounded

\* A handler's position still agrees with its operation and its release_lane
\* after every step (handle_local_request).
LEMMA HandlerInvStep == TypeOK /\ HandlerInv /\ [Next]_vars => HandlerInv'
<1> SUFFICES ASSUME TypeOK, HandlerInv, [Next]_vars PROVE HandlerInv'
  OBVIOUS
<1> USE DEF TypeOK, HandlerInv, Goto, Return, ClearReservation, laneVars, handlerVars,
    queueVars, hostVars, wireVars
<1>1. ASSUME NEW r \in Requests, NEW w \in Workload, Arrive(r, w.op, w.lease)
     PROVE  HandlerInv'
  <2>1. w.op \in Ops /\ w.lease \in Leases \union {NoLease}
    BY BrokerAssumption
  <2> QED  BY <1>1, <2>1 DEF Arrive
<1>2. ASSUME NEW r \in Requests, ClaimReserved(r) PROVE HandlerInv'
  BY <1>2 DEF ClaimReserved, Matches, CancelReservationTimer
<1>3. ASSUME NEW r \in Requests, AcquireLock(r) PROVE HandlerInv'
  BY <1>3 DEF AcquireLock
<1>4. ASSUME NEW r \in Requests, Forward(r) PROVE HandlerInv'
  BY <1>4 DEF Forward
<1>5. ASSUME NEW r \in Requests, ForwardFails(r) PROVE HandlerInv'
  BY <1>5 DEF ForwardFails
<1>6. ASSUME NEW r \in Requests, TakeMessage(r) PROVE HandlerInv'
  BY <1>6 DEF TakeMessage, LaneOps
<1>7. ASSUME NEW r \in Requests, WaitTimeout(r) PROVE HandlerInv'
  BY <1>7 DEF WaitTimeout
<1>8. ASSUME NEW r \in Requests, Reserve(r) PROVE HandlerInv'
  BY <1>8 DEF Reserve
<1>9. ASSUME NEW r \in Requests, ArmTimer(r) PROVE HandlerInv'
  BY <1>9 DEF ArmTimer
<1>10. ASSUME NEW r \in Requests, Pop(r) PROVE HandlerInv'
  BY <1>10 DEF Pop, AfterExchange, LaneOps
<1>11. ASSUME NEW r \in Requests, ReleaseLock(r) PROVE HandlerInv'
  BY <1>11 DEF ReleaseLock
<1>12. ASSUME NEW r \in Requests, CompleteReservation(r) PROVE HandlerInv'
  BY <1>12 DEF CompleteReservation, CancelReservationTimer
<1>13. ASSUME NEW t \in Requests, TimerFires(t) PROVE HandlerInv'
  BY <1>13 DEF TimerFires
<1>14. ASSUME NEW t \in Requests, ExpireReservation(t) PROVE HandlerInv'
  BY <1>14 DEF ExpireReservation
<1>15. ASSUME NEW t \in Requests, ReleaseExpired(t) PROVE HandlerInv'
  BY <1>15 DEF ReleaseExpired
<1>16. ASSUME NEW tabKnown \in TabReports, Hello(tabKnown) \/ RuntimeState(tabKnown)
      PROVE  HandlerInv'
  BY <1>16 DEF Hello, RuntimeState
<1>17. CASE BeginClose
  BY <1>17 DEF BeginClose, CancelReservationTimer
<1>18. CASE CloseStep
  BY <1>18 DEF CloseStep, CloseReleasesLane, StopServer, DrainPending, ExitProcess
<1>19. CASE ExtensionStep
  BY <1>19 DEF ExtensionStep, ExtensionEvent, ExtensionAnswers, RouteMessage
<1>20. CASE UNCHANGED vars
  BY <1>20 DEF vars
<1> QED
  BY <1>1, <1>2, <1>3, <1>4, <1>5, <1>6, <1>7, <1>8, <1>9, <1>10, <1>11, <1>12, <1>13,
      <1>14, <1>15, <1>16, <1>17, <1>18, <1>19, <1>20
     DEF Next, BrokerStep, MainStep, HandlerStep, TimerStep, Finished

\* Every step hands turn_lock from one owner to one owner, or frees it.
LEMMA LaneOwnershipStep == IInv /\ [Next]_vars => LaneOwnership'
<1> SUFFICES ASSUME IInv, [Next]_vars PROVE LaneOwnership'
  OBVIOUS
<1> USE DEF IInv, TypeOK, HandlerInv, LaneOwnership, Goto, Return, ClearReservation,
    laneVars, handlerVars, queueVars, hostVars, wireVars
<1>1. ASSUME NEW r \in Requests, NEW w \in Workload, Arrive(r, w.op, w.lease)
     PROVE  LaneOwnership'
  <2>1. w.op \in Ops /\ w.lease \in Leases \union {NoLease}
    BY BrokerAssumption
  <2>2. /\ ~HandlerOwns(r) /\ ~HandlerOwns(r)'
        /\ \A s \in Requests \ {r} : HandlerOwns(s)' <=> HandlerOwns(s)
    BY <1>1, <2>1 DEF Arrive, HandlerOwns, LaneHandler, Completer, LaneOps
  <2> QED  BY <1>1, <2>2 DEF Arrive, TimerOwns, MainOwns, ReservationOwns
<1>2. ASSUME NEW r \in Requests, ClaimReserved(r) PROVE LaneOwnership'
  <2> USE DEF ClaimReserved, Matches, CancelReservationTimer
  <2>1. /\ \A s \in Requests \ {r} : HandlerOwns(s)' <=> HandlerOwns(s)
        /\ \A t \in Requests : TimerOwns(t)' <=> TimerOwns(t)
        /\ ~HandlerOwns(r) /\ (MainOwns' <=> MainOwns) /\ turnLock' = turnLock
    <3>1. \A s \in Requests \ {r} : HandlerOwns(s)' <=> HandlerOwns(s)
      BY <1>2 DEF HandlerOwns, LaneHandler, Completer
    <3>2. \A t \in Requests : TimerOwns(t)' <=> TimerOwns(t)
      BY <1>2 DEF TimerOwns
    <3>3. ~HandlerOwns(r) /\ (MainOwns' <=> MainOwns) /\ turnLock' = turnLock
      BY <1>2 DEF HandlerOwns, LaneHandler, Completer, MainOwns
    <3> QED  BY <3>1, <3>2, <3>3
  <2>2. CASE ReservationOwns /\ pc'[r] = "forward"
    <3>1. HandlerOwns(r)' /\ ~ReservationOwns'
      BY <1>2, <2>2 DEF HandlerOwns, LaneHandler, Completer, ReservationOwns, LaneOps
    <3> QED  BY <2>1, <2>2, <3>1
  <2>3. CASE ~(ReservationOwns /\ pc'[r] = "forward")
    <3>1. ~HandlerOwns(r)' /\ (ReservationOwns' <=> ReservationOwns)
      BY <1>2, <2>3 DEF HandlerOwns, LaneHandler, Completer, ReservationOwns
    <3> QED  BY <2>1, <3>1
  <2> QED  BY <2>2, <2>3
<1>3. ASSUME NEW r \in Requests, AcquireLock(r) PROVE LaneOwnership'
  <2>1. /\ \A s \in Requests \ {r} : HandlerOwns(s)' <=> HandlerOwns(s)
        /\ \A t \in Requests : TimerOwns(t)' <=> TimerOwns(t)
        /\ ~HandlerOwns(r) /\ (HandlerOwns(r)' <=> ~turnLock) /\ turnLock'
        /\ (MainOwns' <=> MainOwns) /\ (ReservationOwns' <=> ReservationOwns)
    BY <1>3 DEF AcquireLock, HandlerOwns, LaneHandler, Completer, TimerOwns, MainOwns,
        ReservationOwns, LaneOps
  <2> QED  BY <2>1
<1>4. ASSUME NEW r \in Requests, Forward(r) PROVE LaneOwnership'
  BY <1>4 DEF Forward, HandlerOwns, LaneHandler, Completer, TimerOwns, MainOwns,
      ReservationOwns
<1>5. ASSUME NEW r \in Requests, ForwardFails(r) PROVE LaneOwnership'
  <2>1. \A s \in Requests : HandlerOwns(s)' <=> HandlerOwns(s)
    BY <1>5 DEF ForwardFails, HandlerOwns, LaneHandler, Completer, LaneOps
  <2> QED  BY <1>5, <2>1 DEF ForwardFails, TimerOwns, MainOwns, ReservationOwns
<1>6. ASSUME NEW r \in Requests, TakeMessage(r) PROVE LaneOwnership'
  <2>1. \A s \in Requests : HandlerOwns(s)' <=> HandlerOwns(s)
    BY <1>6 DEF TakeMessage, HandlerOwns, LaneHandler, Completer, LaneOps
  <2> QED  BY <1>6, <2>1 DEF TakeMessage, TimerOwns, MainOwns, ReservationOwns
<1>7. ASSUME NEW r \in Requests, WaitTimeout(r) PROVE LaneOwnership'
  <2>1. \A s \in Requests : HandlerOwns(s)' <=> HandlerOwns(s)
    BY <1>7 DEF WaitTimeout, HandlerOwns, LaneHandler, Completer, LaneOps
  <2> QED  BY <1>7, <2>1 DEF WaitTimeout, TimerOwns, MainOwns, ReservationOwns
<1>8. ASSUME NEW r \in Requests, Reserve(r) PROVE LaneOwnership'
  <2>1. /\ \A s \in Requests \ {r} : HandlerOwns(s)' <=> HandlerOwns(s)
        /\ \A t \in Requests : TimerOwns(t)' <=> TimerOwns(t)
        /\ HandlerOwns(r) /\ ~HandlerOwns(r)' /\ ReservationOwns'
        /\ (MainOwns' <=> MainOwns) /\ turnLock' = turnLock
    BY <1>8 DEF Reserve, HandlerOwns, LaneHandler, Completer, TimerOwns, MainOwns,
        ReservationOwns, LaneOps
  <2> QED  BY <2>1
<1>9. ASSUME NEW r \in Requests, ArmTimer(r) PROVE LaneOwnership'
  <2>1. /\ \A s \in Requests : HandlerOwns(s)' <=> HandlerOwns(s)
        /\ \A t \in Requests : TimerOwns(t)' <=> TimerOwns(t)
    BY <1>9 DEF ArmTimer, HandlerOwns, LaneHandler, Completer, TimerOwns
  <2> QED  BY <1>9, <2>1 DEF ArmTimer, MainOwns, ReservationOwns
<1>10. ASSUME NEW r \in Requests, Pop(r) PROVE LaneOwnership'
  <2>1. \A s \in Requests : HandlerOwns(s)' <=> HandlerOwns(s)
    BY <1>10 DEF Pop, AfterExchange, HandlerOwns, LaneHandler, Completer, LaneOps
  <2> QED  BY <1>10, <2>1 DEF Pop, AfterExchange, TimerOwns, MainOwns, ReservationOwns
<1>11. ASSUME NEW r \in Requests, ReleaseLock(r) PROVE LaneOwnership'
  <2>1. /\ HandlerOwns(r) /\ ~HandlerOwns(r)'
        /\ \A s \in Requests \ {r} : HandlerOwns(s)' <=> HandlerOwns(s)
    BY <1>11 DEF ReleaseLock, HandlerOwns, LaneHandler, Completer, LaneOps, Ops
  <2> QED  BY <1>11, <2>1 DEF ReleaseLock, TimerOwns, MainOwns, ReservationOwns
<1>12. ASSUME NEW r \in Requests, CompleteReservation(r) PROVE LaneOwnership'
  <2> USE DEF CompleteReservation, CancelReservationTimer
  <2>1. /\ \A s \in Requests \ {r} : HandlerOwns(s)' <=> HandlerOwns(s)
        /\ \A t \in Requests : TimerOwns(t)' <=> TimerOwns(t)
        /\ ~HandlerOwns(r) /\ (MainOwns' <=> MainOwns) /\ turnLock' = turnLock
    <3>1. \A s \in Requests \ {r} : HandlerOwns(s)' <=> HandlerOwns(s)
      BY <1>12 DEF HandlerOwns, LaneHandler, Completer
    <3>2. \A t \in Requests : TimerOwns(t)' <=> TimerOwns(t)
      BY <1>12 DEF TimerOwns
    <3>3. ~HandlerOwns(r) /\ (MainOwns' <=> MainOwns) /\ turnLock' = turnLock
      BY <1>12 DEF HandlerOwns, LaneHandler, Completer, MainOwns
    <3> QED  BY <3>1, <3>2, <3>3
  <2>2. CASE pc'[r] = "release"
    <3>1. HandlerOwns(r)' /\ ReservationOwns /\ ~ReservationOwns'
      BY <1>12, <2>2 DEF HandlerOwns, LaneHandler, Completer, ReservationOwns
    <3> QED  BY <2>1, <3>1
  <2>3. CASE pc'[r] # "release"
    <3>1. ~HandlerOwns(r)' /\ (ReservationOwns' <=> ReservationOwns)
      BY <1>12, <2>3 DEF HandlerOwns, LaneHandler, Completer, ReservationOwns
    <3> QED  BY <2>1, <3>1
  <2> QED  BY <2>2, <2>3
<1>13. ASSUME NEW t \in Requests, TimerFires(t) PROVE LaneOwnership'
  BY <1>13 DEF TimerFires, HandlerOwns, LaneHandler, Completer, TimerOwns, MainOwns,
      ReservationOwns
<1>14. ASSUME NEW t \in Requests, ExpireReservation(t) PROVE LaneOwnership'
  <2>1. \A s \in Requests : HandlerOwns(s)' <=> HandlerOwns(s)
    BY <1>14 DEF ExpireReservation, HandlerOwns, LaneHandler, Completer
  <2>2. CASE reservedLease = lease[t]
    <3>1. ReservationOwns /\ ~ReservationOwns' /\ TimerOwns(t)'
      BY <1>14, <2>2 DEF ExpireReservation, ReservationOwns, TimerOwns
    <3>2. \A u \in Requests \ {t} : TimerOwns(u)' <=> TimerOwns(u)
      BY <1>14, <2>2 DEF ExpireReservation, TimerOwns
    <3> QED  BY <1>14, <2>1, <3>1, <3>2 DEF ExpireReservation, MainOwns
  <2>3. CASE reservedLease # lease[t]
    <3>1. \A u \in Requests : TimerOwns(u)' <=> TimerOwns(u)
      BY <1>14, <2>3 DEF ExpireReservation, TimerOwns
    <3> QED  BY <1>14, <2>1, <2>3, <3>1 DEF ExpireReservation, MainOwns, ReservationOwns
  <2> QED  BY <2>2, <2>3
<1>15. ASSUME NEW t \in Requests, ReleaseExpired(t) PROVE LaneOwnership'
  BY <1>15 DEF ReleaseExpired, HandlerOwns, LaneHandler, Completer, TimerOwns,
      MainOwns, ReservationOwns
<1>16. ASSUME NEW tabKnown \in TabReports, Hello(tabKnown) \/ RuntimeState(tabKnown)
      PROVE  LaneOwnership'
  BY <1>16 DEF Hello, RuntimeState, HandlerOwns, LaneHandler, Completer, TimerOwns,
      MainOwns, ReservationOwns
<1>17. CASE BeginClose
  BY <1>17 DEF BeginClose, CancelReservationTimer, HandlerOwns, LaneHandler,
      Completer, TimerOwns, MainOwns, ReservationOwns
<1>18. CASE CloseStep
  BY <1>18 DEF CloseStep, CloseReleasesLane, StopServer, DrainPending, ExitProcess,
      HandlerOwns, LaneHandler, Completer, TimerOwns, MainOwns, ReservationOwns
<1>19. CASE ExtensionStep
  BY <1>19 DEF ExtensionStep, ExtensionEvent, ExtensionAnswers, RouteMessage,
      HandlerOwns, LaneHandler, Completer, TimerOwns, MainOwns, ReservationOwns
<1>20. CASE UNCHANGED vars
  BY <1>20 DEF vars, HandlerOwns, LaneHandler, Completer, TimerOwns, MainOwns,
      ReservationOwns
<1> QED
  BY <1>1, <1>2, <1>3, <1>4, <1>5, <1>6, <1>7, <1>8, <1>9, <1>10, <1>11, <1>12, <1>13,
      <1>14, <1>15, <1>16, <1>17, <1>18, <1>19, <1>20
     DEF Next, BrokerStep, MainStep, HandlerStep, TimerStep, Finished

\* No step separates a reservation from its timer
\* (_reserve_authority_for_readback, _claim_authority_lane).
LEMMA ReservationIsBoundedStep == IInv /\ [Next]_vars => ReservationIsBounded'
<1> SUFFICES ASSUME IInv, [Next]_vars PROVE ReservationIsBounded'
  OBVIOUS
<1> USE DEF IInv, TypeOK, HandlerInv, ReservationIsBounded, ReservationOwns, Goto,
    Return, ClearReservation, laneVars, handlerVars, queueVars, hostVars, wireVars
<1>1. ASSUME NEW r \in Requests, NEW w \in Workload, Arrive(r, w.op, w.lease)
     PROVE  ReservationIsBounded'
  <2>1. w.op \in Ops /\ w.lease \in Leases \union {NoLease}
    BY BrokerAssumption
  <2> QED  BY <1>1, <2>1 DEF Arrive
<1>2. ASSUME NEW r \in Requests, ClaimReserved(r) PROVE ReservationIsBounded'
  BY <1>2 DEF ClaimReserved, Matches, CancelReservationTimer
<1>3. ASSUME NEW r \in Requests, AcquireLock(r) PROVE ReservationIsBounded'
  BY <1>3 DEF AcquireLock
<1>4. ASSUME NEW r \in Requests, Forward(r) PROVE ReservationIsBounded'
  BY <1>4 DEF Forward
<1>5. ASSUME NEW r \in Requests, ForwardFails(r) PROVE ReservationIsBounded'
  BY <1>5 DEF ForwardFails
<1>6. ASSUME NEW r \in Requests, TakeMessage(r) PROVE ReservationIsBounded'
  BY <1>6 DEF TakeMessage
<1>7. ASSUME NEW r \in Requests, WaitTimeout(r) PROVE ReservationIsBounded'
  BY <1>7 DEF WaitTimeout
<1>8. ASSUME NEW r \in Requests, Reserve(r) PROVE ReservationIsBounded'
  BY <1>8 DEF Reserve
<1>9. ASSUME NEW r \in Requests, ArmTimer(r) PROVE ReservationIsBounded'
  BY <1>9 DEF ArmTimer
<1>10. ASSUME NEW r \in Requests, Pop(r) PROVE ReservationIsBounded'
  BY <1>10 DEF Pop, AfterExchange
<1>11. ASSUME NEW r \in Requests, ReleaseLock(r) PROVE ReservationIsBounded'
  BY <1>11 DEF ReleaseLock
<1>12. ASSUME NEW r \in Requests, CompleteReservation(r) PROVE ReservationIsBounded'
  BY <1>12 DEF CompleteReservation, CancelReservationTimer
<1>13. ASSUME NEW t \in Requests, TimerFires(t) PROVE ReservationIsBounded'
  BY <1>13 DEF TimerFires
<1>14. ASSUME NEW t \in Requests, ExpireReservation(t) PROVE ReservationIsBounded'
  BY <1>14 DEF ExpireReservation
<1>15. ASSUME NEW t \in Requests, ReleaseExpired(t) PROVE ReservationIsBounded'
  BY <1>15 DEF ReleaseExpired
<1>16. ASSUME NEW tabKnown \in TabReports, Hello(tabKnown) \/ RuntimeState(tabKnown)
      PROVE  ReservationIsBounded'
  BY <1>16 DEF Hello, RuntimeState
<1>17. CASE BeginClose
  BY <1>17 DEF BeginClose, CancelReservationTimer
<1>18. CASE CloseStep
  BY <1>18 DEF CloseStep, CloseReleasesLane, StopServer, DrainPending, ExitProcess
<1>19. CASE ExtensionStep
  BY <1>19 DEF ExtensionStep, ExtensionEvent, ExtensionAnswers, RouteMessage
<1>20. CASE UNCHANGED vars
  BY <1>20 DEF vars
<1> QED
  BY <1>1, <1>2, <1>3, <1>4, <1>5, <1>6, <1>7, <1>8, <1>9, <1>10, <1>11, <1>12, <1>13,
      <1>14, <1>15, <1>16, <1>17, <1>18, <1>19, <1>20
     DEF Next, BrokerStep, MainStep, HandlerStep, TimerStep, Finished

\* The inductive invariant: types, each handler's position, the one owner of
\* turn_lock, and the timer of a standing reservation.
THEOREM Invariance == Spec => []IInv
<1>1. Init => IInv
  <2> SUFFICES ASSUME Init PROVE HandlerInv /\ LaneOwnership /\ ReservationIsBounded
    BY TypeCorrectInit DEF IInv
  <2> QED
    BY DEF Init, HandlerInv, LaneOwnership, ReservationIsBounded, HandlerOwns,
        LaneHandler, Completer, TimerOwns, MainOwns, ReservationOwns
<1>2. IInv /\ [Next]_vars => IInv'
  BY TypeCorrectStep, HandlerInvStep, LaneOwnershipStep, ReservationIsBoundedStep DEF
      IInv
<1> QED  BY <1>1, <1>2, PTL DEF Spec

\* turn_lock always has exactly one owner when taken, for any number of
\* concurrent requests: no handler, timer, completion or close() ever frees
\* or takes the lane under another's feet.
THEOREM LaneOwnershipHolds == Spec => []LaneOwnership
BY Invariance, PTL DEF IInv

\* The crash-safety bound of a reservation is never lost.
THEOREM ReservationIsBoundedHolds == Spec => []ReservationIsBounded
BY Invariance, PTL DEF IInv

\* The lane is always accounted for: one owner, and a timer for the owner that is
\* only a reservation.
THEOREM LaneIsAccountableHolds == Spec => []LaneIsAccountable
BY LaneOwnershipHolds, ReservationIsBoundedHolds, PTL DEF LaneIsAccountable
-----------------------------------------------------------------------------
(* The abstract lane *)

\* How the parts of the abstract lane exclude each other.
LaneView ==
  /\ \A r \in Requests : LaneHandler(r) =>
       /\ HeldOperations = {Operation(r)} /\ Operation(r) \in Lane!Operations
       /\ reservedLease = NoLease /\ ~Settling
  /\ Settling => HeldOperations = {} /\ reservedLease = NoLease
  /\ reservedLease # NoLease => HeldOperations = {} /\ ~Settling
  /\ ~turnLock => HeldOperations = {} /\ reservedLease = NoLease /\ ~Settling

\* The abstract lane shows one operation, one retained lease or a lane that is
\* settling, never two of them: turn_lock has one owner.
LEMMA LaneViewHolds == IInv => LaneView
<1> SUFFICES ASSUME IInv PROVE LaneView
  OBVIOUS
<1> USE DEF IInv, LaneOwnership, HandlerOwns, ReservationOwns
<1>1. (\A r \in Requests : ~LaneHandler(r)) => HeldOperations = {}
  BY DEF HeldOperations
<1>2. ASSUME NEW r \in Requests, LaneHandler(r)
      PROVE  /\ HeldOperations = {Operation(r)} /\ Operation(r) \in Lane!Operations
             /\ reservedLease = NoLease /\ ~Settling
  <2>1. HeldOperations = {Operation(r)}
    BY <1>2 DEF HeldOperations
  <2>2. Operation(r) \in Lane!Operations
    BY <1>2 DEF TypeOK, LaneHandler, Operation, LaneOps, Lane!Operations
  <2>3. reservedLease = NoLease /\ ~MainOwns /\ \A t \in Requests : ~TimerOwns(t)
    BY <1>2
  <2>4. \A s \in Requests : ~Completer(s)
    BY <1>2 DEF LaneHandler, Completer, LaneOps
  <2> QED  BY <2>1, <2>2, <2>3, <2>4 DEF Settling
<1>3. ASSUME Settling PROVE HeldOperations = {} /\ reservedLease = NoLease
  <2>1. reservedLease = NoLease
    BY <1>3 DEF Settling
  <2>2. \A r \in Requests : ~LaneHandler(r)
    BY <1>2, <1>3
  <2> QED  BY <1>1, <2>1, <2>2
<1>4. ASSUME reservedLease # NoLease PROVE HeldOperations = {} /\ ~Settling
  BY <1>1, <1>4 DEF Settling
<1>5. ASSUME ~turnLock
      PROVE  HeldOperations = {} /\ reservedLease = NoLease /\ ~Settling
  BY <1>1, <1>5 DEF Settling
<1> QED  BY <1>2, <1>3, <1>4, <1>5 DEF LaneView

AbstractStep == [Lane!Next]_Lane!laneVars

\* A step that changes no owner and no reservation is a stuttering step.
LEMMA SameOwners ==
  ASSUME \A s \in Requests : LaneHandler(s)' <=> LaneHandler(s),
         \A s \in Requests : LaneHandler(s) => op'[s] = op[s] /\ lease'[s] = lease[s],
         \A s \in Requests : Completer(s)' <=> Completer(s),
         \A t \in Requests : TimerOwns(t)' <=> TimerOwns(t),
         MainOwns' <=> MainOwns,
         reservedLease' = reservedLease
  PROVE  AbstractStep
<1>1. HeldOperations' = HeldOperations
  <2>1. \A s \in Requests : LaneHandler(s) => Operation(s)' = Operation(s)
    BY DEF Operation
  <2> QED  BY <2>1 DEF HeldOperations
<1>2. Settling' = Settling
  BY DEF Settling, Completer, TimerOwns, MainOwns
<1> QED  BY <1>1, <1>2 DEF AbstractStep, Lane!laneVars

\* Every step of the broker is a step or a stutter of the abstract lane.
LEMMA RefinementStep == IInv /\ LaneView /\ LaneView' /\ [Next]_vars => AbstractStep
<1> SUFFICES ASSUME IInv, LaneView, LaneView', [Next]_vars PROVE AbstractStep
  OBVIOUS
<1> USE DEF IInv, TypeOK, HandlerInv, Goto, Return, ClearReservation, laneVars,
    handlerVars, queueVars, hostVars, wireVars
<1>1. ASSUME NEW r \in Requests, NEW w \in Workload, Arrive(r, w.op, w.lease)
     PROVE  AbstractStep
  <2>1. w.op \in Ops /\ w.lease \in Leases \union {NoLease}
    BY BrokerAssumption
  <2>2. /\ \A s \in Requests : LaneHandler(s)' <=> LaneHandler(s)
        /\ \A s \in Requests : Completer(s)' <=> Completer(s)
    BY <1>1, <2>1 DEF Arrive, LaneHandler, Completer, LaneOps
  <2>3. ~LaneHandler(r) /\ \A s \in Requests \ {r} : op'[s] = op[s] /\ lease'[s] = lease[s]
    BY <1>1 DEF Arrive, LaneHandler
  <2>4. /\ \A t \in Requests : TimerOwns(t)' <=> TimerOwns(t)
        /\ MainOwns' <=> MainOwns
        /\ reservedLease' = reservedLease
    BY <1>1 DEF Arrive, TimerOwns, MainOwns
  <2> QED  BY <2>2, <2>3, <2>4, SameOwners
<1>2. ASSUME NEW r \in Requests, ClaimReserved(r) PROVE AbstractStep
  <2> USE DEF ClaimReserved, Matches, CancelReservationTimer
  <2>1. /\ \A s \in Requests \ {r} : LaneHandler(s)' <=> LaneHandler(s)
        /\ \A s \in Requests : Completer(s)' <=> Completer(s)
        /\ op' = op /\ lease' = lease /\ ~LaneHandler(r)
    BY <1>2 DEF LaneHandler, Completer
  <2>2. /\ \A t \in Requests : TimerOwns(t)' <=> TimerOwns(t)
        /\ MainOwns' <=> MainOwns
    <3>1. \A t \in Requests : TimerOwns(t)' <=> TimerOwns(t)
      BY <1>2 DEF TimerOwns
    <3>2. MainOwns' <=> MainOwns
      BY <1>2 DEF MainOwns
    <3> QED  BY <3>1, <3>2
  <2>3. CASE reservedLease # NoLease /\ pc'[r] = "forward"
    <3>1. /\ op[r] = "canonical_read" /\ lease[r] = reservedLease
          /\ reservedLease' = NoLease
      BY <1>2, <2>3
    <3>2. LaneHandler(r)'
      BY <1>2, <2>3, <3>1 DEF LaneHandler, LaneOps
    <3>3. HeldOperations' = {Operation(r)'} /\ ~Settling'
      BY <3>2 DEF LaneView
    <3>4. Operation(r)' = Operation(r) /\ Operation(r)' \in Lane!Operations
      BY <2>1, <3>2 DEF Operation, LaneView
    <3>5. HeldOperations = {} /\ ~Settling
      BY <2>3 DEF LaneView
    <3>6. Lane!Resume(Operation(r))
      BY <2>3, <3>1, <3>3, <3>4, <3>5 DEF Lane!Resume, Lane!LeasedRead, Operation,
          Settling
    <3> QED  BY <3>4, <3>6 DEF AbstractStep, Lane!Next
  <2>4. CASE ~(reservedLease # NoLease /\ pc'[r] = "forward")
    <3>1. ~LaneHandler(r)' /\ reservedLease' = reservedLease
      BY <1>2, <2>4 DEF LaneHandler
    <3> QED  BY <2>1, <2>2, <3>1, SameOwners
  <2> QED  BY <2>3, <2>4
<1>3. ASSUME NEW r \in Requests, AcquireLock(r) PROVE AbstractStep
  <2>1. /\ \A s \in Requests \ {r} : LaneHandler(s)' <=> LaneHandler(s)
        /\ \A s \in Requests : Completer(s)' <=> Completer(s)
        /\ op' = op /\ lease' = lease /\ reservedLease' = reservedLease
        /\ ~LaneHandler(r) /\ (LaneHandler(r)' <=> ~turnLock)
    BY <1>3 DEF AcquireLock, LaneHandler, Completer
  <2>2. CASE turnLock
    <3>1. /\ \A t \in Requests : TimerOwns(t)' <=> TimerOwns(t)
          /\ MainOwns' <=> MainOwns
      BY <1>3 DEF AcquireLock, TimerOwns, MainOwns
    <3> QED  BY <2>1, <2>2, <3>1, SameOwners
  <2>3. CASE ~turnLock
    <3>1. HeldOperations' = {Operation(r)'} /\ ~Settling'
      BY <2>1, <2>3 DEF LaneView
    <3>2. Operation(r)' = Operation(r) /\ Operation(r)' \in Lane!Operations
      BY <2>1, <2>3 DEF Operation, LaneView
    <3>3. HeldOperations = {} /\ reservedLease = NoLease /\ ~Settling
      BY <2>3 DEF LaneView
    <3>4. Lane!Take(Operation(r))
      BY <2>1, <3>1, <3>2, <3>3 DEF Lane!Take, Settling
    <3> QED  BY <3>2, <3>4 DEF AbstractStep, Lane!Next
  <2> QED  BY <2>2, <2>3
<1>4. ASSUME NEW r \in Requests, Forward(r) PROVE AbstractStep
  <2>1. \A s \in Requests : LaneHandler(s)' <=> LaneHandler(s)
    BY <1>4 DEF Forward, LaneHandler, LaneOps
  <2>2. \A s \in Requests : Completer(s)' <=> Completer(s)
    BY <1>4 DEF Forward, Completer, LaneOps
  <2>3. \A t \in Requests : TimerOwns(t)' <=> TimerOwns(t)
    BY <1>4 DEF Forward, TimerOwns
  <2>4. MainOwns' <=> MainOwns
    BY <1>4 DEF Forward, MainOwns
  <2> QED  BY <1>4, <2>1, <2>2, <2>3, <2>4, SameOwners DEF Forward
<1>5. ASSUME NEW r \in Requests, ForwardFails(r) PROVE AbstractStep
  <2>1. \A s \in Requests : LaneHandler(s)' <=> LaneHandler(s)
    BY <1>5 DEF ForwardFails, LaneHandler, LaneOps
  <2>2. \A s \in Requests : Completer(s)' <=> Completer(s)
    BY <1>5 DEF ForwardFails, Completer, LaneOps
  <2>3. \A t \in Requests : TimerOwns(t)' <=> TimerOwns(t)
    BY <1>5 DEF ForwardFails, TimerOwns
  <2>4. MainOwns' <=> MainOwns
    BY <1>5 DEF ForwardFails, MainOwns
  <2> QED  BY <1>5, <2>1, <2>2, <2>3, <2>4, SameOwners DEF ForwardFails
<1>6. ASSUME NEW r \in Requests, TakeMessage(r) PROVE AbstractStep
  <2>1. \A s \in Requests : LaneHandler(s)' <=> LaneHandler(s)
    BY <1>6 DEF TakeMessage, LaneHandler, LaneOps
  <2>2. \A s \in Requests : Completer(s)' <=> Completer(s)
    BY <1>6 DEF TakeMessage, Completer, LaneOps
  <2>3. \A t \in Requests : TimerOwns(t)' <=> TimerOwns(t)
    BY <1>6 DEF TakeMessage, TimerOwns
  <2>4. MainOwns' <=> MainOwns
    BY <1>6 DEF TakeMessage, MainOwns
  <2> QED  BY <1>6, <2>1, <2>2, <2>3, <2>4, SameOwners DEF TakeMessage
<1>7. ASSUME NEW r \in Requests, WaitTimeout(r) PROVE AbstractStep
  <2>1. \A s \in Requests : LaneHandler(s)' <=> LaneHandler(s)
    BY <1>7 DEF WaitTimeout, LaneHandler, LaneOps
  <2>2. \A s \in Requests : Completer(s)' <=> Completer(s)
    BY <1>7 DEF WaitTimeout, Completer, LaneOps
  <2>3. \A t \in Requests : TimerOwns(t)' <=> TimerOwns(t)
    BY <1>7 DEF WaitTimeout, TimerOwns
  <2>4. MainOwns' <=> MainOwns
    BY <1>7 DEF WaitTimeout, MainOwns
  <2> QED  BY <1>7, <2>1, <2>2, <2>3, <2>4, SameOwners DEF WaitTimeout
<1>8. ASSUME NEW r \in Requests, Reserve(r) PROVE AbstractStep
  <2>1. LaneHandler(r) /\ op' = op /\ lease' = lease /\ reservedLease' = lease[r]
    BY <1>8 DEF Reserve, LaneHandler, LaneOps
  <2>2. HeldOperations = {Operation(r)} /\ ~Settling /\ reservedLease = NoLease
    BY <2>1 DEF LaneView
  <2>3. lease[r] # NoLease /\ op[r] \in {"turn", "canonical_read"}
    BY <1>8 DEF Reserve
  <2>4. HeldOperations' = {} /\ ~Settling'
    BY <2>1, <2>3 DEF LaneView
  <2>5. Lane!Retain(Operation(r))
    BY <2>1, <2>2, <2>3, <2>4 DEF Lane!Retain, Operation, Settling
  <2> QED  BY <2>1, <2>5 DEF AbstractStep, Lane!Next, LaneView
<1>9. ASSUME NEW r \in Requests, ArmTimer(r) PROVE AbstractStep
  <2>1. \A s \in Requests : LaneHandler(s)' <=> LaneHandler(s)
    BY <1>9 DEF ArmTimer, LaneHandler, LaneOps
  <2>2. \A s \in Requests : Completer(s)' <=> Completer(s)
    BY <1>9 DEF ArmTimer, Completer, LaneOps
  <2>3. \A t \in Requests : TimerOwns(t)' <=> TimerOwns(t)
    BY <1>9 DEF ArmTimer, TimerOwns
  <2>4. MainOwns' <=> MainOwns
    BY <1>9 DEF ArmTimer, MainOwns
  <2> QED  BY <1>9, <2>1, <2>2, <2>3, <2>4, SameOwners DEF ArmTimer
<1>10. ASSUME NEW r \in Requests, Pop(r) PROVE AbstractStep
  <2>1. \A s \in Requests : LaneHandler(s)' <=> LaneHandler(s)
    BY <1>10 DEF Pop, AfterExchange, LaneHandler, LaneOps
  <2>2. \A s \in Requests : Completer(s)' <=> Completer(s)
    BY <1>10 DEF Pop, AfterExchange, Completer, LaneOps
  <2>3. \A t \in Requests : TimerOwns(t)' <=> TimerOwns(t)
    BY <1>10 DEF Pop, AfterExchange, TimerOwns
  <2>4. MainOwns' <=> MainOwns
    BY <1>10 DEF Pop, AfterExchange, MainOwns
  <2> QED  BY <1>10, <2>1, <2>2, <2>3, <2>4, SameOwners DEF Pop, AfterExchange
<1>11. ASSUME NEW r \in Requests, ReleaseLock(r) PROVE AbstractStep
  <2>1. /\ turnLock' = FALSE /\ op' = op /\ lease' = lease
        /\ LaneHandler(r) \/ Completer(r)
        /\ reservedLease' = reservedLease
    BY <1>11 DEF ReleaseLock, LaneHandler, Completer, LaneOps, Ops
  <2>2. HeldOperations' = {} /\ ~Settling'
    BY <2>1 DEF LaneView
  <2>3. CASE LaneHandler(r)
    <3>1. HeldOperations = {Operation(r)} /\ ~Settling /\ reservedLease = NoLease
      BY <2>3 DEF LaneView
    <3>2. ~Lane!LeasedRead(Operation(r))
      BY <1>11 DEF ReleaseLock, Lane!LeasedRead, Operation
    <3> QED  BY <2>1, <2>2, <3>1, <3>2 DEF AbstractStep, Lane!Next, Lane!Free, Settling
  <2>4. CASE Completer(r)
    <3>1. Settling
      BY <2>4 DEF Settling
    <3> QED  BY <2>1, <2>2, <3>1 DEF AbstractStep, Lane!Next, Lane!Free, Settling
  <2> QED  BY <2>1, <2>3, <2>4
<1>12. ASSUME NEW r \in Requests, CompleteReservation(r) PROVE AbstractStep
  <2> USE DEF CompleteReservation, CancelReservationTimer
  <2>1. CASE pc'[r] = "release"
    <3>1. reservedLease # NoLease /\ reservedLease' = NoLease /\ Completer(r)'
      BY <1>12, <2>1 DEF Completer
    <3>2. HeldOperations = {} /\ ~Settling
      BY <3>1 DEF LaneView
    <3>3. Settling'
      BY <3>1 DEF Settling
    <3>4. HeldOperations' = {}
      BY <3>3 DEF LaneView
    <3> QED  BY <3>1, <3>2, <3>3, <3>4 DEF AbstractStep, Lane!Next, Lane!Settle,
        Settling
  <2>2. CASE ~(pc'[r] = "release")
    <3>1. /\ \A s \in Requests : LaneHandler(s)' <=> LaneHandler(s)
          /\ \A s \in Requests : Completer(s)' <=> Completer(s)
          /\ op' = op /\ lease' = lease
      BY <1>12, <2>2 DEF LaneHandler, Completer
    <3>2. /\ \A u \in Requests : TimerOwns(u)' <=> TimerOwns(u)
          /\ (MainOwns' <=> MainOwns) /\ reservedLease' = reservedLease
      <4>1. \A u \in Requests : TimerOwns(u)' <=> TimerOwns(u)
        BY <1>12, <2>2 DEF TimerOwns
      <4>2. (MainOwns' <=> MainOwns) /\ reservedLease' = reservedLease
        BY <1>12, <2>2 DEF MainOwns
      <4> QED  BY <4>1, <4>2
    <3> QED  BY <3>1, <3>2, SameOwners
  <2> QED  BY <2>1, <2>2
<1>13. ASSUME NEW t \in Requests, TimerFires(t) PROVE AbstractStep
  <2>1. \A s \in Requests : LaneHandler(s)' <=> LaneHandler(s)
    BY <1>13 DEF TimerFires, LaneHandler, LaneOps
  <2>2. \A s \in Requests : Completer(s)' <=> Completer(s)
    BY <1>13 DEF TimerFires, Completer, LaneOps
  <2>3. \A u \in Requests : TimerOwns(u)' <=> TimerOwns(u)
    BY <1>13 DEF TimerFires, TimerOwns
  <2>4. MainOwns' <=> MainOwns
    BY <1>13 DEF TimerFires, MainOwns
  <2> QED  BY <1>13, <2>1, <2>2, <2>3, <2>4, SameOwners DEF TimerFires
<1>14. ASSUME NEW t \in Requests, ExpireReservation(t) PROVE AbstractStep
  <2> USE DEF ExpireReservation
  <2>1. CASE reservedLease = lease[t]
    <3>1. reservedLease # NoLease /\ reservedLease' = NoLease /\ TimerOwns(t)'
      BY <1>14, <2>1 DEF TimerOwns
    <3>2. HeldOperations = {} /\ ~Settling
      BY <3>1 DEF LaneView
    <3>3. Settling'
      BY <3>1 DEF Settling
    <3>4. HeldOperations' = {}
      BY <3>3 DEF LaneView
    <3> QED  BY <3>1, <3>2, <3>3, <3>4 DEF AbstractStep, Lane!Next, Lane!Settle,
        Settling
  <2>2. CASE ~(reservedLease = lease[t])
    <3>1. /\ \A s \in Requests : LaneHandler(s)' <=> LaneHandler(s)
          /\ \A s \in Requests : Completer(s)' <=> Completer(s)
          /\ op' = op /\ lease' = lease
      BY <1>14, <2>2 DEF LaneHandler, Completer
    <3>2. /\ \A u \in Requests : TimerOwns(u)' <=> TimerOwns(u)
          /\ (MainOwns' <=> MainOwns) /\ reservedLease' = reservedLease
      <4>1. \A u \in Requests : TimerOwns(u)' <=> TimerOwns(u)
        BY <1>14, <2>2 DEF TimerOwns
      <4>2. (MainOwns' <=> MainOwns) /\ reservedLease' = reservedLease
        BY <1>14, <2>2 DEF MainOwns
      <4> QED  BY <4>1, <4>2
    <3> QED  BY <3>1, <3>2, SameOwners
  <2> QED  BY <2>1, <2>2
<1>15. ASSUME NEW t \in Requests, ReleaseExpired(t) PROVE AbstractStep
  <2>1. Settling /\ turnLock' = FALSE /\ reservedLease' = reservedLease
    BY <1>15 DEF ReleaseExpired, Settling, TimerOwns
  <2>2. HeldOperations' = {} /\ ~Settling'
    BY <2>1 DEF LaneView
  <2> QED  BY <2>1, <2>2 DEF AbstractStep, Lane!Next, Lane!Free, Settling
<1>16. ASSUME NEW tabKnown \in TabReports, Hello(tabKnown) \/ RuntimeState(tabKnown)
      PROVE  AbstractStep
  <2>1. \A s \in Requests : LaneHandler(s)' <=> LaneHandler(s)
    BY <1>16 DEF Hello, RuntimeState, LaneHandler, LaneOps
  <2>2. \A s \in Requests : Completer(s)' <=> Completer(s)
    BY <1>16 DEF Hello, RuntimeState, Completer, LaneOps
  <2>3. \A t \in Requests : TimerOwns(t)' <=> TimerOwns(t)
    BY <1>16 DEF Hello, RuntimeState, TimerOwns
  <2>4. MainOwns' <=> MainOwns
    BY <1>16 DEF Hello, RuntimeState, MainOwns
  <2> QED  BY <1>16, <2>1, <2>2, <2>3, <2>4, SameOwners DEF Hello, RuntimeState
<1>17. CASE BeginClose
  <2> USE DEF BeginClose, CancelReservationTimer
  <2>1. CASE main' = "releasing"
    <3>1. reservedLease # NoLease /\ reservedLease' = NoLease /\ MainOwns'
      BY <1>17, <2>1 DEF MainOwns
    <3>2. HeldOperations = {} /\ ~Settling
      BY <3>1 DEF LaneView
    <3>3. Settling'
      BY <3>1 DEF Settling
    <3>4. HeldOperations' = {}
      BY <3>3 DEF LaneView
    <3> QED  BY <3>1, <3>2, <3>3, <3>4 DEF AbstractStep, Lane!Next, Lane!Settle,
        Settling
  <2>2. CASE ~(main' = "releasing")
    <3>1. /\ \A s \in Requests : LaneHandler(s)' <=> LaneHandler(s)
          /\ \A s \in Requests : Completer(s)' <=> Completer(s)
          /\ op' = op /\ lease' = lease
      BY <1>17, <2>2 DEF LaneHandler, Completer
    <3>2. /\ \A u \in Requests : TimerOwns(u)' <=> TimerOwns(u)
          /\ (MainOwns' <=> MainOwns) /\ reservedLease' = reservedLease
      <4>1. \A u \in Requests : TimerOwns(u)' <=> TimerOwns(u)
        BY <1>17, <2>2 DEF TimerOwns
      <4>2. (MainOwns' <=> MainOwns) /\ reservedLease' = reservedLease
        BY <1>17, <2>2 DEF MainOwns
      <4> QED  BY <4>1, <4>2
    <3> QED  BY <3>1, <3>2, SameOwners
  <2> QED  BY <2>1, <2>2
<1>18. CASE CloseStep
  <2>1. CASE CloseReleasesLane
    <3>1. Settling /\ turnLock' = FALSE /\ reservedLease' = reservedLease
      BY <2>1 DEF CloseReleasesLane, Settling, MainOwns
    <3>2. HeldOperations' = {} /\ ~Settling'
      BY <3>1 DEF LaneView
    <3> QED  BY <3>1, <3>2 DEF AbstractStep, Lane!Next, Lane!Free, Settling
  <2>2. CASE StopServer \/ DrainPending \/ ExitProcess
    <3>1. /\ \A s \in Requests : LaneHandler(s)' <=> LaneHandler(s)
          /\ \A s \in Requests : Completer(s)' <=> Completer(s)
      BY <2>2 DEF StopServer, DrainPending, ExitProcess, LaneHandler, Completer
    <3>2. /\ \A t \in Requests : TimerOwns(t)' <=> TimerOwns(t)
          /\ MainOwns' <=> MainOwns
      BY <2>2 DEF StopServer, DrainPending, ExitProcess, TimerOwns, MainOwns
    <3> QED
      BY <2>2, <3>1, <3>2, SameOwners DEF StopServer, DrainPending, ExitProcess
  <2> QED  BY <1>18, <2>1, <2>2 DEF CloseStep
<1>19. CASE ExtensionStep
  <2>1. \A s \in Requests : LaneHandler(s)' <=> LaneHandler(s)
    BY <1>19 DEF ExtensionStep, ExtensionEvent, ExtensionAnswers, RouteMessage,
        LaneHandler, LaneOps
  <2>2. \A s \in Requests : Completer(s)' <=> Completer(s)
    BY <1>19 DEF ExtensionStep, ExtensionEvent, ExtensionAnswers, RouteMessage,
        Completer, LaneOps
  <2>3. \A t \in Requests : TimerOwns(t)' <=> TimerOwns(t)
    BY <1>19 DEF ExtensionStep, ExtensionEvent, ExtensionAnswers, RouteMessage,
        TimerOwns
  <2>4. MainOwns' <=> MainOwns
    BY <1>19 DEF ExtensionStep, ExtensionEvent, ExtensionAnswers, RouteMessage, MainOwns
  <2> QED  BY <1>19, <2>1, <2>2, <2>3, <2>4, SameOwners DEF ExtensionStep,
      ExtensionEvent, ExtensionAnswers, RouteMessage
<1>20. CASE UNCHANGED vars
  <2>1. \A s \in Requests : LaneHandler(s)' <=> LaneHandler(s)
    BY <1>20 DEF vars, LaneHandler, LaneOps
  <2>2. \A s \in Requests : Completer(s)' <=> Completer(s)
    BY <1>20 DEF vars, Completer, LaneOps
  <2>3. \A t \in Requests : TimerOwns(t)' <=> TimerOwns(t)
    BY <1>20 DEF vars, TimerOwns
  <2>4. MainOwns' <=> MainOwns
    BY <1>20 DEF vars, MainOwns
  <2> QED  BY <1>20, <2>1, <2>2, <2>3, <2>4, SameOwners DEF vars
<1> QED
  BY <1>1, <1>2, <1>3, <1>4, <1>5, <1>6, <1>7, <1>8, <1>9, <1>10, <1>11, <1>12, <1>13,
      <1>14, <1>15, <1>16, <1>17, <1>18, <1>19, <1>20
     DEF Next, BrokerStep, MainStep, HandlerStep, TimerStep, Finished

\* The broker's threads, timers and locks implement the abstract lane: one
\* operation at a time, a leased read never leaves the lane unretained, and a
\* retained lane goes only to a canonical read of its own lease.
THEOREM BrokerImplementsLane == Spec => ImplementsAuthorityLane
<1>1. Init => Lane!Init
  BY DEF Init, Lane!Init, HeldOperations, Settling, LaneHandler, Completer, TimerOwns,
      MainOwns
<1>2. IInv /\ LaneView /\ LaneView' /\ [Next]_vars => [Lane!Next]_Lane!laneVars
  BY RefinementStep DEF AbstractStep
<1> QED
  BY <1>1, <1>2, Invariance, LaneViewHolds, PTL DEF Spec, ImplementsAuthorityLane,
      Lane!Spec
=============================================================================
