------------------------------- MODULE Broker -------------------------------
(***************************************************************************)
(* The native host's broker (browser_native_host.py): a loopback server    *)
(* that runs one handler thread per request, forwards requests to the      *)
(* extension over Native Messaging and serialises browser writes,          *)
(* canonical reads and runtime-tab disposal through one authority lane.    *)
(*                                                                         *)
(* The lane is turn_lock plus a reservation: after an accepted turn or any *)
(* leased canonical read the handler thread ends but the lock stays taken  *)
(* on behalf of the lease, until a read of that lease claims it, the       *)
(* client completes the readback, a 120 second timer expires or the host   *)
(* closes.                                                                 *)
(*                                                                         *)
(* A step is a critical section of _authority_reservation_guard, an        *)
(* operation on turn_lock, or a queue operation; threads interleave        *)
(* between steps.  A reservation's timer is identified by the request that *)
(* created it, which makes at most one.  What the extension answers, and   *)
(* when, is left open: it may answer late or never.                        *)
(***************************************************************************)
EXTENDS Naturals, Sequences

CONSTANTS
  Requests,   \* the loopback requests, one handler thread each
  Leases,     \* browser authority lease ids
  NoLease,    \* a request without browserAuthorityLeaseId; no reservation
  NoRequest,  \* _authority_reservation_timer is None
  Workload,   \* the [op, lease] pairs the clients may ask for
  TabReports, \* whether the extension reports a runtime tab: subset of BOOLEAN
  MaxEvents   \* bound: intermediate frames the extension sends per request

LaneOps == {"turn", "canonical_read", "release_runtime_tab"}
Ops     == LaneOps \union {"canonical_read_complete", "ui_liveness"}

ASSUME BrokerAssumption ==
  /\ NoLease \notin Leases
  /\ NoRequest \notin Requests
  /\ Workload \subseteq [op : Ops, lease : Leases \union {NoLease}]
  /\ TabReports \subseteq BOOLEAN
  /\ MaxEvents \in Nat

VARIABLES
  main,                \* the main thread: serving stdin, or inside close()
  extensionConnected,  \* broker.extension_connected
  runtimeTabKnown,     \* broker.runtime_tab_id is not None
  turnLock,            \* broker.turn_lock.locked()
  reservedLease,       \* broker._authority_reserved_lease_id
  reservationTimer,    \* broker._authority_reservation_timer
  timer,               \* each timer's thread
  pc,                  \* each handler thread's position
  op,                  \* each request's "type"
  lease,               \* each request's browserAuthorityLeaseId
  releaseLane,         \* each handler's local release_lane
  pending,             \* keys of broker.pending
  waiter,              \* each handler's queue of extension messages
  answer,              \* each handler's response
  atExtension,         \* requests written to the extension, not yet answered
  events               \* intermediate frames the extension sent so far

laneVars    == <<turnLock, reservedLease, reservationTimer, timer>>
handlerVars == <<pc, op, lease, releaseLane, answer>>
queueVars   == <<pending, waiter>>
hostVars    == <<main, extensionConnected, runtimeTabKnown>>
wireVars    == <<atExtension, events>>
vars == <<laneVars, handlerVars, queueVars, hostVars, wireVars>>

HandlerPCs == {"idle", "claim", "acquire", "forward", "wait", "reserve", "arm",
               "pop", "complete", "release", "done"}
TimerStates == {"none", "created", "armed", "cancelled", "fired", "releasing",
                "ended"}
Messages == {"event", "ok", "error"}
Answers  == {"none", "ok", "error", "BUSY", "TIMEOUT", "NOT_CONNECTED",
             "LEASE_REQUIRED", "RESERVATION_LOST", "LEASE_MISMATCH",
             "UNAVAILABLE", "LANE_ACTIVE"}
MainStates == {"serving", "releasing", "stopping", "draining", "exiting",
               "exited"}

Init ==
  /\ main = "serving"
  /\ extensionConnected = FALSE
  /\ runtimeTabKnown = FALSE
  /\ turnLock = FALSE
  /\ reservedLease = NoLease
  /\ reservationTimer = NoRequest
  /\ timer = [r \in Requests |-> "none"]
  /\ pc = [r \in Requests |-> "idle"]
  /\ op = [r \in Requests |-> "turn"]
  /\ lease = [r \in Requests |-> NoLease]
  /\ releaseLane = [r \in Requests |-> TRUE]
  /\ answer = [r \in Requests |-> "none"]
  /\ pending = {}
  /\ waiter = [r \in Requests |-> <<>>]
  /\ atExtension = {}
  /\ events = [r \in Requests |-> 0]

Running == main # "exited"

Goto(r, label) == pc' = [pc EXCEPT ![r] = label]

Return(r, result) ==
  /\ Goto(r, "done")
  /\ answer' = [answer EXCEPT ![r] = result]

\* Timer.cancel() stops a timer that has not yet passed its own check of
\* "finished"; a callback already entered runs on.
CancelReservationTimer ==
  timer' = [t \in Requests |->
              IF t = reservationTimer /\ timer[t] \in {"created", "armed"}
              THEN "cancelled" ELSE timer[t]]

ClearReservation ==
  /\ reservedLease' = NoLease
  /\ reservationTimer' = NoRequest

-----------------------------------------------------------------------------
(* handle_local_request: admission *)

\* A request arrives and is dispatched on its type, up to the first use of
\* the lane.  The server accepts connections until close() shuts it down.
Arrive(r, o, l) ==
  /\ main \in {"serving", "releasing", "stopping"}
  /\ pc[r] = "idle"
  /\ op' = [op EXCEPT ![r] = o]
  /\ lease' = [lease EXCEPT ![r] = l]
  /\ \/ /\ o = "canonical_read_complete" /\ l = NoLease
        /\ Return(r, "LEASE_REQUIRED")
     \/ /\ o = "canonical_read_complete" /\ l # NoLease
        /\ Goto(r, "complete")
        /\ UNCHANGED answer
     \/ /\ o \in LaneOps /\ ~extensionConnected
        /\ Return(r, "NOT_CONNECTED")
     \/ /\ o \in LaneOps /\ extensionConnected
        /\ Goto(r, "claim")
        /\ UNCHANGED answer
     \/ /\ o = "ui_liveness" /\ l # NoLease     \* write-bearing field
        /\ Return(r, "error")
     \/ /\ o = "ui_liveness" /\ l = NoLease
        /\ ~extensionConnected \/ ~runtimeTabKnown
        /\ Return(r, "UNAVAILABLE")
     \/ /\ o = "ui_liveness" /\ l = NoLease
        /\ extensionConnected /\ runtimeTabKnown
        /\ IF turnLock
           THEN Return(r, "LANE_ACTIVE")
           ELSE Goto(r, "forward") /\ UNCHANGED answer
  /\ UNCHANGED <<laneVars, releaseLane, queueVars, hostVars, wireVars>>

\* Mutant: any operation of the reserved lease takes the reservation over.
MatchesAnyOperation(r) == lease[r] = reservedLease

\* Only a canonical read of the reserved lease continues its authority.
Matches(r) == op[r] = "canonical_read" /\ lease[r] = reservedLease

\* _claim_authority_lane, the part under the reservation guard: a matching
\* canonical read takes the reservation over with the lock still held, any
\* other request is refused while a reservation stands.
ClaimReserved(r) ==
  /\ Running
  /\ pc[r] = "claim"
  /\ \/ /\ reservedLease # NoLease /\ Matches(r)
        /\ ClearReservation
        /\ CancelReservationTimer
        /\ Goto(r, "forward")
        /\ UNCHANGED answer
     \/ /\ reservedLease # NoLease /\ ~Matches(r)
        /\ Return(r, "BUSY")
        /\ UNCHANGED <<reservedLease, reservationTimer, timer>>
     \/ /\ reservedLease = NoLease
        /\ Goto(r, "acquire")
        /\ UNCHANGED <<reservedLease, reservationTimer, timer, answer>>
  /\ UNCHANGED <<turnLock, op, lease, releaseLane, queueVars, hostVars, wireVars>>

\* _claim_authority_lane, after the guard: turn_lock.acquire(blocking=False).
AcquireLock(r) ==
  /\ Running
  /\ pc[r] = "acquire"
  /\ \/ /\ ~turnLock
        /\ turnLock' = TRUE
        /\ Goto(r, "forward")
        /\ UNCHANGED answer
     \/ /\ turnLock
        /\ Return(r, "BUSY")
        /\ UNCHANGED turnLock
  /\ UNCHANGED <<reservedLease, reservationTimer, timer, op, lease, releaseLane,
                 queueVars, hostVars, wireVars>>

-----------------------------------------------------------------------------
(* handle_local_request: the exchange with the extension *)

\* The handler registers its queue and writes the request to stdout.
Forward(r) ==
  /\ Running
  /\ pc[r] = "forward"
  /\ pending' = pending \union {r}
  /\ atExtension' = atExtension \union {r}
  /\ Goto(r, "wait")
  /\ UNCHANGED <<laneVars, op, lease, releaseLane, answer, waiter, hostVars, events>>

\* An exception between admission and the wait: an unusable timeoutMs, or a
\* stdout that Chrome has closed.
ForwardFails(r) ==
  /\ Running
  /\ pc[r] = "forward"
  /\ answer' = [answer EXCEPT ![r] = "error"]
  /\ Goto(r, "pop")
  /\ UNCHANGED <<laneVars, op, lease, releaseLane, queueVars, hostVars, wireVars>>

\* The handler takes the next message.  An intermediate frame goes to the
\* event sink and the wait goes on; any other message ends it.
TakeMessage(r) ==
  /\ Running
  /\ pc[r] = "wait"
  /\ waiter[r] # <<>>
  /\ waiter' = [waiter EXCEPT ![r] = Tail(@)]
  /\ LET message == Head(waiter[r])
         retain  == /\ lease[r] # NoLease
                    /\ \/ op[r] = "canonical_read"
                       \/ op[r] = "turn" /\ message = "ok"
     IN IF message = "event"
        THEN UNCHANGED <<pc, answer>>
        ELSE /\ answer' = [answer EXCEPT ![r] = message]
             /\ Goto(r, IF retain THEN "reserve" ELSE "pop")
  /\ UNCHANGED <<laneVars, op, lease, releaseLane, pending, hostVars, wireVars>>

\* Mutant: only a turn has a deadline.
OnlyTurnsTimeOut(r) ==
  /\ Running
  /\ pc[r] = "wait" /\ op[r] = "turn"
  /\ waiter[r] = <<>>
  /\ answer' = [answer EXCEPT ![r] = "TIMEOUT"]
  /\ Goto(r, "pop")
  /\ UNCHANGED <<laneVars, op, lease, releaseLane, queueVars, hostVars, wireVars>>

\* queue.Empty at the request's deadline.
WaitTimeout(r) ==
  /\ Running
  /\ pc[r] = "wait"
  /\ waiter[r] = <<>>
  /\ answer' = [answer EXCEPT ![r] = "TIMEOUT"]
  /\ Goto(r, "pop")
  /\ UNCHANGED <<laneVars, op, lease, releaseLane, queueVars, hostVars, wireVars>>

\* Mutant: the reservation's timer is not recorded.
ReserveForgetsTimer(r) ==
  /\ Running
  /\ pc[r] = "reserve"
  /\ reservedLease' = lease[r]
  /\ timer' = [timer EXCEPT ![r] = "created"]
  /\ releaseLane' = [releaseLane EXCEPT ![r] = FALSE]
  /\ Goto(r, "arm")
  /\ UNCHANGED <<turnLock, reservationTimer, op, lease, answer, queueVars, hostVars,
                 wireVars>>

\* _reserve_authority_for_readback: the assignment under the guard.
Reserve(r) ==
  /\ Running
  /\ pc[r] = "reserve"
  /\ reservedLease' = lease[r]
  /\ reservationTimer' = r
  /\ timer' = [timer EXCEPT ![r] = "created"]
  /\ releaseLane' = [releaseLane EXCEPT ![r] = FALSE]
  /\ Goto(r, "arm")
  /\ UNCHANGED <<turnLock, op, lease, answer, queueVars, hostVars, wireVars>>

\* timer.start(), outside the guard: a timer cancelled meanwhile never fires.
ArmTimer(r) ==
  /\ Running
  /\ pc[r] = "arm"
  /\ timer' = [timer EXCEPT ![r] = IF @ = "created" THEN "armed" ELSE @]
  /\ Goto(r, IF r \in pending THEN "pop" ELSE "done")
  /\ UNCHANGED <<turnLock, reservedLease, reservationTimer, op, lease, releaseLane,
                 answer, queueVars, hostVars, wireVars>>

\* A handler that still owns the lane reserves it if it was a leased read,
\* else goes on to release it.
AfterExchange(r) ==
  IF op[r] \notin LaneOps \/ ~releaseLane[r] THEN "done"
  ELSE IF op[r] = "canonical_read" /\ lease[r] # NoLease THEN "reserve"
  ELSE "release"

\* The finally blocks: the queue is dropped, then the lane is settled.
Pop(r) ==
  /\ Running
  /\ pc[r] = "pop"
  /\ pending' = pending \ {r}
  /\ waiter' = [waiter EXCEPT ![r] = <<>>]
  /\ Goto(r, AfterExchange(r))
  /\ UNCHANGED <<laneVars, op, lease, releaseLane, answer, hostVars, wireVars>>

\* turn_lock.release() at the end of a request or of a completion.
ReleaseLock(r) ==
  /\ Running
  /\ pc[r] = "release"
  /\ turnLock' = FALSE
  /\ Goto(r, "done")
  /\ UNCHANGED <<reservedLease, reservationTimer, timer, op, lease, releaseLane,
                 answer, queueVars, hostVars, wireVars>>

\* _complete_authority_reservation, under the guard.
CompleteReservation(r) ==
  /\ Running
  /\ pc[r] = "complete"
  /\ \/ /\ reservedLease = NoLease
        /\ Return(r, IF turnLock THEN "BUSY" ELSE "RESERVATION_LOST")
        /\ UNCHANGED <<reservedLease, reservationTimer, timer>>
     \/ /\ reservedLease # NoLease /\ reservedLease # lease[r]
        /\ Return(r, "LEASE_MISMATCH")
        /\ UNCHANGED <<reservedLease, reservationTimer, timer>>
     \/ /\ reservedLease # NoLease /\ reservedLease = lease[r]
        /\ ClearReservation
        /\ CancelReservationTimer
        /\ Goto(r, "release")
        /\ answer' = [answer EXCEPT ![r] = "ok"]
  /\ UNCHANGED <<turnLock, op, lease, releaseLane, queueVars, hostVars, wireVars>>

-----------------------------------------------------------------------------
(* The reservation timers *)

\* The 120 seconds pass: the timer's thread checks "finished" and enters
\* _expire_authority_reservation, where it waits for the guard.
TimerFires(t) ==
  /\ Running
  /\ timer[t] = "armed"
  /\ timer' = [timer EXCEPT ![t] = "fired"]
  /\ UNCHANGED <<turnLock, reservedLease, reservationTimer, handlerVars, queueVars,
                 hostVars, wireVars>>

\* _expire_authority_reservation, under the guard: it compares lease ids only.
ExpireReservation(t) ==
  /\ Running
  /\ timer[t] = "fired"
  /\ IF reservedLease = lease[t]
     THEN /\ ClearReservation
          /\ timer' = [timer EXCEPT ![t] = "releasing"]
     ELSE /\ timer' = [timer EXCEPT ![t] = "ended"]
          /\ UNCHANGED <<reservedLease, reservationTimer>>
  /\ UNCHANGED <<turnLock, handlerVars, queueVars, hostVars, wireVars>>

\* Mutant: the expired reservation is cleared and the lock forgotten.
ReleaseExpiredForgets(t) ==
  /\ Running
  /\ timer[t] = "releasing"
  /\ timer' = [timer EXCEPT ![t] = "ended"]
  /\ UNCHANGED <<turnLock, reservedLease, reservationTimer, handlerVars, queueVars,
                 hostVars, wireVars>>

\* _expire_authority_reservation, after the guard: turn_lock.release().
ReleaseExpired(t) ==
  /\ Running
  /\ timer[t] = "releasing"
  /\ turnLock' = FALSE
  /\ timer' = [timer EXCEPT ![t] = "ended"]
  /\ UNCHANGED <<reservedLease, reservationTimer, handlerVars, queueVars, hostVars,
                 wireVars>>

-----------------------------------------------------------------------------
(* The main thread: route_native_message, and close() at end of input *)

\* hello, and runtime_state (which leaves the connection flag alone).
Hello(tabKnown) ==
  /\ main = "serving"
  /\ extensionConnected' = TRUE
  /\ runtimeTabKnown' = tabKnown
  /\ UNCHANGED <<main, laneVars, handlerVars, queueVars, wireVars>>

RuntimeState(tabKnown) ==
  /\ main = "serving"
  /\ runtimeTabKnown' = tabKnown
  /\ UNCHANGED <<main, extensionConnected, laneVars, handlerVars, queueVars, wireVars>>

\* A message for request r reaches the handler that still waits for it, and
\* is dropped otherwise.
RouteMessage(r, message) ==
  /\ main = "serving"
  /\ waiter' = IF r \in pending
               THEN [waiter EXCEPT ![r] = Append(@, message)] ELSE waiter
  /\ UNCHANGED <<laneVars, handlerVars, pending, hostVars>>

\* close(): _clear_authority_reservation under the guard ...
BeginClose ==
  /\ main = "serving"
  /\ \/ /\ reservedLease # NoLease
        /\ ClearReservation
        /\ CancelReservationTimer
        /\ main' = "releasing"
     \/ /\ reservedLease = NoLease
        /\ main' = "stopping"
        /\ UNCHANGED <<reservedLease, reservationTimer, timer>>
  /\ UNCHANGED <<turnLock, extensionConnected, runtimeTabKnown, handlerVars,
                 queueVars, wireVars>>

\* ... and its turn_lock.release().
CloseReleasesLane ==
  /\ main = "releasing"
  /\ turnLock' = FALSE
  /\ main' = "stopping"
  /\ UNCHANGED <<reservedLease, reservationTimer, timer, extensionConnected,
                 runtimeTabKnown, handlerVars, queueVars, wireVars>>

\* The server stops accepting and the descriptor is removed.
StopServer ==
  /\ main = "stopping"
  /\ main' = "draining"
  /\ UNCHANGED <<extensionConnected, runtimeTabKnown, laneVars, handlerVars,
                 queueVars, wireVars>>

\* Every waiting handler is answered BROWSER_NATIVE_HOST_SHUTDOWN.
DrainPending ==
  /\ main = "draining"
  /\ pending' = {}
  /\ waiter' = [r \in Requests |->
                  IF r \in pending THEN Append(waiter[r], "error") ELSE waiter[r]]
  /\ main' = "exiting"
  /\ UNCHANGED <<extensionConnected, runtimeTabKnown, laneVars, handlerVars, wireVars>>

\* The interpreter exits; handler and timer threads are daemons and stop
\* wherever they are.
ExitProcess ==
  /\ main = "exiting"
  /\ main' = "exited"
  /\ UNCHANGED <<extensionConnected, runtimeTabKnown, laneVars, handlerVars,
                 queueVars, wireVars>>

-----------------------------------------------------------------------------
(* The extension, as far as the broker can tell *)

ExtensionEvent(r) ==
  /\ r \in atExtension
  /\ op[r] \in {"turn", "canonical_read"}
  /\ events[r] < MaxEvents
  /\ RouteMessage(r, "event")
  /\ events' = [events EXCEPT ![r] = @ + 1]
  /\ UNCHANGED atExtension

ExtensionAnswers(r, message) ==
  /\ r \in atExtension
  /\ RouteMessage(r, message)
  /\ atExtension' = atExtension \ {r}
  /\ UNCHANGED events

-----------------------------------------------------------------------------
HandlerStep(r) ==
  \/ ClaimReserved(r) \/ AcquireLock(r)
  \/ Forward(r) \/ ForwardFails(r)
  \/ TakeMessage(r) \/ WaitTimeout(r)
  \/ Reserve(r) \/ ArmTimer(r) \/ Pop(r) \/ ReleaseLock(r)
  \/ CompleteReservation(r)

TimerStep(t) == TimerFires(t) \/ ExpireReservation(t) \/ ReleaseExpired(t)

CloseStep == CloseReleasesLane \/ StopServer \/ DrainPending \/ ExitProcess

MainStep ==
  \/ \E tabKnown \in TabReports : Hello(tabKnown) \/ RuntimeState(tabKnown)
  \/ BeginClose
  \/ CloseStep

BrokerStep ==
  \/ \E r \in Requests, w \in Workload : Arrive(r, w.op, w.lease)
  \/ \E r \in Requests : HandlerStep(r)
  \/ \E t \in Requests : TimerStep(t)
  \/ MainStep

ExtensionStep ==
  \E r \in Requests :
    \/ ExtensionEvent(r)
    \/ \E message \in {"ok", "error"} : ExtensionAnswers(r, message)

\* Nothing is left to do: the process is gone.
Finished == main = "exited" /\ UNCHANGED vars

Next == BrokerStep \/ ExtensionStep \/ Finished

\* Threads that can run do run, and time passes: a handler's deadline, a
\* timer's interval and a started close() are all eventually reached.  No
\* request is promised to arrive and the extension need not answer.
Fairness ==
  /\ \A r \in Requests : WF_vars(HandlerStep(r))
  /\ \A t \in Requests : WF_vars(TimerStep(t))
  /\ WF_vars(CloseStep)

Spec == Init /\ [][Next]_vars

FairSpec == Spec /\ Fairness

-----------------------------------------------------------------------------
(* Properties *)

\* The types of the broker's state.
TypeOK ==
  /\ main \in MainStates
  /\ extensionConnected \in BOOLEAN
  /\ runtimeTabKnown \in BOOLEAN
  /\ turnLock \in BOOLEAN
  /\ reservedLease \in Leases \union {NoLease}
  /\ reservationTimer \in Requests \union {NoRequest}
  /\ timer \in [Requests -> TimerStates]
  /\ pc \in [Requests -> HandlerPCs]
  /\ op \in [Requests -> Ops]
  /\ lease \in [Requests -> Leases \union {NoLease}]
  /\ releaseLane \in [Requests -> BOOLEAN]
  /\ answer \in [Requests -> Answers]
  /\ pending \subseteq Requests
  /\ waiter \in [Requests -> Seq(Messages)]
  /\ atExtension \subseteq Requests
  /\ events \in [Requests -> 0..MaxEvents]

\* Handler r has the lane for its operation: it took turn_lock over and has
\* neither released it nor handed it to a reservation.
LaneHandler(r) ==
  /\ op[r] \in LaneOps
  /\ \/ pc[r] \in {"forward", "wait", "reserve", "release"}
     \/ pc[r] = "pop" /\ releaseLane[r]

\* Handler r has cleared the reservation it completes and not yet released
\* turn_lock.
Completer(r) == op[r] = "canonical_read_complete" /\ pc[r] = "release"

HandlerOwns(r) == LaneHandler(r) \/ Completer(r)

\* An expired reservation's timer owns the lane until it has released it.
TimerOwns(t) == timer[t] = "releasing"

MainOwns == main = "releasing"

ReservationOwns == reservedLease # NoLease

\* turn_lock has exactly one owner whenever it is taken and none when it is
\* free: a handler, a reservation, an expiring timer or close().  So no
\* release can free the lane under another's feet, none is lost, and no two
\* requests of the lane are ever exchanged with the browser by their handlers
\* at once (handle_local_request, _claim_, _reserve_, _expire_, _complete_ and
\* _clear_authority_reservation).
LaneOwnership ==
  /\ turnLock <=> \/ \E r \in Requests : HandlerOwns(r)
                  \/ \E t \in Requests : TimerOwns(t)
                  \/ MainOwns
                  \/ ReservationOwns
  /\ \A r, s \in Requests : HandlerOwns(r) /\ HandlerOwns(s) => r = s
  /\ \A t, u \in Requests : TimerOwns(t) /\ TimerOwns(u) => t = u
  /\ \A r, t \in Requests : ~(HandlerOwns(r) /\ TimerOwns(t))
  /\ ReservationOwns =>
       ~MainOwns /\ \A r \in Requests : ~HandlerOwns(r) /\ ~TimerOwns(r)
  /\ MainOwns => \A r \in Requests : ~HandlerOwns(r) /\ ~TimerOwns(r)

\* A standing reservation always has a timer of its own lease that has not
\* been cancelled and will free it: the crash-safety bound of
\* AUTHORITY_READBACK_RESERVATION_SECONDS is never lost.
ReservationIsBounded ==
  ReservationOwns =>
    /\ reservationTimer \in Requests
    /\ lease[reservationTimer] = reservedLease
    /\ \/ timer[reservationTimer] \in {"armed", "fired"}
       \/ timer[reservationTimer] = "created" /\ pc[reservationTimer] = "arm"

\* The lane has one owner, and the owner that is only a reservation gives it up
\* in time.
LaneIsAccountable == LaneOwnership /\ ReservationIsBounded

\* The broker implements the abstract lane: the lane is held by the request
\* whose handler owns it, retained for the reserved lease, and settling while
\* a completion, an expired timer or close() has cleared the reservation and
\* not yet released turn_lock.
Operation(r) == [request |-> r, op |-> op[r], lease |-> lease[r]]

HeldOperations == {Operation(r) : r \in {s \in Requests : LaneHandler(s)}}

Settling ==
  \/ \E r \in Requests : Completer(r)
  \/ \E t \in Requests : TimerOwns(t)
  \/ MainOwns

Lane == INSTANCE AuthorityLane
          WITH held     <- HeldOperations,
               retained <- {reservedLease} \ {NoLease},
               settling <- Settling

ImplementsAuthorityLane == Lane!Spec

\* No lane is leaked: whatever the extension does and whichever client dies
\* before it completes its readback, the lane is again and again free as long
\* as the host lives.
LaneNeverLeaks == []<>(~turnLock \/ main = "exited")

\* Every request the server accepted is answered, or the host exits first.
EveryRequestAnswered ==
  \A r \in Requests :
    pc[r] # "idle" ~> (pc[r] = "done" /\ answer[r] # "none") \/ main = "exited"

-----------------------------------------------------------------------------
(* What the code does not keep: see "Seen while modelling" in the README. *)

\* Only the timer of the standing reservation may expire it: the lane stays
\* retained for the lease until the readback is classified or that
\* reservation's own 120 seconds have passed.
OnlyOwnTimerExpires ==
  [][\A t \in Requests :
       timer[t] = "fired" /\ timer'[t] = "releasing" => reservationTimer = t]_vars
=============================================================================
