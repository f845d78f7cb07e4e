---------------------------- MODULE WriteRuntime ----------------------------
(***************************************************************************)
(* The browser-owned write runtime (browser_owned_write_runtime.py, with   *)
(* browser_authority_lease.py and browser_native_client.py): one turn is   *)
(* one write.  A call issues a browser authority lease, delegates the      *)
(* write to the bridge once, reads the canonical answer back, acknowledges *)
(* the readback, releases the lease and, for a disposable lease, schedules *)
(* the disposal of the runtime tab.                                        *)
(*                                                                         *)
(* A step is a critical section of _authority_lock, one exchange with the  *)
(* bridge, or a step of a disposal timer; calls and timers interleave      *)
(* between steps.  Every exchange sees the broker's lane through "lane",   *)
(* the turn on whose behalf it is taken or retained (Broker.tla implements *)
(* that abstraction).  Times are left out: a TTL, a deadline and the       *)
(* broker's 120 seconds may pass at any step.                              *)
(*                                                                         *)
(* This module lets every thread call the runtime directly.  The transport *)
(* in front of it, which serialises the calls and splits a write into      *)
(* submit and await, is ProductTransport.tla.                              *)
(***************************************************************************)
EXTENDS Naturals, FiniteSets

CONSTANTS
  Turns,            \* the writes
  Threads,          \* the threads that call the runtime
  NoTurn,           \* no turn, lease, timer or lock owner
  Clients           \* the kinds of clients the runtime may be given

ASSUME WriteRuntimeAssumption ==
  /\ NoTurn \notin Turns
  /\ IsFiniteSet(Turns)
  /\ Clients \subseteq {"native", "legacy"}

VARIABLES
  authorityLock,  \* the turn whose disposal holds _authority_lock over its RPC
  generation,     \* _authority_generation
  lastLease,      \* _last_browser_authority_lease
  lastTurn,       \* _last_turn_lifecycle
  pendingTimer,   \* _pending_disposal_timer
  timer,          \* each lease's disposal timer
  pc,             \* each call's position
  thread,         \* the thread of each call
  client,         \* "native" has complete_canonical_readback, "legacy" has not
  leaseContext,   \* the provider's thread-local lease
  split,          \* the call submits and awaits separately
  disposable,     \* the resolved policy is not PERSISTENT
  gen,            \* each lease's generation
  leaseRef,       \* each call's lease_ref (its state)
  turnRef,        \* each call's turn_ref
  observed,       \* write_event_observed
  ack,            \* readback_ack_attempted / readback_acknowledged
  result,         \* what the call returns or raises
  lane            \* the broker's lane: the turn it is taken or retained for

lockedVars == <<authorityLock, generation, lastLease, lastTurn, pendingTimer>>
callVars   == <<pc, client, thread, leaseContext, split, disposable, gen, leaseRef,
                turnRef, observed, ack, result>>
vars == <<lockedVars, timer, callVars, lane>>

LeaseStates == {"none", "ACTIVE", "RELEASED", "RELEASE_UNKNOWN"}
TurnStates  == {"none", "DISPATCHED", "WRITE_COMPLETED", "FINALIZED",
                "READBACK_INCOMPLETE", "AMBIGUOUS"}
Terminal    == {"FINALIZED", "READBACK_INCOMPLETE", "AMBIGUOUS"}
PCs         == {"idle", "write", "forwarded", "submitted", "read", "ack",
                "release", "store", "start", "finalize", "return", "fail",
                "settle", "unknown", "close", "done"}
TimerStates == {"none", "created", "armed", "cancelled", "fired", "rpc",
                "closing", "ended"}
Acks        == {"none", "ok", "failed"}
Results     == {"none", "refused", "answer", "classified", "unclassified",
                "foreign"}

Lease(t, s) == [turn |-> t, state |-> s]
TurnLifecycle(t, s) == [turn |-> t, state |-> s]

Init ==
  /\ authorityLock = NoTurn
  /\ generation = 0
  /\ lastLease = Lease(NoTurn, "none")
  /\ lastTurn = TurnLifecycle(NoTurn, "none")
  /\ pendingTimer = NoTurn
  /\ timer = [t \in Turns |-> "none"]
  /\ pc = [t \in Turns |-> "idle"]
  /\ thread \in [Turns -> Threads]
  /\ client \in Clients
  /\ leaseContext = [h \in Threads |-> NoTurn]
  /\ split = [t \in Turns |-> FALSE]
  /\ disposable = [t \in Turns |-> FALSE]
  /\ gen = [t \in Turns |-> 0]
  /\ leaseRef = [t \in Turns |-> "none"]
  /\ turnRef = [t \in Turns |-> TurnLifecycle(t, "none")]
  /\ observed = [t \in Turns |-> FALSE]
  /\ ack = [t \in Turns |-> "none"]
  /\ result = [t \in Turns |-> "none"]
  /\ lane = NoTurn

\* Mutant: the critical sections do not exclude a disposal.
NoAuthorityLock == TRUE

LockFree == authorityLock = NoTurn

Goto(t, label) == pc' = [pc EXCEPT ![t] = label]

\* The broker accepts what this thread asks under the lease it has set.
HasLease(t) == leaseContext[thread[t]] = t

-----------------------------------------------------------------------------
(* send_text: before the write *)

\* Validation, policy resolution, health, the commit check or the fresh
\* bridge status refuse the call: nothing was issued or written.
Refuse(t) ==
  /\ pc[t] = "idle"
  /\ Goto(t, "done")
  /\ result' = [result EXCEPT ![t] = "refused"]
  /\ UNCHANGED <<lockedVars, timer, client, thread, leaseContext, split, disposable, gen,
                 leaseRef, turnRef, observed, ack, lane>>

\* The pending timer is cancelled: a callback already entered runs on.
CancelPendingTimer ==
  timer' = [t \in Turns |->
              IF t = pendingTimer /\ timer[t] \in {"created", "armed"}
              THEN "cancelled" ELSE timer[t]]

\* _issue_authority, and set_browser_authority_lease on the calling thread.
Issue(t, d, s) ==
  /\ pc[t] = "idle"
  /\ LockFree
  /\ generation' = generation + 1
  /\ gen' = [gen EXCEPT ![t] = generation']
  /\ CancelPendingTimer
  /\ pendingTimer' = NoTurn
  /\ lastLease' = Lease(t, "ACTIVE")
  /\ lastTurn' = TurnLifecycle(t, "DISPATCHED")
  /\ leaseRef' = [leaseRef EXCEPT ![t] = "ACTIVE"]
  /\ turnRef' = [turnRef EXCEPT ![t] = TurnLifecycle(t, "DISPATCHED")]
  /\ disposable' = [disposable EXCEPT ![t] = d]
  /\ split' = [split EXCEPT ![t] = s]
  /\ leaseContext' = [leaseContext EXCEPT ![thread[t]] = t]
  /\ Goto(t, "write")
  /\ UNCHANGED <<authorityLock, client, thread, observed, ack, result, lane>>

-----------------------------------------------------------------------------
(* submit_browser_native: one delegated write *)

\* A canonical read under the call's own lease takes the lane over or anew and
\* leaves it retained; one without a lease only passes through a free lane.
\* Reads of the legacy client do not use the bridge.
CanRead(t) ==
  \/ client # "native"
  \/ lane = NoTurn
  \/ lane = t /\ HasLease(t)

LaneAfterRead(t) == IF client = "native" /\ HasLease(t) THEN t ELSE lane

\* A continuation reads the conversation before it writes, up to three times,
\* under the lease it has just been issued.
ReadBaseline(t) ==
  /\ client = "native"
  /\ pc[t] = "write"
  /\ CanRead(t)
  /\ lane' = LaneAfterRead(t)
  /\ UNCHANGED <<lockedVars, timer, callVars>>

\* The provider raises before the broker forwards the turn: the bridge is
\* gone, the lane is taken (BROWSER_NATIVE_BRIDGE_BUSY, not retried), or a read
\* before the write fails.
WriteRefused(t) ==
  /\ pc[t] = "write"
  /\ Goto(t, "fail")
  /\ UNCHANGED <<lockedVars, timer, client, thread, leaseContext, split, disposable, gen,
                 leaseRef, turnRef, observed, ack, result, lane>>

\* The broker gives the lane to the turn and forwards it.
Delegate(t) ==
  /\ pc[t] = "write"
  /\ lane = NoTurn
  /\ lane' = t
  /\ Goto(t, "forwarded")
  /\ UNCHANGED <<lockedVars, timer, client, thread, leaseContext, split, disposable, gen,
                 leaseRef, turnRef, observed, ack, result>>

\* The turn fails after delegation: the broker answers an error and frees the
\* lane, or its answer is lost and the lane stays with the turn.
WriteFails(t) ==
  /\ pc[t] = "forwarded"
  /\ Goto(t, "fail")
  /\ lane' \in {NoTurn, t}
  /\ UNCHANGED <<lockedVars, timer, client, thread, leaseContext, split, disposable, gen,
                 leaseRef, turnRef, observed, ack, result>>

\* After an accepted write a split call returns its acknowledgement, any other
\* goes on to read the answer.
AfterWrite(t) == IF split[t] THEN "submitted" ELSE "read"

\* The last turn's write is completed if it is the caller's and still open;
\* whatever turn is last becomes the caller's turn_ref.
CompleteLastTurn(t) ==
  /\ lastTurn' = IF lastTurn.turn = turnRef[t].turn /\ lastTurn.state = "DISPATCHED"
                 THEN TurnLifecycle(lastTurn.turn, "WRITE_COMPLETED") ELSE lastTurn
  /\ turnRef' = [turnRef EXCEPT ![t] = lastTurn']

\* _record_write_completion: the write is accepted, authority is retained for
\* the readback; the broker retains its lane for a turn that has a lease.
RecordWrite(t) ==
  /\ client = "native"
  /\ pc[t] = "forwarded"
  /\ LockFree
  /\ observed' = [observed EXCEPT ![t] = TRUE]
  /\ lane' = IF HasLease(t) THEN lane ELSE NoTurn
  /\ IF lastLease.turn = t
     THEN /\ CompleteLastTurn(t)
          /\ leaseRef' = [leaseRef EXCEPT ![t] = lastLease.state]
     ELSE UNCHANGED <<lastTurn, turnRef, leaseRef>>
  /\ Goto(t, AfterWrite(t))
  /\ UNCHANGED <<authorityLock, generation, lastLease, pendingTimer, timer, client, thread,
                 leaseContext, split, disposable, gen, ack, result>>

\* The critical section both release points share: the newest lease is
\* released if it is still active, and a disposable one goes on to be
\* scheduled.
ReleaseLastLease(t, otherwise) ==
  /\ LockFree
  /\ IF lastLease.turn = t
     THEN /\ lastLease' = Lease(t, IF lastLease.state = "ACTIVE" THEN "RELEASED"
                                   ELSE lastLease.state)
          /\ leaseRef' = [leaseRef EXCEPT ![t] = lastLease'.state]
          /\ Goto(t, IF lastLease'.state = "RELEASED" /\ disposable[t]
                     THEN "store" ELSE otherwise)
     ELSE /\ UNCHANGED <<lastLease, leaseRef>>
          /\ Goto(t, otherwise)

\* _release_authority_from_write_event: for the legacy client authority is
\* released as soon as the write is accepted.
ReleaseOnWrite(t) ==
  /\ client # "native"
  /\ pc[t] = "forwarded"
  /\ observed' = [observed EXCEPT ![t] = TRUE]
  /\ ReleaseLastLease(t, AfterWrite(t))
  /\ IF lastLease.turn = t THEN CompleteLastTurn(t) ELSE UNCHANGED <<lastTurn, turnRef>>
  /\ UNCHANGED <<authorityLock, generation, pendingTimer, timer, client, thread, leaseContext,
                 split, disposable, gen, ack, result, lane>>

-----------------------------------------------------------------------------
(* await_browser_native_final: reading the canonical answer *)

\* A poll of the answer that is not final yet (or a 404).
PollRead(t) ==
  /\ pc[t] = "read"
  /\ CanRead(t)
  /\ lane' = LaneAfterRead(t)
  /\ UNCHANGED <<lockedVars, timer, callVars>>

\* The final answer is read and browser_native_readback_completed is emitted.
ReadFinal(t) ==
  /\ pc[t] = "read"
  /\ CanRead(t)
  /\ lane' = LaneAfterRead(t)
  /\ Goto(t, IF client = "native" THEN "ack" ELSE "finalize")
  /\ UNCHANGED <<lockedVars, timer, client, thread, leaseContext, split, disposable, gen,
                 leaseRef, turnRef, observed, ack, result>>

\* The deadline passes, or a read fails (PollRead is what it does to the lane).
ReadFails(t) ==
  /\ pc[t] = "read"
  /\ Goto(t, "fail")
  /\ UNCHANGED <<lockedVars, timer, client, thread, leaseContext, split, disposable, gen,
                 leaseRef, turnRef, observed, ack, result, lane>>

\* The caller's on_token raises: no handler applies, only the finally blocks.
CallbackRaises(t) ==
  /\ pc[t] = "read"
  /\ CanRead(t)
  /\ lane' = LaneAfterRead(t)
  /\ result' = [result EXCEPT ![t] = "foreign"]
  /\ Goto(t, "close")
  /\ UNCHANGED <<lockedVars, timer, client, thread, leaseContext, split, disposable, gen,
                 leaseRef, turnRef, observed, ack>>

\* complete_canonical_readback: the broker gives the retained lane up ("ok"),
\* does not or its answers are lost ("refused"), or, at some attempt, the bridge
\* descriptor is gone and the call raises.  Without a lease there is nothing to
\* complete.
Completes(t, outcome) ==
  \/ outcome = "ok" /\ ~HasLease(t) /\ UNCHANGED lane
  \/ outcome = "ok" /\ HasLease(t) /\ lane = t /\ lane' = NoTurn
  \/ outcome \in {"refused", "raises"} /\ HasLease(t)
       /\ lane' \in {lane} \union {NoTurn : u \in {t} \intersect {lane}}

\* Mutant: any answer of the broker acknowledges.
AnyAnswerAcknowledges(outcome) == outcome # "raises"

Acknowledges(outcome) == outcome = "ok"

\* acknowledge_readback, attempted at most once per call.
Acknowledge(t, outcome) ==
  /\ ack[t] = "none"
  /\ Completes(t, outcome)
  /\ ack' = [ack EXCEPT ![t] = IF Acknowledges(outcome) THEN "ok" ELSE "failed"]

\* The readback_completed event: without an acknowledgement it raises.
AcknowledgeFinal(t, outcome) ==
  /\ pc[t] = "ack"
  /\ Acknowledge(t, outcome)
  /\ Goto(t, IF Acknowledges(outcome) THEN "release" ELSE "fail")
  /\ UNCHANGED <<lockedVars, timer, client, thread, leaseContext, split, disposable, gen,
                 leaseRef, turnRef, observed, result>>

-----------------------------------------------------------------------------
(* Releasing the lease and scheduling the disposal *)

\* Where a call continues once its lease is released.
AfterRelease(t) ==
  IF client # "native" THEN AfterWrite(t)
  ELSE IF result[t] = "classified" THEN "close" ELSE "finalize"

\* _release_authority_after_readback.
ReleaseAfterReadback(t) ==
  /\ pc[t] = "release"
  /\ ReleaseLastLease(t, AfterRelease(t))
  /\ UNCHANGED <<authorityLock, generation, lastTurn, pendingTimer, timer, client, thread,
                 leaseContext, split, disposable, gen, turnRef, observed, ack, result,
                 lane>>

\* _schedule_disposal: the timer is stored under the lock, taken anew ...
StoreTimer(t) ==
  /\ pc[t] = "store"
  /\ LockFree
  /\ pendingTimer' = t
  /\ timer' = [timer EXCEPT ![t] = "created"]
  /\ Goto(t, "start")
  /\ UNCHANGED <<authorityLock, generation, lastLease, lastTurn, client, thread, leaseContext,
                 split, disposable, gen, leaseRef, turnRef, observed, ack, result, lane>>

\* Mutant: the timer is never started.
ForgetStart(t) ==
  /\ pc[t] = "start"
  /\ Goto(t, AfterRelease(t))
  /\ UNCHANGED <<lockedVars, timer, client, thread, leaseContext, split, disposable, gen,
                 leaseRef, turnRef, observed, ack, result, lane>>

\* ... and started after it: a timer cancelled meanwhile never fires.
StartTimer(t) ==
  /\ pc[t] = "start"
  /\ timer' = [timer EXCEPT ![t] = IF @ = "created" THEN "armed" ELSE @]
  /\ Goto(t, AfterRelease(t))
  /\ UNCHANGED <<lockedVars, client, thread, leaseContext, split, disposable, gen, leaseRef,
                 turnRef, observed, ack, result, lane>>

-----------------------------------------------------------------------------
(* How a call ends *)

\* The turn a critical section works on: the last turn if it is the caller's
\* turn_ref, else turn_ref itself.
CurrentTurn(t) == IF lastTurn.turn = turnRef[t].turn THEN lastTurn ELSE turnRef[t]

\* _finalize_turn, in the readback event and again before send_text returns.
FinalizeTurn(t) ==
  /\ pc[t] \in {"finalize", "return"}
  /\ LockFree
  /\ lastTurn' = TurnLifecycle(CurrentTurn(t).turn,
                               IF CurrentTurn(t).state \in Terminal
                               THEN CurrentTurn(t).state ELSE "FINALIZED")
  /\ turnRef' = [turnRef EXCEPT ![t] = lastTurn']
  /\ IF pc[t] = "finalize"
     THEN Goto(t, "return") /\ UNCHANGED result
     ELSE /\ Goto(t, IF leaseRef[t] = "ACTIVE" THEN "unknown" ELSE "close")
          /\ result' = [result EXCEPT ![t] = "answer"]
  /\ UNCHANGED <<authorityLock, generation, lastLease, pendingTimer, timer, client, thread,
                 leaseContext, split, disposable, gen, leaseRef, observed, ack, lane>>

\* How a failed turn is classified: incomplete readback after an accepted
\* write, else ambiguous, unless the bridge reports an accepted write whose
\* conversation it cannot name, a timeout to a call that is not split.
Failures(t) ==
  IF observed[t] THEN {"READBACK_INCOMPLETE"}
  ELSE IF split[t] THEN {"AMBIGUOUS"} ELSE {"AMBIGUOUS", "READBACK_INCOMPLETE"}

\* _fail_turn
FailTurn(t) ==
  /\ pc[t] = "fail"
  /\ LockFree
  /\ \E s \in Failures(t) : lastTurn' = TurnLifecycle(CurrentTurn(t).turn, s)
  /\ turnRef' = [turnRef EXCEPT ![t] = lastTurn']
  /\ result' = [result EXCEPT ![t] = "classified"]
  /\ Goto(t, "settle")
  /\ UNCHANGED <<authorityLock, generation, lastLease, pendingTimer, timer, client, thread,
                 leaseContext, split, disposable, gen, leaseRef, observed, ack, lane>>

\* After a failed readback the lease is released if the readback can still be
\* acknowledged; otherwise its release stays unknown.
AcknowledgeFailed(t, outcome) ==
  /\ pc[t] = "settle"
  /\ client = "native" /\ observed[t]
  /\ Acknowledge(t, outcome)
  /\ Goto(t, IF outcome = "raises" THEN "close"
             ELSE IF Acknowledges(outcome) THEN "release" ELSE "unknown")
  /\ result' = IF outcome = "raises" THEN [result EXCEPT ![t] = "unclassified"]
               ELSE result
  /\ UNCHANGED <<lockedVars, timer, client, thread, leaseContext, split, disposable, gen,
                 leaseRef, turnRef, observed>>

SettleUnacknowledged(t) ==
  /\ pc[t] = "settle"
  /\ client # "native" \/ ~observed[t] \/ ack[t] = "failed"
  /\ Goto(t, IF leaseRef[t] = "ACTIVE" THEN "unknown" ELSE "close")
  /\ UNCHANGED <<lockedVars, timer, client, thread, leaseContext, split, disposable, gen,
                 leaseRef, turnRef, observed, ack, result, lane>>

\* _mark_release_unknown.
MarkReleaseUnknown(t) ==
  /\ pc[t] = "unknown"
  /\ LockFree
  /\ IF leaseRef[t] # "ACTIVE" THEN UNCHANGED <<lastLease, leaseRef>>
     ELSE IF lastLease.turn # t
     THEN /\ leaseRef' = [leaseRef EXCEPT ![t] = "RELEASE_UNKNOWN"]
          /\ UNCHANGED lastLease
     ELSE /\ lastLease' = Lease(t, IF lastLease.state = "ACTIVE" THEN "RELEASE_UNKNOWN"
                                   ELSE lastLease.state)
          /\ leaseRef' = [leaseRef EXCEPT ![t] = lastLease'.state]
  /\ Goto(t, "close")
  /\ UNCHANGED <<authorityLock, generation, lastTurn, pendingTimer, timer, client, thread,
                 leaseContext, split, disposable, gen, turnRef, observed, ack, result,
                 lane>>

\* The finally blocks: the thread's lease is cleared ...
EndCall(t) ==
  /\ Goto(t, "done")
  /\ leaseContext' = [leaseContext EXCEPT ![thread[t]] = NoTurn]

\* ... after the last chance to acknowledge the readback, which a submission
\* that failed does not take.  An exception there replaces the one on its way.
AcknowledgeAtLast(t, outcome) ==
  /\ pc[t] = "close"
  /\ client = "native" /\ (split[t] => observed[t])
  /\ Acknowledge(t, outcome)
  /\ result' = IF outcome = "raises" THEN [result EXCEPT ![t] = "unclassified"]
               ELSE result
  /\ EndCall(t)
  /\ UNCHANGED <<lockedVars, timer, client, thread, split, disposable, gen, leaseRef, turnRef,
                 observed>>

CloseCall(t) ==
  /\ pc[t] = "close"
  /\ client # "native" \/ (split[t] /\ ~observed[t]) \/ ack[t] # "none"
  /\ EndCall(t)
  /\ UNCHANGED <<lockedVars, timer, client, thread, split, disposable, gen, leaseRef, turnRef,
                 observed, ack, result, lane>>

-----------------------------------------------------------------------------
(* dispose_if_still_current: the disposal timers *)

TimerFires(t) ==
  /\ timer[t] = "armed"
  /\ timer' = [timer EXCEPT ![t] = "fired"]
  /\ UNCHANGED <<lockedVars, callVars, lane>>

\* The lease is still the newest one, and released.
StillCurrent(t) ==
  /\ lastLease = Lease(t, "RELEASED")
  /\ generation = gen[t]

\* Under the authority lock, which stays taken for the exchange with the
\* bridge; a stale timer does nothing, not even clear the pending timer.
BeginDisposal(t) ==
  /\ timer[t] = "fired"
  /\ LockFree
  /\ IF StillCurrent(t)
     THEN /\ authorityLock' = t
          /\ timer' = [timer EXCEPT ![t] = "rpc"]
     ELSE /\ timer' = [timer EXCEPT ![t] = "ended"]
          /\ UNCHANGED authorityLock
  /\ UNCHANGED <<generation, lastLease, lastTurn, pendingTimer, callVars, lane>>

\* Mutant: the lock is kept after the exchange.
DisposalKeepsLock(t) ==
  /\ timer' = [timer EXCEPT ![t] = "ended"]
  /\ pendingTimer' = NoTurn
  /\ UNCHANGED <<authorityLock, generation, lastLease, lastTurn, callVars>>

DisposalEnds(t) ==
  /\ timer' = [timer EXCEPT ![t] = "ended"]
  /\ authorityLock' = NoTurn
  /\ pendingTimer' = NoTurn
  /\ UNCHANGED <<generation, lastLease, lastTurn, callVars>>

\* release_runtime_tab is not forwarded: the bridge is gone or the lane busy.
DisposalRefused(t) ==
  /\ timer[t] = "rpc"
  /\ DisposalEnds(t)
  /\ UNCHANGED lane

DisposalForwarded(t) ==
  /\ timer[t] = "rpc"
  /\ lane = NoTurn
  /\ lane' = t
  /\ timer' = [timer EXCEPT ![t] = "closing"]
  /\ UNCHANGED <<lockedVars, callVars>>

\* The tab is closed or was absent, the extension refuses, or the answer is
\* lost and the lane stays with the disposal.
DisposalAnswered(t) ==
  /\ timer[t] = "closing"
  /\ DisposalEnds(t)
  /\ lane' \in {NoTurn, t}

\* The broker gives a lane up that nobody settled: its reservation expires or
\* its handler reaches the deadline.
LaneExpires(t) ==
  /\ lane = t
  /\ pc[t] # "forwarded"
  /\ timer[t] # "closing"
  /\ lane' = NoTurn
  /\ UNCHANGED <<lockedVars, timer, callVars>>

-----------------------------------------------------------------------------
Outcomes == {"ok", "refused", "raises"}

\* The steps of a call after its write was admitted.
WriteStep(t) ==
  \/ WriteRefused(t) \/ Delegate(t) \/ WriteFails(t)
  \/ RecordWrite(t) \/ ReleaseOnWrite(t)

ReadStep(t) ==
  \/ ReadFinal(t) \/ ReadFails(t) \/ CallbackRaises(t)
  \/ \E outcome \in Outcomes : AcknowledgeFinal(t, outcome)

EndStep(t) ==
  \/ ReleaseAfterReadback(t) \/ StoreTimer(t) \/ StartTimer(t)
  \/ FinalizeTurn(t) \/ FailTurn(t)
  \/ \E outcome \in Outcomes : AcknowledgeFailed(t, outcome)
  \/ SettleUnacknowledged(t) \/ MarkReleaseUnknown(t)
  \/ \E outcome \in Outcomes : AcknowledgeAtLast(t, outcome)
  \/ CloseCall(t)

CallStep(t) == WriteStep(t) \/ ReadStep(t) \/ EndStep(t)

TimerStep(t) ==
  \/ TimerFires(t) \/ BeginDisposal(t)
  \/ DisposalRefused(t) \/ DisposalForwarded(t) \/ DisposalAnswered(t)

\* A thread makes one call at a time.
ThreadIdle(t) ==
  \A u \in Turns : thread[u] = thread[t] => pc[u] \in {"idle", "submitted", "done"}

Start(t) ==
  \/ Refuse(t)
  \/ \E d \in BOOLEAN : ThreadIdle(t) /\ Issue(t, d, FALSE)

AllDone == (\A t \in Turns : pc[t] = "done") /\ UNCHANGED vars

Next ==
  \/ \E t \in Turns :
       \/ Start(t) \/ CallStep(t) \/ ReadBaseline(t) \/ PollRead(t)
       \/ TimerStep(t) \/ LaneExpires(t)
  \/ AllDone

\* Every call and timer runs on: exchanges with the bridge end at their
\* timeouts, reads at the call's deadline, and a timer's delay passes.
Fairness == \A t \in Turns : WF_vars(CallStep(t)) /\ WF_vars(TimerStep(t))

Spec == Init /\ [][Next]_vars

FairSpec == Spec /\ Fairness

-----------------------------------------------------------------------------
(* Properties *)

\* The types of the runtime's state.
TypeOK ==
  /\ authorityLock \in Turns \union {NoTurn}
  /\ generation \in Nat
  /\ lastLease \in [turn : Turns \union {NoTurn}, state : LeaseStates]
  /\ lastTurn \in [turn : Turns \union {NoTurn}, state : TurnStates]
  /\ pendingTimer \in Turns \union {NoTurn}
  /\ timer \in [Turns -> TimerStates]
  /\ pc \in [Turns -> PCs]
  /\ thread \in [Turns -> Threads]
  /\ client \in {"native", "legacy"}
  /\ leaseContext \in [Threads -> Turns \union {NoTurn}]
  /\ split \in [Turns -> BOOLEAN]
  /\ disposable \in [Turns -> BOOLEAN]
  /\ gen \in [Turns -> Nat]
  /\ leaseRef \in [Turns -> LeaseStates]
  /\ turnRef \in [Turns -> [turn : Turns \union {NoTurn}, state : TurnStates]]
  /\ observed \in [Turns -> BOOLEAN]
  /\ ack \in [Turns -> Acks]
  /\ result \in [Turns -> Results]
  /\ lane \in Turns \union {NoTurn}

Disposing(t) == timer[t] \in {"rpc", "closing"}

\* While a disposal is under way its lease is the newest one and released:
\* however many calls run, none has been issued authority since, and none can
\* be before the exchange ends (_schedule_disposal, _issue_authority).
DisposalIsFenced ==
  \A t \in Turns :
    Disposing(t) =>
      /\ authorityLock = t
      /\ lastLease = Lease(t, "RELEASED")
      /\ \A u \in Turns : gen[u] <= gen[t]
      /\ disposable[t]

\* A released lease is proven: its write was accepted, its readback was
\* acknowledged, and the broker no longer retains the lane for it unless its
\* own disposal runs (send_text's order of acknowledgement and release).
ReleaseIsProven ==
  client = "native" =>
    \A t \in Turns :
      leaseRef[t] = "RELEASED" =>
        /\ observed[t] /\ ack[t] = "ok"
        /\ lane = t => timer[t] \in {"closing", "ended"}

\* Authority over the runtime tab is given up only on proof, and the tab is closed
\* only on authority that was.
AuthorityIsSafe == DisposalIsFenced /\ ReleaseIsProven

\* The write runtime keeps the authority ledger: a lease counts as released
\* or given up when the call holding it knows.
Ledger == INSTANCE AuthorityLedger
            WITH newest  <- lastLease.turn,
                 lease   <- leaseRef,
                 closing <- {t \in Turns : Disposing(t)}

ImplementsAuthorityLedger == Ledger!Spec

\* A released disposable lease is disposed of, or a newer lease takes its
\* place; a timer is never lost between storing, starting and cancelling it.
DisposalHappens ==
  \A t \in Turns :
    leaseRef[t] = "RELEASED" /\ disposable[t]
      ~> timer[t] = "ended" \/ generation > gen[t]

-----------------------------------------------------------------------------
(* What the code does not keep: see "Seen while modelling" in the README. *)

\* A call that delegated its write ends with the answer, with the caller's own
\* exception or with a classified error: "Once the provider is invoked, the
\* page-owned POST may already have happened. The facade marks the outcome as
\* unknown" (docs/browser_owned_write_runtime_pr8_2_4.md).
DelegatedWriteIsClassified ==
  \A t \in Turns :
    pc[t] = "done" /\ result[t] # "refused"
      => result[t] \in {"answer", "classified", "foreign"}

\* A turn's own reads never stand in the way of its write: "Ordinary text new
\* chat / continuation | Production | Browser-owned protected write +
\* canonical readback" (README.md).
OwnReadNeverBlocksWrite ==
  \A t \in Turns : pc[t] = "write" => lane # t
=============================================================================
