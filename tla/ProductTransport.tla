-------------------------- MODULE ProductTransport --------------------------
(***************************************************************************)
(* The browser-owned product transport (browser_owned_product_transport.py *)
(* with browser_owned_submission_lifecycle.py) in front of the write       *)
(* runtime.  send_text runs a turn to its answer in one call; submit_text  *)
(* writes it and publishes a pending submission, which await_final, on any *)
(* thread, later reads to its end.  One re-entrant dispatch lock is held   *)
(* over each of these calls, and one slot, _pending, keeps a submission    *)
(* between its two calls.                                                  *)
(*                                                                         *)
(* With Reentrant, a callback of a running call (on_event, on_token) may   *)
(* start another call on its own thread: the lock is an RLock.             *)
(***************************************************************************)
EXTENDS WriteRuntime

CONSTANTS
  NoThread,   \* nobody holds the dispatch lock
  Reentrant   \* callbacks call the transport again

ASSUME TransportAssumption ==
  /\ NoThread \notin Threads
  /\ Reentrant \in BOOLEAN

VARIABLES
  dispatchLock,  \* the owner of _submission_dispatch_lock
  pending,       \* _pending
  reserved,      \* _dispatch_reserved
  op,            \* the operation each turn's call is in
  caller         \* the turn in whose callback the call was made

transportVars == <<dispatchLock, pending, reserved, op, caller>>
allVars == <<vars, transportVars>>

Operations == {"none", "send", "submit", "await"}

TransportInit ==
  /\ Init
  /\ dispatchLock = NoThread
  /\ pending = NoTurn
  /\ reserved = FALSE
  /\ op = [t \in Turns |-> "none"]
  /\ caller = [t \in Turns |-> NoTurn]

Running(t) == op[t] # "none"

\* No call made from one of its callbacks is still running.
Innermost(t) == Running(t) /\ \A u \in Turns : caller[u] = t => ~Running(u)

\* The caller's callbacks run while the write and the readback do.
AtCallback(t) == Innermost(t) /\ pc[t] \in {"write", "forwarded", "read"}

SlotIsTaken == pending # NoTurn \/ reserved

-----------------------------------------------------------------------------
(* _serialize_submission_operation *)

\* The lock is free, or the thread holds it already in the call c.
DispatchLockFree(h, c) ==
  \/ c = NoTurn /\ dispatchLock = NoThread
  \/ Reentrant /\ c # NoTurn /\ AtCallback(c) /\ thread[c] = h

Enter(t, operation, h, c) ==
  /\ DispatchLockFree(h, c)
  /\ dispatchLock' = h
  /\ op' = [op EXCEPT ![t] = operation]
  /\ caller' = [caller EXCEPT ![t] = c]

-----------------------------------------------------------------------------
(* The beginnings of the calls *)

\* Mutant: a pending submission does not keep a send from starting.
SendIgnoresPending(t, c) ==
  /\ pc[t] = "idle"
  /\ ~Running(t)
  /\ Enter(t, "send", thread[t], c)
  /\ UNCHANGED <<vars, pending, reserved>>

\* send_text and send_text_observed: ensure_no_pending_submission passes.
BeginSend(t, c) ==
  /\ pc[t] = "idle"
  /\ ~Running(t)
  /\ ~SlotIsTaken
  /\ Enter(t, "send", thread[t], c)
  /\ UNCHANGED <<vars, pending, reserved>>

\* submit_text: _reserve_dispatch passes.
BeginSubmit(t, c) ==
  /\ pc[t] = "idle"
  /\ ~Running(t)
  /\ ~SlotIsTaken
  /\ Enter(t, "submit", thread[t], c)
  /\ reserved' = TRUE
  /\ UNCHANGED <<vars, pending>>

\* A send or submit that finds the slot taken: SUBMISSION_FINALITY_PENDING.
RejectPending(t, c) ==
  /\ ~Running(t)
  /\ SlotIsTaken
  /\ DispatchLockFree(thread[t], c)
  /\ Refuse(t)
  /\ UNCHANGED transportVars

\* Mutant: the lease is not set on the thread that awaits.
AwaitWithoutLease(t, h) ==
  /\ pc[t] = "submitted"
  /\ ~Running(t)
  /\ pending = t
  /\ Enter(t, "await", h, NoTurn)
  /\ thread' = [thread EXCEPT ![t] = h]
  /\ Goto(t, "read")
  /\ UNCHANGED <<lockedVars, timer, client, leaseContext, split, disposable, gen, leaseRef,
                 turnRef, observed, ack, result, lane, pending, reserved>>

\* await_final: the handle must be the pending one's; its lease is set on the
\* thread that awaits it.
BeginAwait(t, h) ==
  /\ pc[t] = "submitted"
  /\ ~Running(t)
  /\ pending = t
  /\ Enter(t, "await", h, NoTurn)
  /\ thread' = [thread EXCEPT ![t] = h]
  /\ leaseContext' = [leaseContext EXCEPT ![h] = t]
  /\ Goto(t, "read")
  /\ UNCHANGED <<lockedVars, timer, client, split, disposable, gen, leaseRef, turnRef,
                 observed, ack, result, lane, pending, reserved>>

-----------------------------------------------------------------------------
(* Inside the calls *)

\* Refused before the write, or issued authority.
Prepare(t) ==
  /\ Innermost(t)
  /\ Refuse(t) \/ \E d \in BOOLEAN : Issue(t, d, op[t] = "submit")
  /\ UNCHANGED transportVars

Proceed(t) ==
  /\ Innermost(t)
  /\ CallStep(t)
  /\ UNCHANGED transportVars

Read(t) ==
  /\ Innermost(t)
  /\ ReadBaseline(t) \/ PollRead(t)
  /\ UNCHANGED transportVars

\* The accepted submission: the thread's lease is cleared and the submission
\* becomes the pending one.  _dispatch_reserved has kept the slot free.
Publish(t) ==
  /\ Innermost(t)
  /\ op[t] = "submit"
  /\ pc[t] = "submitted"
  /\ pending = NoTurn
  /\ pending' = t
  /\ leaseContext' = [leaseContext EXCEPT ![thread[t]] = NoTurn]
  /\ UNCHANGED <<lockedVars, timer, pc, client, thread, split, disposable, gen, leaseRef,
                 turnRef, observed, ack, result, lane, dispatchLock, reserved, op,
                 caller>>

PendingAfter(t) == IF op[t] = "await" THEN NoTurn ELSE pending

\* The call returns: a submit gives its reservation up, an await the slot, the
\* outermost call the lock.
Return(t) ==
  /\ Innermost(t)
  /\ pc[t] = "done" \/ (op[t] = "submit" /\ pending = t)
  /\ pending' = PendingAfter(t)
  /\ reserved' = IF op[t] = "submit" THEN FALSE ELSE reserved
  /\ dispatchLock' = IF caller[t] = NoTurn THEN NoThread ELSE dispatchLock
  /\ op' = [op EXCEPT ![t] = "none"]
  /\ caller' = [caller EXCEPT ![t] = NoTurn]
  /\ UNCHANGED vars

-----------------------------------------------------------------------------
Begin(t) ==
  \/ \E c \in Turns \union {NoTurn} : BeginSend(t, c) \/ BeginSubmit(t, c)
  \/ \E h \in Threads : BeginAwait(t, h)

Reject(t) == \E c \in Turns \union {NoTurn} : RejectPending(t, c)

Background(t) == (TimerStep(t) \/ LaneExpires(t)) /\ UNCHANGED transportVars

\* A submission need not be awaited.
Settled ==
  /\ \A t \in Turns : pc[t] \in {"done", "submitted"} /\ ~Running(t)
  /\ UNCHANGED allVars

TransportNext ==
  \/ \E t \in Turns :
       \/ Begin(t) \/ Reject(t) \/ Prepare(t) \/ Proceed(t) \/ Read(t)
       \/ Publish(t) \/ Return(t) \/ Background(t)
  \/ Settled

\* Calls and timers run on; whether a caller begins one is up to the caller.
TransportFairness ==
  \A t \in Turns :
    /\ WF_allVars(Prepare(t) \/ Proceed(t) \/ Publish(t) \/ Return(t))
    /\ WF_allVars(TimerStep(t) /\ UNCHANGED transportVars)

TransportSpec == TransportInit /\ [][TransportNext]_allVars

TransportFairSpec == TransportSpec /\ TransportFairness

-----------------------------------------------------------------------------
(* Properties *)

InFlight(t) == pc[t] \notin {"idle", "done"}

\* The transport implements the single slot: from before the write of a turn
\* until its answer is final no other turn begins, whichever threads submit,
\* send and await.
Holder ==
  IF pending # NoTurn THEN pending
  ELSE IF \E t \in Turns : Running(t) THEN CHOOSE t \in Turns : Running(t)
  ELSE NoTurn

Slot == INSTANCE SubmissionSlot
          WITH slot <- Holder,
               phase <- IF pending # NoTurn
                        THEN IF op[pending] = "await" THEN "reading" ELSE "pending"
                        ELSE IF Holder # NoTurn THEN "writing" ELSE "free",
               written <- {t \in Turns : leaseRef[t] # "none"}

ImplementsSubmissionSlot == Slot!Spec

\* The runtime tab is closed on a lease only when no turn needs the browser:
\* no other turn is in flight, and the lease's own turn has done its reading.
NoCloseDuringTurn ==
  \A t \in Turns :
    Disposing(t) =>
      /\ \A u \in Turns \ {t} : ~InFlight(u)
      /\ pc[t] \in {"start", "finalize", "return", "close", "done"}

\* Reads of the answer are made under the turn's own lease, on whichever
\* thread awaits it: else the broker would not keep the lane for them.
ReadsUnderOwnLease ==
  \A t \in Turns :
    pc[t] \in {"forwarded", "read", "ack"} => HasLease(t)

\* Each call reports its own turn's lifecycle, never that of a turn another
\* thread dispatched meanwhile.
OwnLifecycle ==
  \A t \in Turns : turnRef[t].turn = t

\* The turns of one transport are isolated from each other and from the disposals
\* of earlier ones, which run on timer threads: no tab is closed under a turn, no
\* answer is read under another turn's lease, no outcome is another turn's
\* (dispose_if_still_current, await_final and _record_write_completion).
TurnsAreIsolated == NoCloseDuringTurn /\ ReadsUnderOwnLease /\ OwnLifecycle

\* Every call that is begun returns: the dispatch lock is never kept, though
\* a disposal may hold the authority lock the call needs.
EveryCallReturns ==
  \A t \in Turns : Running(t) ~> ~Running(t)

-----------------------------------------------------------------------------
(* What the code does not keep: see "Seen while modelling" in the README. *)

\* One turn at a time: "Serialize every browser-owned write/finality operation
\* on one transport." (_serialize_submission_operation).
OneTurnInFlight ==
  \A t, u \in Turns : InFlight(t) /\ InFlight(u) => t = u
=============================================================================
