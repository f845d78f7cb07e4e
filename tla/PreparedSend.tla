---------------------------- MODULE PreparedSend ----------------------------
(***************************************************************************)
(* Prepared text sends of one shared client (sentinel_bundle.py,           *)
(* prepared_text_send.py): a send reserves the client's one finalized      *)
(* Sentinel bundle or acquires one, consumes it when it builds the headers *)
(* of its write, starts a background refill for the next send, and streams *)
(* the answer with a hook on the client's event parser that notes a stream *)
(* handoff.  Refill threads and explicit prefetches fill the same slot.    *)
(*                                                                         *)
(* With Fenced, the sends run inside the shared write fence that a         *)
(* browserless transport installs on its client.  MaxBundles bounds the    *)
(* acquisitions that succeed; any acquisition may fail.                    *)
(***************************************************************************)
EXTENDS Naturals

CONSTANTS
  Sends,       \* calls of _send_existing_text_prepared, each on its thread
  Warmups,     \* calls of prefetch_sentinel_bundle
  NoActor,
  NoBundle,
  MaxBundles,
  Fenced       \* the client carries the shared write fence

ASSUME PreparedSendAssumption ==
  /\ MaxBundles \in Nat
  /\ Fenced \in BOOLEAN
  /\ NoActor \notin Sends

Bundles == 1 .. MaxBundles

Send(s) == <<"send", s>>
Refill(s) == <<"refill", s>>      \* the refill thread that s creates
Warmup(w) == <<"warmup", w>>

Prefetchers == {Refill(s) : s \in Sends} \union {Warmup(w) : w \in Warmups}
Actors == {Send(s) : s \in Sends} \union Prefetchers

ASSUME SentinelAssumption ==
  /\ NoActor \notin Actors
  /\ NoBundle \notin Nat

VARIABLES
  bundle, reserved,   \* the store's slot
  issued, expired,    \* the bundles acquired so far, and those too old
  acquireLock,        \* the owner of _sentinel_bundle_acquire_lock
  fence,              \* the send that holds the shared write fence
  pc,
  held, active,       \* each actor's bundle, and whether it is reserved for it
  used,               \* the bundle each send put in its write's headers
  refillThread,       \* the creator of _sentinel_bundle_refill_thread
  hook, hookOf,       \* _parse_event of the instance, and what each send saved of it
  saw,                \* the sends whose own stream was handed off
  handoff,            \* stream_diagnostics["handoff_seen"] of each send
  result

storeVars == <<bundle, reserved>>
hookVars == <<hook, hookOf, saw, handoff>>
vars == <<storeVars, issued, expired, acquireLock, fence, pc, held, active, used,
          refillThread, hookVars, result>>

PCs == {"idle", "gate", "reserve", "acquire", "install", "confirm", "giveback",
        "prepare", "headers", "refill", "start", "hook", "capture", "stream",
        "decide", "poll", "recover", "unwind", "done"}

Results == {"none", "streamed", "recovered", "empty", "error"}

\* The instance has no _parse_event of its own.
NoHook == {NoActor}

\* An instance hook is the set of the sends whose captures it runs through.
Hooks == (SUBSET Sends) \union {NoHook}

Init ==
  /\ bundle = NoBundle
  /\ reserved = FALSE
  /\ issued = 0
  /\ expired = {}
  /\ acquireLock = NoActor
  /\ fence = NoActor
  /\ pc = [a \in Actors |-> "idle"]
  /\ held = [a \in Actors |-> NoBundle]
  /\ active = [a \in Actors |-> FALSE]
  /\ used = [s \in Sends |-> NoBundle]
  /\ refillThread = NoActor
  /\ hook = NoHook
  /\ hookOf = [s \in Sends |-> NoHook]
  /\ saw = {}
  /\ handoff = {}
  /\ result = [s \in Sends |-> "none"]

Goto(a, next) == pc' = [pc EXCEPT ![a] = next]

-----------------------------------------------------------------------------
(* The store *)

Available == ~reserved /\ bundle # NoBundle /\ bundle \notin expired

Release(a) ==
  /\ active' = [active EXCEPT ![a] = FALSE]
  /\ reserved' = (reserved /\ ~(active[a] /\ bundle = held[a]))
  /\ UNCHANGED bundle

-----------------------------------------------------------------------------
(* prefetch_finalized_sentinel_bundle and get_prepared_sentinel_bundle *)

\* Mutant: the acquisition is not serialised.
NoAcquireLock(a) ==
  /\ pc[a] = "gate"
  /\ acquireLock' = a
  /\ Goto(a, "reserve")
  /\ UNCHANGED <<storeVars, issued, expired, fence, held, active, used, refillThread,
                 hookVars, result>>

Gate(a) ==
  /\ pc[a] = "gate"
  /\ acquireLock = NoActor
  /\ acquireLock' = a
  /\ Goto(a, "reserve")
  /\ UNCHANGED <<storeVars, issued, expired, fence, held, active, used, refillThread,
                 hookVars, result>>

\* A reserved slot raises SENTINEL_BUNDLE_BUSY, in reserve() and in install().
SlotBusy(a) ==
  /\ pc[a] \in {"reserve", "install", "confirm"}
  /\ reserved
  /\ acquireLock' = NoActor
  /\ Goto(a, "unwind")
  /\ UNCHANGED <<storeVars, issued, expired, fence, held, active, used, refillThread,
                 hookVars, result>>

\* reserve() finds a bundle: a send goes on with it, a prefetch gives it back.
ReserveFound(a) ==
  /\ pc[a] \in {"reserve", "confirm"}
  /\ Available
  /\ reserved' = TRUE
  /\ held' = [held EXCEPT ![a] = bundle]
  /\ active' = [active EXCEPT ![a] = TRUE]
  /\ IF a \in Prefetchers
       THEN Goto(a, "giveback") /\ UNCHANGED acquireLock
       ELSE Goto(a, "prepare") /\ acquireLock' = NoActor
  /\ UNCHANGED <<bundle, issued, expired, fence, used, refillThread, hookVars, result>>

\* reserve() finds none, or an expired one that it drops; right after install()
\* that is SENTINEL_BUNDLE_INTERNAL.
ReserveEmpty(a) ==
  /\ pc[a] \in {"reserve", "confirm"}
  /\ ~reserved /\ ~Available
  /\ bundle' = NoBundle
  /\ IF pc[a] = "reserve"
       THEN Goto(a, "acquire") /\ UNCHANGED acquireLock
       ELSE Goto(a, "unwind") /\ acquireLock' = NoActor
  /\ UNCHANGED <<reserved, issued, expired, fence, held, active, used, refillThread,
                 hookVars, result>>

GiveBack(a) ==
  /\ pc[a] = "giveback"
  /\ Release(a)
  /\ acquireLock' = NoActor
  /\ Goto(a, "unwind")
  /\ UNCHANGED <<issued, expired, fence, held, used, refillThread, hookVars, result>>

\* acquire_finalized_sentinel_bundle(), over the network, under the lock.
Acquire(a) ==
  /\ pc[a] = "acquire"
  /\ issued < MaxBundles
  /\ issued' = issued + 1
  /\ held' = [held EXCEPT ![a] = issued + 1]
  /\ Goto(a, "install")
  /\ UNCHANGED <<storeVars, expired, acquireLock, fence, active, used, refillThread,
                 hookVars, result>>

\* Mutant: the acquisition lock is not released when the network fails.
AcquireKeepsLock(a) ==
  /\ pc[a] = "acquire"
  /\ Goto(a, "unwind")
  /\ UNCHANGED <<storeVars, issued, expired, acquireLock, fence, held, active, used,
                 refillThread, hookVars, result>>

AcquireFails(a) ==
  /\ pc[a] = "acquire"
  /\ acquireLock' = NoActor
  /\ Goto(a, "unwind")
  /\ UNCHANGED <<storeVars, issued, expired, fence, held, active, used, refillThread,
                 hookVars, result>>

Install(a) ==
  /\ pc[a] = "install"
  /\ ~reserved
  /\ bundle' = held[a]
  /\ IF a \in Prefetchers
       THEN Goto(a, "unwind") /\ acquireLock' = NoActor
       ELSE Goto(a, "confirm") /\ UNCHANGED acquireLock
  /\ UNCHANGED <<reserved, issued, expired, fence, held, active, used, refillThread,
                 hookVars, result>>

\* Time passes: the stored bundle is too old.
Expire ==
  /\ bundle # NoBundle
  /\ bundle \notin expired
  /\ expired' = expired \union {bundle}
  /\ UNCHANGED <<storeVars, issued, acquireLock, fence, pc, held, active, used,
                 refillThread, hookVars, result>>

-----------------------------------------------------------------------------
(* gate_prepared_text_send around send_existing_text_prepared *)

Enter(s) ==
  /\ pc[Send(s)] = "idle"
  /\ IF Fenced THEN fence = NoActor /\ fence' = s ELSE UNCHANGED fence
  /\ Goto(Send(s), "gate")
  /\ UNCHANGED <<storeVars, issued, expired, acquireLock, held, active, used,
                 refillThread, hookVars, result>>

\* conversation/prepare answers ok, with a conduit token.
Prepare(s) ==
  /\ pc[Send(s)] = "prepare"
  /\ Goto(Send(s), "headers")
  /\ UNCHANGED <<storeVars, issued, expired, acquireLock, fence, held, active, used,
                 refillThread, hookVars, result>>

\* A request fails, a callback of the caller raises, or the bundle is refused
\* (SENTINEL_BUNDLE_NOT_RESERVED), before the stream.
Raise(s) ==
  /\ pc[Send(s)] \in {"prepare", "headers", "start", "hook"}
  /\ Goto(Send(s), "unwind")
  /\ UNCHANGED <<storeVars, issued, expired, acquireLock, fence, held, active, used,
                 refillThread, hookVars, result>>

ReservationStands(a) == active[a] /\ reserved /\ bundle = held[a]

\* Mutant: consume() leaves the bundle in the slot.
ConsumeKeepsBundle(s) ==
  LET a == Send(s) IN
  /\ pc[a] = "headers"
  /\ ReservationStands(a)
  /\ active' = [active EXCEPT ![a] = FALSE]
  /\ reserved' = FALSE
  /\ IF held[a] \in expired
       THEN Goto(a, "unwind") /\ UNCHANGED used
       ELSE Goto(a, "refill") /\ used' = [used EXCEPT ![s] = held[a]]
  /\ UNCHANGED <<bundle, issued, expired, acquireLock, fence, held, refillThread,
                 hookVars, result>>

\* The final headers are built: the bundle is burned, then found expired or used.
Consume(s) ==
  LET a == Send(s) IN
  /\ pc[a] = "headers"
  /\ ReservationStands(a)
  /\ active' = [active EXCEPT ![a] = FALSE]
  /\ reserved' = FALSE
  /\ bundle' = NoBundle
  /\ IF held[a] \in expired
       THEN Goto(a, "unwind") /\ UNCHANGED used
       ELSE Goto(a, "refill") /\ used' = [used EXCEPT ![s] = held[a]]
  /\ UNCHANGED <<issued, expired, acquireLock, fence, held, refillThread, hookVars,
                 result>>

\* is_alive(): a thread lives from its start to its end.
RefillAlive ==
  /\ refillThread # NoActor
  /\ pc[Refill(refillThread)] \notin {"idle", "done"}

\* start_finalized_sentinel_bundle_refill() stores a new thread under the guard...
RegisterRefill(s) ==
  /\ pc[Send(s)] = "refill"
  /\ ~RefillAlive
  /\ refillThread' = s
  /\ Goto(Send(s), "start")
  /\ UNCHANGED <<storeVars, issued, expired, acquireLock, fence, held, active, used,
                 hookVars, result>>

\* ...and starts it after its event.
StartRefill(s) ==
  /\ pc[Send(s)] = "start"
  /\ pc' = [pc EXCEPT ![Send(s)] = "hook", ![Refill(s)] = "gate"]
  /\ UNCHANGED <<storeVars, issued, expired, acquireLock, fence, held, active, used,
                 refillThread, hookVars, result>>

\* A refill is running already, or there is no provider to refill from.
SkipRefill(s) ==
  /\ pc[Send(s)] = "refill"
  /\ Goto(Send(s), "hook")
  /\ UNCHANGED <<storeVars, issued, expired, acquireLock, fence, held, active, used,
                 refillThread, hookVars, result>>

-----------------------------------------------------------------------------
(* The stream and its hook on _parse_event *)

Captures(h) == IF h = NoHook THEN {} ELSE h

\* The attribute is read...
ReadHook(s) ==
  /\ pc[Send(s)] = "hook"
  /\ hookOf' = [hookOf EXCEPT ![s] = hook]
  /\ Goto(Send(s), "capture")
  /\ UNCHANGED <<storeVars, issued, expired, acquireLock, fence, held, active, used,
                 refillThread, hook, saw, handoff, result>>

\* ...and replaced by a capture that calls what was read.
SetHook(s) ==
  /\ pc[Send(s)] = "capture"
  /\ hook' = {s} \union Captures(hookOf[s])
  /\ Goto(Send(s), "stream")
  /\ UNCHANGED <<storeVars, issued, expired, acquireLock, fence, held, active, used,
                 refillThread, hookOf, saw, handoff, result>>

\* The stream of s hands off: whatever hook the instance has now sees it.
ParseHandoff(s) ==
  /\ pc[Send(s)] = "stream"
  /\ s \notin saw
  /\ saw' = saw \union {s}
  /\ handoff' = handoff \union Captures(hook)
  /\ UNCHANGED <<storeVars, issued, expired, acquireLock, fence, pc, held, active, used,
                 refillThread, hook, hookOf, result>>

\* What the finally block leaves on the instance: what was there before, nothing,
\* or, where there is nothing to delete, the original method.
HookAfter(s) ==
  IF hookOf[s] # NoHook THEN hookOf[s]
  ELSE IF hook # NoHook THEN NoHook ELSE {}

\* The stream ends, well or with an error.
FinishStream(s) ==
  /\ pc[Send(s)] = "stream"
  /\ hook' = HookAfter(s)
  /\ \E next \in {"decide", "unwind"} : Goto(Send(s), next)
  /\ UNCHANGED <<storeVars, issued, expired, acquireLock, fence, held, active, used,
                 refillThread, hookOf, saw, handoff, result>>

\* Mutant: a text is a whole answer.
DecideByText(s, text) ==
  /\ pc[Send(s)] = "decide"
  /\ IF text
       THEN Goto(Send(s), "unwind") /\ result' = [result EXCEPT ![s] = "streamed"]
       ELSE Goto(Send(s), "poll") /\ UNCHANGED result
  /\ UNCHANGED <<storeVars, issued, expired, acquireLock, fence, held, active, used,
                 refillThread, hookVars>>

\* The streamed text is the answer unless it was handed off.  text: the stream
\* gave a text and the id of a new message.
Decide(s, text) ==
  /\ pc[Send(s)] = "decide"
  /\ \/ /\ s \in handoff
        /\ Goto(Send(s), "recover")
        /\ UNCHANGED result
     \/ /\ s \notin handoff
        /\ ~text
        /\ Goto(Send(s), "poll")
        /\ UNCHANGED result
     \/ /\ s \notin handoff
        /\ text
        /\ Goto(Send(s), "unwind")
        /\ result' = [result EXCEPT ![s] = "streamed"]
  /\ UNCHANGED <<storeVars, issued, expired, acquireLock, fence, held, active, used,
                 refillThread, hookVars>>

\* _poll_conversation_after_prepare() finds the answer, or gives up at its
\* deadline: an error after a handoff, an answer without text otherwise.
Poll(s) ==
  /\ pc[Send(s)] \in {"poll", "recover"}
  /\ \E found \in BOOLEAN :
       result' = [result EXCEPT ![s] =
                    IF found THEN "recovered"
                    ELSE IF pc[Send(s)] = "recover" THEN "error" ELSE "empty"]
  /\ Goto(Send(s), "unwind")
  /\ UNCHANGED <<storeVars, issued, expired, acquireLock, fence, held, active, used,
                 refillThread, hookVars>>

-----------------------------------------------------------------------------
(* The ends *)

\* The finally block releases the reservation; the fence is outside of it.
EndSend(s) ==
  /\ pc[Send(s)] = "unwind"
  /\ Release(Send(s))
  /\ fence' = IF fence = s THEN NoActor ELSE fence
  /\ result' = [result EXCEPT ![s] = IF result[s] = "none" THEN "error" ELSE result[s]]
  /\ Goto(Send(s), "done")
  /\ UNCHANGED <<issued, expired, acquireLock, held, used, refillThread, hookVars>>

\* A refill thread forgets itself, unless another has replaced it.
EndRefill(s) ==
  /\ pc[Refill(s)] = "unwind"
  /\ refillThread' = IF refillThread = s THEN NoActor ELSE refillThread
  /\ Goto(Refill(s), "done")
  /\ UNCHANGED <<storeVars, issued, expired, acquireLock, fence, held, active, used,
                 hookVars, result>>

BeginWarmup(w) ==
  /\ pc[Warmup(w)] = "idle"
  /\ Goto(Warmup(w), "gate")
  /\ UNCHANGED <<storeVars, issued, expired, acquireLock, fence, held, active, used,
                 refillThread, hookVars, result>>

EndWarmup(w) ==
  /\ pc[Warmup(w)] = "unwind"
  /\ Goto(Warmup(w), "done")
  /\ UNCHANGED <<storeVars, issued, expired, acquireLock, fence, held, active, used,
                 refillThread, hookVars, result>>

BundleStep(a) ==
  \/ Gate(a)
  \/ SlotBusy(a)
  \/ ReserveFound(a)
  \/ ReserveEmpty(a)
  \/ GiveBack(a)
  \/ Acquire(a)
  \/ AcquireFails(a)
  \/ Install(a)

WriteStep(s) ==
  \/ Prepare(s)
  \/ Raise(s)
  \/ Consume(s)
  \/ RegisterRefill(s)
  \/ StartRefill(s)
  \/ SkipRefill(s)

StreamStep(s) ==
  \/ ReadHook(s)
  \/ SetHook(s)
  \/ ParseHandoff(s)
  \/ FinishStream(s)
  \/ \E text \in BOOLEAN : Decide(s, text)
  \/ Poll(s)
  \/ EndSend(s)

SendStep(s) == BundleStep(Send(s)) \/ WriteStep(s) \/ StreamStep(s)
RefillStep(s) == BundleStep(Refill(s)) \/ EndRefill(s)
WarmupStep(w) == BundleStep(Warmup(w)) \/ EndWarmup(w)

\* Every call has returned and every thread has ended.
AllDone ==
  /\ \A a \in Actors : pc[a] \in {"idle", "done"}
  /\ \A s \in Sends : pc[Send(s)] = "done"
  /\ UNCHANGED vars

Next ==
  \/ \E s \in Sends : Enter(s) \/ SendStep(s) \/ RefillStep(s)
  \/ \E w \in Warmups : BeginWarmup(w) \/ WarmupStep(w)
  \/ Expire
  \/ AllDone

Spec == Init /\ [][Next]_vars

\* Threads run, requests and streams end: curl carries --max-time, polls a deadline.
Fairness ==
  /\ \A s \in Sends : WF_vars(SendStep(s)) /\ WF_vars(RefillStep(s))
  /\ \A w \in Warmups : WF_vars(WarmupStep(w))

FairSpec == Spec /\ Fairness

-----------------------------------------------------------------------------
(* Properties *)

\* The types of the store, the locks and the calls.
TypeOK ==
  /\ bundle \in Bundles \union {NoBundle}
  /\ reserved \in BOOLEAN
  /\ issued \in 0 .. MaxBundles
  /\ expired \subseteq Bundles
  /\ acquireLock \in Actors \union {NoActor}
  /\ fence \in Sends \union {NoActor}
  /\ pc \in [Actors -> PCs]
  /\ held \in [Actors -> Bundles \union {NoBundle}]
  /\ active \in [Actors -> BOOLEAN]
  /\ used \in [Sends -> Bundles \union {NoBundle}]
  /\ refillThread \in Sends \union {NoActor}
  /\ hook \in Hooks
  /\ hookOf \in [Sends -> Hooks]
  /\ saw \subseteq Sends
  /\ handoff \subseteq Sends
  /\ result \in [Sends -> Results]

\* No two writes carry the same bundle: "any network attempt or unknown outcome
\* permanently burns that bundle" (docs/sentinel_bundle_lifecycle.md).
NoReplay ==
  \A s, t \in Sends : s # t /\ used[s] # NoBundle => used[s] # used[t]

\* A reservation belongs to one call, which is under way and will release it, and
\* a call that has one finds it standing when it consumes.
ReservationHasOwner ==
  /\ \A a \in Actors : active[a] => ReservationStands(a)
  /\ \A a, b \in Actors : active[a] /\ active[b] => a = b
  /\ reserved => \E a \in Actors :
                   /\ active[a]
                   /\ pc[a] \in {"giveback", "prepare", "headers", "unwind"}

\* The store, with its refills and prefetches, is the documented one-slot store.
Holder ==
  IF reserved THEN CHOOSE a \in Actors : active[a] /\ held[a] = bundle ELSE NoActor

InHand == {held[a] : a \in {x \in Actors : pc[x] = "install"}}

Slot ==
  INSTANCE SentinelSlot WITH
    Users <- Actors,
    NoUser <- NoActor,
    content <- bundle,
    holder <- Holder,
    burned <- (1 .. issued) \ ({bundle} \union InHand)

ImplementsSentinelSlot == Slot!Spec

\* A stream that was handed off is never taken for the whole answer: "a partial
\* prefix can never be mistaken for a completed response" (prepared_text_send.py).
PartialIsNeverFinal ==
  \A s \in Sends : result[s] = "streamed" => s \notin saw

\* Between sends the client's parser is its own again.
HookIsRestored ==
  (\A s \in Sends : pc[Send(s)] \notin {"capture", "stream"}) => hook = NoHook

\* Every send and every refill ends, whichever requests fail.
EverySendReturns ==
  \A s \in Sends :
    /\ pc[Send(s)] = "gate" ~> pc[Send(s)] = "done"
    /\ pc[Refill(s)] = "gate" ~> pc[Refill(s)] = "done"
=============================================================================
