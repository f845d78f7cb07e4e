------------------------------ MODULE TurnProofs ------------------------------
(***************************************************************************)
(* Proofs about the two ends of a turn: the send that is prepared for it   *)
(* (PreparedSend) and the stream of its answer (StreamTurn).               *)
(*                                                                         *)
(*   - PreparedSend: its types, that a reservation has one live owner,     *)
(*     that no bundle is used twice, that the store is the documented      *)
(*     one-slot store, and, for fenced sends, that a handed-off stream is  *)
(*     never taken for an answer, for every set of sends and prefetches    *)
(*     and any number of bundles;                                          *)
(*   - StreamTurn: that provisional text is what the product wrote, that   *)
(*     the screen ends with the canonical text, that the reported          *)
(*     references are consistent and the reported activities tell one      *)
(*     story, for any messages, turns, canonical references, wire and      *)
(*     number of faults.                                                   *)
(***************************************************************************)
EXTENDS PreparedSend, StreamTurn, SequenceTheorems, WellFoundedInduction, TLAPS


\* The actors are told apart by their kind and their name.
LEMMA ActorFacts ==
  /\ Prefetchers \subseteq Actors
  /\ \A s \in Sends : /\ Send(s) \in Actors \ Prefetchers
                      /\ Refill(s) \in Prefetchers
  /\ \A w \in Warmups : /\ Warmup(w) \in Prefetchers
                        /\ \A s \in Sends : Warmup(w) # Refill(s)
  /\ \A s, t \in Sends : /\ Send(s) = Send(t) => s = t
                         /\ Refill(s) = Refill(t) => s = t
                         /\ Send(s) # Refill(t)
BY DEF Actors, Prefetchers, Send, Refill, Warmup

\* Who may take a step, and which.
ActorStep ==
  \/ \E a \in Actors : BundleStep(a)
  \/ \E s \in Sends : Enter(s) \/ WriteStep(s) \/ StreamStep(s) \/ EndRefill(s)
  \/ \E w \in Warmups : BeginWarmup(w) \/ EndWarmup(w)
  \/ Expire

LEMMA NextIsActorStep == [Next]_vars => ActorStep \/ UNCHANGED vars
BY ActorFacts DEF Next, ActorStep, SendStep, RefillStep, WarmupStep, AllDone

-----------------------------------------------------------------------------
(* Types *)

LEMMA TypeCorrectInit == Init => TypeOK
<1> SUFFICES ASSUME Init PROVE TypeOK
  OBVIOUS
<1>1. /\ hook \in Hooks
      /\ hookOf \in [Sends -> Hooks]
  BY DEF Init, Hooks
<1>2. issued \in 0 .. MaxBundles
  BY PreparedSendAssumption DEF Init
<1>3. /\ pc \in [Actors -> PCs]
      /\ held \in [Actors -> Bundles \union {NoBundle}]
      /\ active \in [Actors -> BOOLEAN]
      /\ used \in [Sends -> Bundles \union {NoBundle}]
      /\ result \in [Sends -> Results]
  BY DEF Init, PCs, Results
<1> QED
  BY <1>1, <1>2, <1>3 DEF Init, TypeOK

\* Every step of a send, a refill or a prefetch keeps the types.
LEMMA TypeCorrectStep == TypeOK /\ ActorStep => TypeOK'
<1> SUFFICES ASSUME TypeOK, ActorStep PROVE TypeOK'
  OBVIOUS
<1> USE ActorFacts, PreparedSendAssumption
    DEF TypeOK, Goto, PCs, Results, Bundles, storeVars, hookVars
<1>1. ASSUME NEW a \in Actors, BundleStep(a) PROVE TypeOK'
  <2>1. CASE Gate(a)
    BY <2>1 DEF Gate
  <2>2. CASE SlotBusy(a)
    BY <2>2 DEF SlotBusy
  <2>3. CASE ReserveFound(a)
    BY <2>3 DEF ReserveFound
  <2>4. CASE ReserveEmpty(a)
    BY <2>4 DEF ReserveEmpty
  <2>5. CASE GiveBack(a)
    BY <2>5 DEF GiveBack, Release
  <2>6. CASE Acquire(a)
    BY <2>6 DEF Acquire
  <2>7. CASE AcquireFails(a)
    BY <2>7 DEF AcquireFails
  <2>8. CASE Install(a)
    BY <2>8 DEF Install
  <2> QED
    BY <1>1, <2>1, <2>2, <2>3, <2>4, <2>5, <2>6, <2>7, <2>8 DEF BundleStep
<1>2. ASSUME NEW s \in Sends, WriteStep(s) \/ Enter(s) \/ EndRefill(s) PROVE TypeOK'
  <2>1. CASE Enter(s)
    BY <2>1 DEF Enter
  <2>2. CASE Prepare(s) \/ Raise(s)
    BY <2>2 DEF Prepare, Raise
  <2>3. CASE Consume(s)
    BY <2>3 DEF Consume
  <2>4. CASE RegisterRefill(s) \/ StartRefill(s) \/ SkipRefill(s)
    BY <2>4 DEF RegisterRefill, StartRefill, SkipRefill
  <2>5. CASE EndRefill(s)
    BY <2>5 DEF EndRefill
  <2> QED
    BY <1>2, <2>1, <2>2, <2>3, <2>4, <2>5 DEF WriteStep
<1>3. ASSUME NEW s \in Sends, StreamStep(s) PROVE TypeOK'
  <2>1. CASE ReadHook(s)
    BY <2>1 DEF ReadHook
  <2>2. CASE SetHook(s)
    <3>1. {s} \union Captures(hookOf[s]) \in Hooks
      BY DEF Captures, Hooks
    <3> QED  BY <2>2, <3>1 DEF SetHook
  <2>3. CASE ParseHandoff(s)
    <3>1. Captures(hook) \subseteq Sends
      BY DEF Captures, Hooks
    <3> QED  BY <2>3, <3>1 DEF ParseHandoff
  <2>4. CASE FinishStream(s)
    <3>1. HookAfter(s) \in Hooks
      BY DEF HookAfter, Hooks
    <3> QED  BY <2>4, <3>1 DEF FinishStream
  <2>5. CASE \E text \in BOOLEAN : Decide(s, text)
    BY <2>5 DEF Decide
  <2>6. CASE Poll(s)
    BY <2>6 DEF Poll
  <2>7. CASE EndSend(s)
    BY <2>7 DEF EndSend, Release
  <2> QED
    BY <1>3, <2>1, <2>2, <2>3, <2>4, <2>5, <2>6, <2>7 DEF StreamStep
<1>4. ASSUME NEW w \in Warmups, BeginWarmup(w) \/ EndWarmup(w) PROVE TypeOK'
  BY <1>4 DEF BeginWarmup, EndWarmup
<1>5. CASE Expire
  BY <1>5 DEF Expire
<1> QED
  BY <1>1, <1>2, <1>3, <1>4, <1>5 DEF ActorStep

\* The types of the store, the locks and the calls hold throughout.
THEOREM TypeCorrect == Spec => []TypeOK
<1>1. TypeOK /\ UNCHANGED vars => TypeOK'
  BY DEF TypeOK, vars, storeVars, hookVars
<1> QED
  BY <1>1, TypeCorrectInit, TypeCorrectStep, NextIsActorStep, PTL DEF Spec

-----------------------------------------------------------------------------
(* The store *)

Acquiring == {"reserve", "acquire", "install", "confirm", "giveback"}

BeforeRefill == {"idle", "gate", "reserve", "acquire", "install", "confirm", "prepare",
                 "headers", "refill", "start"}

\* The acquisition lock is held by the one actor between reserve() and the end of
\* its acquisition, and the slot stays empty while it acquires: nobody else can
\* fill or reserve it.  A send starts its refill once.
LockInv ==
  /\ \A s \in Sends : pc[Send(s)] \in BeforeRefill => pc[Refill(s)] = "idle"
  /\ \A a \in Actors : pc[a] \in Acquiring <=> acquireLock = a
  /\ \A a \in Actors : pc[a] \in {"acquire", "install"} => bundle = NoBundle
  /\ \A a \in Actors : pc[a] = "install" => held[a] = issued /\ issued # 0
  /\ bundle # NoBundle => bundle \in 1 .. issued

\* A reservation has one owner, at a place where it will be given up: ReservationHasOwner
\* needs the places to tell a send's finally block from a prefetch's, which releases
\* nothing.
OwnerInv ==
  /\ reserved => bundle # NoBundle /\ \E a \in Actors : active[a]
  /\ \A a \in Actors : active[a] =>
       /\ reserved
       /\ bundle = held[a]
       /\ pc[a] \in {"giveback", "prepare", "headers", "unwind"}
       /\ pc[a] = "unwind" => a \notin Prefetchers
  /\ \A a, b \in Actors : active[a] /\ active[b] => a = b

\* A used bundle is neither in the slot nor about to be put there.
UsedInv ==
  /\ \A s \in Sends : used[s] # NoBundle => used[s] \in 1 .. issued /\ used[s] # bundle
  /\ \A s \in Sends, a \in Actors :
       used[s] # NoBundle /\ pc[a] = "install" => used[s] # held[a]
  /\ NoReplay

StoreInv == TypeOK /\ LockInv /\ OwnerInv /\ UsedInv

LEMMA StoreInit == Init => StoreInv
<1> SUFFICES ASSUME Init PROVE LockInv /\ OwnerInv /\ UsedInv
  BY TypeCorrectInit DEF StoreInv
<1>1. /\ \A a \in Actors : pc[a] = "idle" /\ ~active[a] /\ acquireLock # a
      /\ \A s \in Sends : used[s] = NoBundle
  BY SentinelAssumption, ActorFacts DEF Init
<1> QED
  BY <1>1, ActorFacts
     DEF Init, LockInv, OwnerInv, UsedInv, NoReplay, Acquiring, BeforeRefill

\* The places of a step: an actor's own, and a refill's where it is started.
LEMMA StoreStep == StoreInv /\ ActorStep => StoreInv'
<1> SUFFICES ASSUME StoreInv, ActorStep PROVE LockInv' /\ OwnerInv' /\ UsedInv'
  BY TypeCorrectStep DEF StoreInv
<1> USE ActorFacts, PreparedSendAssumption, SentinelAssumption
    DEF StoreInv, TypeOK, LockInv, OwnerInv, UsedInv, NoReplay, Acquiring, BeforeRefill,
        Goto, PCs, Bundles, storeVars, hookVars
<1>1. ASSUME NEW a \in Actors, BundleStep(a) PROVE LockInv' /\ OwnerInv' /\ UsedInv'
  <2>1. CASE Gate(a)
    BY <2>1 DEF Gate
  <2>2. CASE SlotBusy(a)
    BY <2>2 DEF SlotBusy
  <2>3. CASE ReserveFound(a)
    BY <2>3 DEF ReserveFound, Available
  <2>4. CASE ReserveEmpty(a)
    BY <2>4 DEF ReserveEmpty
  <2>5. CASE GiveBack(a)
    <3>1. LockInv'
      BY <2>5 DEF GiveBack, Release
    <3>2. OwnerInv'
      <4>1. /\ bundle' = bundle /\ held' = held
            /\ active' = [active EXCEPT ![a] = FALSE]
            /\ reserved' = (reserved /\ ~(active[a] /\ bundle = held[a]))
            /\ pc' = [pc EXCEPT ![a] = "unwind"]
        BY <2>5 DEF GiveBack, Release
      <4>2. \A b \in Actors : active'[b] <=> active[b] /\ b # a
        BY <4>1
      <4>3. \A b \in Actors : active'[b] => pc'[b] = pc[b] /\ reserved'
        BY <4>1, <4>2
      <4>4. ASSUME reserved' PROVE \E b \in Actors : active'[b]
        <5>1. reserved /\ ~(active[a] /\ bundle = held[a])
          BY <4>1, <4>4
        <5>2. PICK b \in Actors : active[b]
          BY <5>1
        <5>3. bundle = held[b]
          BY <5>2
        <5> QED  BY <4>2, <5>1, <5>2, <5>3
      <4> QED  BY <4>1, <4>2, <4>3, <4>4
    <3>3. UsedInv'
      BY <2>5 DEF GiveBack, Release
    <3> QED  BY <3>1, <3>2, <3>3
  <2>6. CASE Acquire(a)
    BY <2>6 DEF Acquire
  <2>7. CASE AcquireFails(a)
    BY <2>7 DEF AcquireFails
  <2>8. CASE Install(a)
    BY <2>8 DEF Install
  <2> QED
    BY <1>1, <2>1, <2>2, <2>3, <2>4, <2>5, <2>6, <2>7, <2>8 DEF BundleStep
<1>2. ASSUME NEW s \in Sends, WriteStep(s) \/ Enter(s) \/ EndRefill(s)
      PROVE  LockInv' /\ OwnerInv' /\ UsedInv'
  <2>1. CASE Enter(s)
    BY <2>1 DEF Enter
  <2>2. CASE Prepare(s) \/ Raise(s)
    BY <2>2 DEF Prepare, Raise
  <2>3. CASE Consume(s)
    BY <2>3 DEF Consume, ReservationStands
  <2>4. CASE RegisterRefill(s) \/ SkipRefill(s)
    BY <2>4 DEF RegisterRefill, SkipRefill
  <2>5. CASE StartRefill(s)
    BY <2>5 DEF StartRefill
  <2>6. CASE EndRefill(s)
    BY <2>6 DEF EndRefill
  <2> QED
    BY <1>2, <2>1, <2>2, <2>3, <2>4, <2>5, <2>6 DEF WriteStep
<1>3. ASSUME NEW s \in Sends, StreamStep(s) PROVE LockInv' /\ OwnerInv' /\ UsedInv'
  <2>1. CASE EndSend(s)
    BY <2>1 DEF EndSend, Release
  <2>2. CASE ReadHook(s) \/ SetHook(s) \/ ParseHandoff(s) \/ FinishStream(s)
    BY <2>2 DEF ReadHook, SetHook, ParseHandoff, FinishStream
  <2>3. CASE Poll(s)
    BY <2>3 DEF Poll
  <2>4. ASSUME NEW text \in BOOLEAN, Decide(s, text)
        PROVE  LockInv' /\ OwnerInv' /\ UsedInv'
    BY <2>4 DEF Decide
  <2> QED
    BY <1>3, <2>1, <2>2, <2>3, <2>4 DEF StreamStep
<1>4. ASSUME NEW w \in Warmups, BeginWarmup(w) \/ EndWarmup(w)
      PROVE  LockInv' /\ OwnerInv' /\ UsedInv'
  BY <1>4 DEF BeginWarmup, EndWarmup
<1>5. CASE Expire
  BY <1>5 DEF Expire
<1> QED
  BY <1>1, <1>2, <1>3, <1>4, <1>5 DEF ActorStep

LEMMA StoreStutter == StoreInv /\ UNCHANGED vars => StoreInv'
BY DEF StoreInv, TypeOK, LockInv, OwnerInv, UsedInv, NoReplay, vars, storeVars, hookVars

\* The inductive invariant of the store holds throughout (SentinelBundleStore,
\* get_prepared_sentinel_bundle, prefetch_finalized_sentinel_bundle).
THEOREM StoreHolds == Spec => []StoreInv
BY StoreInit, StoreStep, StoreStutter, NextIsActorStep, PTL DEF Spec

\* However many sends, refills and prefetches there are, fenced or not, no bundle
\* is put in the headers of two writes (SentinelBundleStore._consume).
THEOREM NoReplayHolds == Spec => []NoReplay
<1>1. StoreInv => NoReplay
  BY DEF StoreInv, UsedInv
<1> QED  BY <1>1, StoreHolds, PTL

\* A reservation has one owner, which is under way to consume or release it
\* (reserve, release, send_existing_text_prepared's finally block).
THEOREM ReservationHasOwnerHolds == Spec => []ReservationHasOwner
<1>1. StoreInv => ReservationHasOwner
  BY DEF StoreInv, OwnerInv, ReservationHasOwner, ReservationStands
<1> QED  BY <1>1, StoreHolds, PTL

-----------------------------------------------------------------------------
(* The abstract slot *)

SlotStep == [Slot!Next]_Slot!slotVars

Burned == (1 .. issued) \ ({bundle} \union InHand)

\* Who holds the abstract slot, the one actor that has the reservation, and what is
\* in an actor's hand, nothing or the newest bundle.
SlotView ==
  /\ ~reserved => Holder = NoActor
  /\ reserved => Holder # NoActor
  /\ \A a \in Actors : active[a] => Holder = a
  /\ \A a \in Actors : pc[a] = "install" => InHand = {issued}
  /\ (\A a \in Actors : pc[a] # "install") => InHand = {}

\* The view follows from the invariant: reservations and acquisitions exclude each
\* other.
LEMMA SlotViewHolds == StoreInv => SlotView
<1> SUFFICES ASSUME StoreInv PROVE SlotView
  OBVIOUS
<1>1. ASSUME NEW a \in Actors, active[a] PROVE Holder = a
  <2>1. reserved /\ held[a] = bundle
    BY <1>1 DEF StoreInv, OwnerInv
  <2>2. \A b \in Actors : active[b] /\ held[b] = bundle => b = a
    BY <1>1 DEF StoreInv, OwnerInv
  <2> QED  BY <1>1, <2>1, <2>2 DEF Holder
<1>2. reserved => \E a \in Actors : active[a]
  BY DEF StoreInv, OwnerInv
<1>3. ASSUME NEW a \in Actors, pc[a] = "install" PROVE InHand = {issued}
  <2>1. \A b \in Actors : pc[b] = "install" => b = a
    BY <1>3, SentinelAssumption DEF StoreInv, LockInv, Acquiring
  <2>2. held[a] = issued
    BY <1>3 DEF StoreInv, LockInv
  <2> QED  BY <1>3, <2>1, <2>2 DEF InHand
<1>4. ~reserved => Holder = NoActor
  BY DEF Holder
<1>5. (\A a \in Actors : pc[a] # "install") => InHand = {}
  BY DEF InHand
<1>6. reserved => Holder # NoActor
  BY <1>1, <1>2, SentinelAssumption
<1> QED  BY <1>1, <1>3, <1>4, <1>5, <1>6 DEF SlotView

\* A step that touches neither the slot nor an acquisition is a stuttering step.
LEMMA SameSlot ==
  ASSUME StoreInv, SlotView, SlotView',
         bundle' = bundle, reserved' = reserved, issued' = issued,
         \A a \in Actors : active'[a] = active[a],
         \A a \in Actors : pc'[a] = "install" <=> pc[a] = "install"
  PROVE  SlotStep
<1>1. Holder' = Holder
  BY DEF SlotView, StoreInv, OwnerInv
<1>2. InHand' = InHand
  BY DEF SlotView
<1> QED  BY <1>1, <1>2 DEF SlotStep, Slot!slotVars, Burned

\* Giving a reservation up is a release of the abstract slot, or nothing if the
\* actor has none.
LEMMA ReleaseStep ==
  ASSUME StoreInv, StoreInv', SlotView, SlotView', NEW a \in Actors, Release(a),
         issued' = issued,
         \A b \in Actors : pc'[b] = "install" <=> pc[b] = "install"
  PROVE  SlotStep
<1>1. InHand' = InHand
  BY DEF SlotView
<1>2. CASE active[a]
  <2>1. reserved /\ bundle = held[a] /\ bundle' = bundle /\ ~reserved'
    BY <1>2 DEF StoreInv, OwnerInv, Release
  <2>2. Holder # NoActor /\ Holder' = NoActor
    BY <2>1 DEF SlotView
  <2> QED  BY <1>1, <2>1, <2>2 DEF SlotStep, Slot!Next, Slot!Release
<1>3. CASE ~active[a]
  <2>1. reserved' = reserved /\ bundle' = bundle
    BY <1>3 DEF Release, StoreInv, TypeOK
  <2>2. \A b \in Actors : active'[b] = active[b]
    BY <1>3 DEF Release, StoreInv, TypeOK
  <2> QED  BY <2>1, <2>2, SameSlot
<1> QED  BY <1>2, <1>3

\* Every step of the sends, refills and prefetches is a step or a stutter of the slot.
LEMMA RefinementStep ==
  StoreInv /\ StoreInv' /\ SlotView /\ SlotView' /\ ActorStep => SlotStep
<1> SUFFICES ASSUME StoreInv, StoreInv', SlotView, SlotView', ActorStep PROVE SlotStep
  OBVIOUS
<1>0. /\ NoBundle \notin 1 .. issued
      /\ NoBundle \notin 1 .. issued'
      /\ issued \in Nat
  BY SentinelAssumption, PreparedSendAssumption DEF StoreInv, TypeOK
<1> USE ActorFacts DEF Goto, storeVars, hookVars
<1>1. ASSUME NEW a \in Actors, BundleStep(a) PROVE SlotStep
  <2>1. CASE Gate(a)
    BY <2>1, SameSlot DEF Gate, StoreInv, TypeOK
  <2>2. CASE SlotBusy(a)
    <3>1. pc[a] # "install"
      BY <2>2 DEF SlotBusy, StoreInv, LockInv, OwnerInv
    <3> QED  BY <2>2, <3>1, SameSlot DEF SlotBusy, StoreInv, TypeOK
  <2>3. CASE ReserveFound(a)
    <3>1. Holder = NoActor /\ Holder' = a /\ bundle # NoBundle
      BY <2>3 DEF ReserveFound, Available, StoreInv, TypeOK, SlotView
    <3>2. InHand' = InHand
      <4>1. \A b \in Actors : pc'[b] = "install" <=> pc[b] = "install"
        BY <2>3 DEF ReserveFound, StoreInv, TypeOK
      <4>2. issued' = issued
        BY <2>3 DEF ReserveFound
      <4> QED  BY <4>1, <4>2 DEF SlotView
    <3>3. bundle' = bundle /\ issued' = issued
      BY <2>3 DEF ReserveFound
    <3>4. Slot!Reserve(a)
      BY <3>1, <3>2, <3>3 DEF Slot!Reserve
    <3> QED  BY <3>4 DEF SlotStep, Slot!Next
  <2>4. CASE ReserveEmpty(a)
    <3>1. Holder = NoActor /\ Holder' = NoActor
      BY <2>4 DEF ReserveEmpty, SlotView
    <3>2. InHand = {} /\ InHand' = {}
      BY <2>4, SentinelAssumption
         DEF ReserveEmpty, StoreInv, TypeOK, LockInv, Acquiring, SlotView
    <3>3. CASE bundle = NoBundle
      BY <2>4, <3>1, <3>2, <3>3 DEF ReserveEmpty, SlotStep, Slot!slotVars
    <3>4. CASE bundle # NoBundle
      <4>1. (1 .. issued) \ ({NoBundle} \union {})
              = ((1 .. issued) \ ({bundle} \union {})) \union {bundle}
        BY <1>0, <3>4 DEF StoreInv, LockInv
      <4> QED
        BY <2>4, <3>1, <3>2, <3>4, <4>1
           DEF ReserveEmpty, SlotStep, Slot!Next, Slot!Discard
    <3> QED  BY <3>3, <3>4
  <2>5. CASE GiveBack(a)
    BY <2>5, ReleaseStep DEF GiveBack, StoreInv, TypeOK
  <2>6. CASE Acquire(a)
    <3>1. bundle = NoBundle /\ ~reserved /\ ~reserved' /\ bundle' = NoBundle
      BY <2>6 DEF Acquire, StoreInv, LockInv, OwnerInv
    <3>2. InHand = {} /\ InHand' = {issued + 1}
      BY <2>6, SentinelAssumption
         DEF Acquire, StoreInv, TypeOK, LockInv, Acquiring, SlotView
    <3>3. (1 .. issued + 1) \ ({NoBundle} \union {issued + 1})
            = (1 .. issued) \ ({NoBundle} \union {})
      BY <1>0
    <3>4. Holder' = Holder
      BY <3>1 DEF SlotView
    <3> QED
      BY <2>6, <3>1, <3>2, <3>3, <3>4 DEF Acquire, SlotStep, Slot!slotVars
  <2>7. CASE AcquireFails(a)
    BY <2>7, SameSlot DEF AcquireFails, StoreInv, TypeOK
  <2>8. CASE Install(a)
    <3>1. bundle = NoBundle /\ ~reserved /\ ~reserved' /\ bundle' = issued
      BY <2>8 DEF Install, StoreInv, LockInv
    <3>2. InHand = {issued} /\ InHand' = {}
      BY <2>8, SentinelAssumption
         DEF Install, StoreInv, TypeOK, LockInv, Acquiring, SlotView
    <3>3. issued' = issued /\ issued \in Bundles
      BY <2>8 DEF Install, StoreInv, TypeOK, LockInv, Bundles
    <3>4. Holder' = Holder
      BY <3>1 DEF SlotView
    <3>5. /\ (1 .. issued) \ ({NoBundle} \union {issued})
               = (1 .. issued) \ ({issued} \union {})
          /\ issued \notin (1 .. issued) \ ({NoBundle} \union {issued})
      BY <1>0
    <3> QED
      BY <3>1, <3>2, <3>3, <3>4, <3>5 DEF SlotStep, Slot!Next, Slot!Install
  <2> QED
    BY <1>1, <2>1, <2>2, <2>3, <2>4, <2>5, <2>6, <2>7, <2>8 DEF BundleStep
<1>2. ASSUME NEW s \in Sends, WriteStep(s) \/ Enter(s) \/ EndRefill(s) PROVE SlotStep
  <2>1. CASE Enter(s)
    BY <2>1, SameSlot DEF Enter, StoreInv, TypeOK
  <2>2. CASE Prepare(s) \/ Raise(s)
    BY <2>2, SameSlot DEF Prepare, Raise, StoreInv, TypeOK
  <2>3. CASE Consume(s)
    <3>1. /\ active[Send(s)] /\ reserved /\ ~reserved' /\ bundle' = NoBundle
          /\ issued' = issued
      BY <2>3 DEF Consume, ReservationStands
    <3>2. Holder # NoActor /\ Holder' = NoActor /\ bundle # NoBundle
      BY <3>1 DEF SlotView, StoreInv, OwnerInv
    <3>3. InHand = {} /\ InHand' = {}
      <4>1. \A a \in Actors : pc[a] # "install"
        BY <3>2 DEF StoreInv, LockInv
      <4> QED  BY <2>3, <4>1 DEF Consume, StoreInv, TypeOK, SlotView
    <3>4. (1 .. issued) \ ({NoBundle} \union {})
            = ((1 .. issued) \ ({bundle} \union {})) \union {bundle}
      BY <1>0, <3>2 DEF StoreInv, LockInv
    <3> QED
      BY <3>1, <3>2, <3>3, <3>4 DEF SlotStep, Slot!Next, Slot!Consume
  <2>4. CASE RegisterRefill(s) \/ SkipRefill(s)
    BY <2>4, SameSlot DEF RegisterRefill, SkipRefill, StoreInv, TypeOK
  <2>5. CASE StartRefill(s)
    BY <2>5, SameSlot DEF StartRefill, StoreInv, TypeOK, LockInv, BeforeRefill
  <2>6. CASE EndRefill(s)
    BY <2>6, SameSlot DEF EndRefill, StoreInv, TypeOK
  <2> QED
    BY <1>2, <2>1, <2>2, <2>3, <2>4, <2>5, <2>6 DEF WriteStep
<1>3. ASSUME NEW s \in Sends, StreamStep(s) PROVE SlotStep
  <2>1. CASE EndSend(s)
    BY <2>1, ReleaseStep DEF EndSend, StoreInv, TypeOK
  <2>2. CASE ReadHook(s) \/ SetHook(s) \/ ParseHandoff(s) \/ FinishStream(s)
    BY <2>2, SameSlot DEF ReadHook, SetHook, ParseHandoff, FinishStream, StoreInv, TypeOK
  <2>3. CASE Poll(s)
    BY <2>3, SameSlot DEF Poll, StoreInv, TypeOK
  <2>4. ASSUME NEW text \in BOOLEAN, Decide(s, text) PROVE SlotStep
    BY <2>4, SameSlot DEF Decide, StoreInv, TypeOK
  <2> QED
    BY <1>3, <2>1, <2>2, <2>3, <2>4 DEF StreamStep
<1>4. ASSUME NEW w \in Warmups, BeginWarmup(w) \/ EndWarmup(w) PROVE SlotStep
  BY <1>4, SameSlot DEF BeginWarmup, EndWarmup, StoreInv, TypeOK
<1>5. CASE Expire
  BY <1>5, SameSlot DEF Expire
<1> QED
  BY <1>1, <1>2, <1>3, <1>4, <1>5 DEF ActorStep

\* The store and its users implement the one-slot store of
\* docs/sentinel_bundle_lifecycle.md: EMPTY, AVAILABLE and RESERVED in that order,
\* and no bundle that was consumed or discarded comes back.
THEOREM StoreImplementsSlot == Spec => ImplementsSentinelSlot
<1>1. Init => Slot!Init
  <2> SUFFICES ASSUME Init PROVE Slot!Init
    OBVIOUS
  <2>1. Holder = NoActor
    BY DEF Init, Holder
  <2>2. (1 .. issued) \ ({bundle} \union InHand) = {}
    BY DEF Init
  <2> QED  BY <2>1, <2>2 DEF Init, Slot!Init
<1>2. StoreInv /\ StoreInv' /\ SlotView /\ SlotView' /\ [Next]_vars => SlotStep
  <2> SUFFICES ASSUME StoreInv, SlotView, SlotView', UNCHANGED vars PROVE SlotStep
    BY RefinementStep, NextIsActorStep
  <2> QED  BY SameSlot DEF vars, storeVars
<1> QED
  BY <1>1, <1>2, StoreHolds, SlotViewHolds, PTL DEF Spec, ImplementsSentinelSlot, Slot!Spec,
     SlotStep

-----------------------------------------------------------------------------
(* The stream of a fenced send *)

\* A fenced send has the client's parser to itself from the read of the hook to its
\* restoration, so that its own capture sees its own handoff, and an answer it takes
\* from its stream was not handed off.
HookInv ==
  /\ \A s \in Sends : pc[Send(s)] \notin {"idle", "done"} => fence = s
  /\ \A s \in Sends : pc[Send(s)] = "capture" => hookOf[s] = NoHook
  /\ \A s \in Sends : pc[Send(s)] = "stream" => hookOf[s] = NoHook /\ hook = {s}
  /\ HookIsRestored
  /\ (\A s \in Sends : pc[Send(s)] # "stream") => hook = NoHook
  /\ saw \subseteq handoff
  /\ \A s \in Sends :
       result[s] = "streamed" => s \notin saw /\ pc[Send(s)] \in {"unwind", "done"}

StreamInv == TypeOK /\ (Fenced => HookInv)

LEMMA StreamInvInit == Init => StreamInv
BY TypeCorrectInit, ActorFacts DEF Init, StreamInv, HookInv, HookIsRestored

\* Every step keeps a fenced send's hook its own.
LEMMA StreamStepHolds == StreamInv /\ ActorStep => StreamInv'
<1> SUFFICES ASSUME StreamInv, ActorStep, Fenced PROVE HookInv'
  BY TypeCorrectStep DEF StreamInv
<1> USE ActorFacts, PreparedSendAssumption
    DEF StreamInv, TypeOK, HookInv, HookIsRestored, Goto, PCs, storeVars, hookVars
<1>1. ASSUME NEW a \in Actors, BundleStep(a) PROVE HookInv'
  <2>1. CASE Gate(a)
    BY <2>1 DEF Gate
  <2>2. CASE SlotBusy(a)
    BY <2>2 DEF SlotBusy
  <2>3. CASE ReserveFound(a)
    BY <2>3 DEF ReserveFound
  <2>4. CASE ReserveEmpty(a)
    BY <2>4 DEF ReserveEmpty
  <2>5. CASE GiveBack(a)
    BY <2>5 DEF GiveBack
  <2>6. CASE Acquire(a)
    BY <2>6 DEF Acquire
  <2>7. CASE AcquireFails(a)
    BY <2>7 DEF AcquireFails
  <2>8. CASE Install(a)
    BY <2>8 DEF Install
  <2> QED
    BY <1>1, <2>1, <2>2, <2>3, <2>4, <2>5, <2>6, <2>7, <2>8 DEF BundleStep
<1>2. ASSUME NEW s \in Sends, WriteStep(s) \/ Enter(s) \/ EndRefill(s) PROVE HookInv'
  <2>1. CASE Enter(s)
    BY <2>1 DEF Enter
  <2>2. CASE Prepare(s) \/ Raise(s)
    BY <2>2 DEF Prepare, Raise
  <2>3. CASE Consume(s)
    BY <2>3 DEF Consume
  <2>4. CASE RegisterRefill(s) \/ SkipRefill(s)
    BY <2>4 DEF RegisterRefill, SkipRefill
  <2>5. CASE StartRefill(s)
    BY <2>5 DEF StartRefill
  <2>6. CASE EndRefill(s)
    BY <2>6 DEF EndRefill
  <2> QED
    BY <1>2, <2>1, <2>2, <2>3, <2>4, <2>5, <2>6 DEF WriteStep
<1>3. ASSUME NEW s \in Sends, StreamStep(s) PROVE HookInv'
  <2>1. CASE ReadHook(s)
    BY <2>1 DEF ReadHook
  <2>2. CASE SetHook(s)
    BY <2>2 DEF SetHook, Captures
  <2>3. CASE ParseHandoff(s)
    BY <2>3 DEF ParseHandoff, Captures, NoHook
  <2>4. CASE FinishStream(s)
    BY <2>4 DEF FinishStream, HookAfter, NoHook
  <2>5. ASSUME NEW text \in BOOLEAN, Decide(s, text) PROVE HookInv'
    BY <2>5 DEF Decide
  <2>6. CASE Poll(s)
    BY <2>6 DEF Poll
  <2>7. CASE EndSend(s)
    BY <2>7 DEF EndSend
  <2> QED
    BY <1>3, <2>1, <2>2, <2>3, <2>4, <2>5, <2>6, <2>7 DEF StreamStep
<1>4. ASSUME NEW w \in Warmups, BeginWarmup(w) \/ EndWarmup(w) PROVE HookInv'
  BY <1>4 DEF BeginWarmup, EndWarmup
<1>5. CASE Expire
  BY <1>5 DEF Expire
<1> QED
  BY <1>1, <1>2, <1>3, <1>4, <1>5 DEF ActorStep

\* The stream invariant holds throughout (_send_existing_text_prepared inside
\* _mutation_authority).
THEOREM StreamHolds == Spec => []StreamInv
<1>1. StreamInv /\ UNCHANGED vars => StreamInv'
  BY DEF StreamInv, TypeOK, HookInv, HookIsRestored, vars, storeVars, hookVars
<1> QED
  BY <1>1, StreamInvInit, StreamStepHolds, NextIsActorStep, PTL DEF Spec

\* A fenced send never takes a stream that was handed off for the whole answer
\* (the handoff capture of send_existing_text_prepared).
THEOREM PartialIsNeverFinalHolds == Spec => [](Fenced => PartialIsNeverFinal)
<1>1. StreamInv => (Fenced => PartialIsNeverFinal)
  BY DEF StreamInv, HookInv, PartialIsNeverFinal
<1> QED  BY <1>1, StreamHolds, PTL

\* Between fenced sends the client's event parser is its own again (the finally
\* block of send_existing_text_prepared).
THEOREM HookIsRestoredHolds == Spec => [](Fenced => HookIsRestored)
<1>1. StreamInv => (Fenced => HookIsRestored)
  BY DEF StreamInv, HookInv
<1> QED  BY <1>1, StreamHolds, PTL

-----------------------------------------------------------------------------
(* StreamTurn: what stands on the screen *)

\* A piece of a message's text, and what a terminal shows: a piece, the label of an
\* answer written anew, a line of activity.
Pieces == Messages \X Nat
Items == Pieces \cup {Label, ActivityLine}

\* A nonempty set of natural numbers has a least element.
LEMMA LeastNumber ==
  ASSUME NEW S \in SUBSET Nat, S # {}
  PROVE  \E y \in S : \A z \in S : y <= z
<1>1. PICK y \in S : \A z \in S : ~ (<<z, y>> \in OpToRel(<, Nat))
  BY NatLessThanWellFounded, WFMin
<1>2. \A z, w \in Nat : z < w => <<z, w>> \in OpToRel(<, Nat)
  BY DEF OpToRel
<1>3. y \in Nat /\ \A z \in S : z \in Nat /\ ~ (z < y)
  BY <1>1, <1>2
<1> QED  BY <1>3

\* A sequence and one more element.
LEMMA OneMoreElement ==
  ASSUME NEW s, s \in Seq(Range(s)), NEW x
  PROVE  /\ Append(s, x) \in Seq(Range(Append(s, x))) /\ Len(s) \in Nat
         /\ DOMAIN s = 1..Len(s) /\ DOMAIN Append(s, x) = 1..(Len(s) + 1)
         /\ \A n \in DOMAIN s : Append(s, x)[n] = s[n]
         /\ Append(s, x)[Len(s) + 1] = x
BY DEF Range

\* What extends a text is the text and what is new.
LEMMA PrefixAndRest ==
  ASSUME NEW S, NEW s \in Seq(S), NEW t \in Seq(S), IsPrefix(s, t)
  PROVE  t = s \o SubSeq(t, Len(s) + 1, Len(t))
BY DEF IsPrefix

\* A piece of text is neither a label nor an activity line, and they are two.
LEMMA PiecesAreText ==
  Label # ActivityLine /\ \A x \in Pieces : x # Label /\ x # ActivityLine
BY DEF Pieces, Label, ActivityLine

\* After each kind of item.
LEMMA AfterItem ==
  ASSUME NEW text
  PROVE  /\ StandsAfter(text, Label) = <<>>
         /\ StandsAfter(text, ActivityLine) = text
         /\ \A x \in Pieces : StandsAfter(text, x) = Append(text, x)
<1>1. StandsAfter(text, Label) = <<>> /\ StandsAfter(text, ActivityLine) = text
  BY PiecesAreText, Zenon DEF StandsAfter
<1>2. ASSUME NEW x \in Pieces PROVE StandsAfter(text, x) = Append(text, x)
  BY PiecesAreText, Zenon DEF StandsAfter
<1> QED  BY <1>1, <1>2

\* u says what stands on the screen after each item of out.
Stands(out, u) ==
  u = [n \in 0..Len(out) |-> IF n = 0 THEN <<>> ELSE StandsAfter(u[n - 1], out[n])]

\* There is such a function for every output: the least length without one would
\* be one more than a length with one.
LEMMA StandsExists ==
  ASSUME NEW S, NEW out \in Seq(S)
  PROVE  \E u : Stands(out, u)
<1> DEFINE Solves(g, k) ==
             g = [n \in 0..k |-> IF n = 0 THEN <<>> ELSE StandsAfter(g[n - 1], out[n])]
           Missing == {k \in Nat : k <= Len(out) /\ ~ \E g : Solves(g, k)}
<1>1. Missing = {}
  <2> SUFFICES ASSUME Missing # {} PROVE FALSE
    OBVIOUS
  <2>1. PICK k \in Missing : \A z \in Missing : k <= z
    <3> HIDE DEF Missing
    <3>1. Missing \in SUBSET Nat
      BY DEF Missing
    <3> QED  BY <3>1, LeastNumber
  <2>2. CASE k = 0
    <3> DEFINE g == [n \in 0..0 |-> <<>>]
    <3>1. Solves(g, 0)
      OBVIOUS
    <3> QED  BY <2>1, <2>2, <3>1
  <2>3. CASE k # 0
    <3>1. k \in Nat /\ k <= Len(out) /\ Len(out) \in Nat
      OBVIOUS
    <3>2. k - 1 \notin Missing
      <4> HIDE DEF Missing
      <4> QED  BY <2>1, <3>1
    <3>3. PICK g : Solves(g, k - 1)
      <4> HIDE DEF Solves
      <4> QED  BY <2>3, <3>1, <3>2
    <3> DEFINE h == [n \in 0..k |-> IF n < k THEN g[n] ELSE StandsAfter(g[k - 1], out[k])]
    <3>4. ASSUME NEW n \in 0..k
          PROVE  h[n] = IF n = 0 THEN <<>> ELSE StandsAfter(h[n - 1], out[n])
      <4>1. n # 0 => h[n - 1] = g[n - 1]
        BY <3>1
      <4>2. CASE n < k
        <5>1. g[n] = IF n = 0 THEN <<>> ELSE StandsAfter(g[n - 1], out[n])
          BY <3>1, <3>3, <4>2
        <5> QED  BY <4>1, <4>2, <5>1
      <4>3. CASE n = k
        BY <2>3, <4>1, <4>3
      <4> QED  BY <3>1, <4>2, <4>3
    <3>5. Solves(h, k)
      BY <3>4
    <3> QED  BY <2>1, <3>5
  <2> QED  BY <2>2, <2>3
<1>2. PICK g : Solves(g, Len(out))
  <2>1. Len(out) \notin Missing /\ Len(out) \in Nat
    BY <1>1
  <2> HIDE DEF Solves
  <2> QED  BY <2>1
<1> QED  BY <1>2 DEF Stands

\* AnswerOnScreen is the last entry of that function.
LEMMA OnScreen ==
  ASSUME NEW S, NEW r, r.out \in Seq(S)
  PROVE  \E u : Stands(r.out, u) /\ AnswerOnScreen(r) = u[Len(r.out)]
<1> DEFINE standing == CHOOSE u : Stands(r.out, u)
<1>1. Stands(r.out, standing)
  <2>1. \E u : Stands(r.out, u)
    BY StandsExists
  <2> QED  BY <2>1
<1>2. AnswerOnScreen(r) = standing[Len(r.out)]
  BY DEF AnswerOnScreen, Stands
<1> QED  BY <1>1, <1>2

\* more begins with out.
Begins(out, more) ==
  Len(out) <= Len(more) /\ \A n \in 1..Len(out) : more[n] = out[n]

\* What stands on the screen after an item does not depend on what follows it.
LEMMA StandsAgree ==
  ASSUME NEW out \in Seq(Items), NEW more \in Seq(Items), Begins(out, more),
         NEW u, Stands(out, u), NEW v, Stands(more, v)
  PROVE  v[Len(out)] = u[Len(out)]
<1> USE DEF Begins
<1> DEFINE Bad == {k \in Nat : k <= Len(out) /\ v[k] # u[k]}
<1>1. Len(out) \in Nat /\ Len(more) \in Nat
  OBVIOUS
<1>2. Bad = {}
  <2> SUFFICES ASSUME Bad # {} PROVE FALSE
    OBVIOUS
  <2>1. PICK k \in Bad : \A z \in Bad : k <= z
    <3>1. Bad \in SUBSET Nat
      OBVIOUS
    <3> HIDE DEF Bad
    <3> QED  BY <3>1, LeastNumber
  <2>2. k \in Nat /\ k <= Len(out) /\ v[k] # u[k]
    OBVIOUS
  <2>3. k \in 0..Len(out) /\ k \in 0..Len(more)
    BY <1>1, <2>2
  <2>4. u[k] = IF k = 0 THEN <<>> ELSE StandsAfter(u[k - 1], out[k])
    BY <2>3 DEF Stands
  <2>5. v[k] = IF k = 0 THEN <<>> ELSE StandsAfter(v[k - 1], more[k])
    BY <2>3 DEF Stands
  <2>6. k # 0 => v[k - 1] = u[k - 1] /\ more[k] = out[k]
    <3>1. k # 0 => k - 1 \notin Bad /\ k - 1 \in Nat
      <4> HIDE DEF Bad
      <4> QED  BY <2>1, <2>2
    <3> QED  BY <1>1, <2>2, <3>1
  <2> HIDE DEF Bad
  <2> QED  BY <2>2, <2>4, <2>5, <2>6
<1> QED  BY <1>1, <1>2

\* One more item on the screen.
LEMMA StandsAppended ==
  ASSUME NEW out \in Seq(Items), NEW x \in Items,
         NEW u, Stands(out, u), NEW v, Stands(Append(out, x), v)
  PROVE  v[Len(out) + 1] = StandsAfter(u[Len(out)], x)
<1> DEFINE more == Append(out, x)
<1>1. /\ more \in Seq(Items) /\ Len(out) \in Nat /\ Len(more) = Len(out) + 1
      /\ more[Len(out) + 1] = x /\ \A n \in 1..Len(out) : more[n] = out[n]
  OBVIOUS
<1>2. Stands(more, v)
  OBVIOUS
<1> HIDE DEF more
<1>3. v[Len(out)] = u[Len(out)]
  <2>1. Begins(out, more)
    BY <1>1 DEF Begins
  <2> QED  BY <1>1, <1>2, <2>1, StandsAgree
<1>4. Len(out) + 1 \in 0..Len(more) /\ Len(out) + 1 # 0 /\ (Len(out) + 1) - 1 = Len(out)
  BY <1>1
<1>5. v[Len(out) + 1] = StandsAfter(v[(Len(out) + 1) - 1], more[Len(out) + 1])
  BY <1>2, <1>4 DEF Stands
<1> QED  BY <1>1, <1>3, <1>4, <1>5

\* One more item printed by the renderer, on the screen.
LEMMA ScreenAppend ==
  ASSUME NEW r, r.out \in Seq(Items), NEW x \in Items, NEW q, q.out = Append(r.out, x)
  PROVE  AnswerOnScreen(q) = StandsAfter(AnswerOnScreen(r), x)
<1> DEFINE out == r.out
           more == Append(out, x)
<1>1. q.out = more /\ more \in Seq(Items) /\ out \in Seq(Items) /\ Len(more) = Len(out) + 1
  OBVIOUS
<1>2. PICK u : Stands(out, u) /\ AnswerOnScreen(r) = u[Len(out)]
  BY OnScreen
<1>3. PICK v : Stands(more, v) /\ AnswerOnScreen(q) = v[Len(more)]
  BY <1>1, OnScreen
<1> HIDE DEF out
<1> QED  BY <1>1, <1>2, <1>3, StandsAppended

\* Pieces of text printed after a text that stands there are joined to it.
LEMMA StandsJoined ==
  ASSUME NEW out \in Seq(Items), NEW t \in Seq(Pieces), NEW v, Stands(out \o t, v),
         NEW text \in Seq(Pieces), v[Len(out)] = text
  PROVE  v[Len(out) + Len(t)] = text \o t
<1> DEFINE Bad == {k \in Nat : k <= Len(t) /\ v[Len(out) + k] # text \o SubSeq(t, 1, k)}
<1>1. /\ Len(out) \in Nat /\ Len(t) \in Nat /\ t \in Seq(Items)
      /\ Len(out \o t) = Len(out) + Len(t)
      /\ \A n \in 1..Len(t) : (out \o t)[Len(out) + n] = t[n]
  BY DEF Items
<1>2. Bad = {}
  <2> SUFFICES ASSUME Bad # {} PROVE FALSE
    OBVIOUS
  <2>1. PICK k \in Bad : \A z \in Bad : k <= z
    <3>1. Bad \in SUBSET Nat
      OBVIOUS
    <3> HIDE DEF Bad
    <3> QED  BY <3>1, LeastNumber
  <2>2. k \in Nat /\ k <= Len(t) /\ v[Len(out) + k] # text \o SubSeq(t, 1, k)
    OBVIOUS
  <2>3. CASE k = 0
    <3>1. SubSeq(t, 1, 0) = <<>> /\ text \o <<>> = text
      OBVIOUS
    <3> QED  BY <1>1, <2>2, <2>3, <3>1
  <2>4. CASE k # 0
    <3>1. k \in 1..Len(t) /\ k - 1 \in Nat /\ k - 1 < k /\ k - 1 <= Len(t)
      BY <1>1, <2>2, <2>4
    <3>2. v[Len(out) + (k - 1)] = text \o SubSeq(t, 1, k - 1)
      <4>1. Bad \in SUBSET Nat
        OBVIOUS
      <4>2. k - 1 \notin Bad
        <5> HIDE DEF Bad
        <5> QED  BY <2>1, <3>1, <4>1
      <4> QED  BY <3>1, <4>2
    <3> HIDE DEF Bad
    <3>3. v[Len(out) + k] = StandsAfter(v[Len(out) + (k - 1)], t[k])
      <4>1. /\ Len(out) + k \in 0..Len(out \o t) /\ Len(out) + k # 0
            /\ (Len(out) + k) - 1 = Len(out) + (k - 1)
            /\ (out \o t)[Len(out) + k] = t[k]
        BY <1>1, <3>1
      <4> QED  BY <4>1 DEF Stands
    <3>4. t[k] \in Pieces /\ SubSeq(t, 1, k - 1) \in Seq(Pieces)
      BY <3>1
    <3>5. SubSeq(t, 1, k) = SubSeq(t, 1, k - 1) \o <<t[k]>>
      <4>1. t \in Seq(Pieces) /\ 1 \in 1..Len(t) /\ k \in 1..Len(t) /\ 1 \in Int /\ k \in Int
        BY <1>1, <3>1
      <4> QED  BY <4>1, SubSeqRecursiveSecond
    <3>6. \A s \in Seq(Pieces), x \in Pieces : Append(text \o s, x) = text \o (s \o <<x>>)
      <4> TAKE s \in Seq(Pieces), x \in Pieces
      <4>1. <<x>> \in Seq(Pieces) /\ text \o s \in Seq(Pieces)
        OBVIOUS
      <4>2. Append(text \o s, x) = (text \o s) \o <<x>>
        BY <4>1, AppendIsConcat
      <4>3. (text \o s) \o <<x>> = text \o (s \o <<x>>)
        BY <4>1, ConcatAssociative
      <4> QED  BY <4>2, <4>3
    <3>7. StandsAfter(v[Len(out) + (k - 1)], t[k]) = text \o SubSeq(t, 1, k)
      <4>1. StandsAfter(text \o SubSeq(t, 1, k - 1), t[k])
            = Append(text \o SubSeq(t, 1, k - 1), t[k])
        BY <3>4, AfterItem
      <4> QED  BY <3>2, <3>4, <3>5, <3>6, <4>1
    <3> QED  BY <2>2, <3>3, <3>7
  <2> QED  BY <2>3, <2>4
<1>3. v[Len(out) + Len(t)] = text \o SubSeq(t, 1, Len(t))
  <2>1. Len(t) \notin Bad
    BY <1>2
  <2> QED  BY <1>1, <2>1
<1>4. SubSeq(t, 1, Len(t)) = t
  BY SubSeqFull
<1> QED  BY <1>3, <1>4

\* Pieces printed by the renderer are joined to the answer on the screen.
LEMMA ScreenJoin ==
  ASSUME NEW r, r.out \in Seq(Items), AnswerOnScreen(r) \in Seq(Pieces),
         NEW t \in Seq(Pieces), NEW q, q.out = r.out \o t
  PROVE  AnswerOnScreen(q) = AnswerOnScreen(r) \o t
<1> SUFFICES \A out \in Seq(Items), text \in Seq(Pieces) :
                 out = r.out /\ text = AnswerOnScreen(r) => AnswerOnScreen(q) = text \o t
  OBVIOUS
<1> SUFFICES ASSUME NEW out \in Seq(Items), NEW text \in Seq(Pieces),
                    out = r.out, text = AnswerOnScreen(r)
             PROVE  AnswerOnScreen(q) = text \o t
  OBVIOUS
<1> DEFINE more == out \o t
<1>1. /\ Len(out) \in Nat /\ Len(t) \in Nat /\ t \in Seq(Items)
      /\ more \in Seq(Items) /\ Len(more) = Len(out) + Len(t)
      /\ \A n \in 1..Len(out) : more[n] = out[n]
  BY DEF Items
<1>2. q.out = more
  OBVIOUS
<1>3. PICK u : Stands(out, u) /\ text = u[Len(out)]
  BY OnScreen
<1>4. PICK v : Stands(more, v) /\ AnswerOnScreen(q) = v[Len(more)]
  BY <1>1, <1>2, OnScreen
<1>5. v[Len(out)] = text
  <2> HIDE DEF more
  <2>1. Begins(out, more) /\ Stands(out, u) /\ Stands(more, v)
    BY <1>1, <1>3, <1>4 DEF Begins
  <2> QED  BY <1>1, <1>3, <2>1, StandsAgree
<1>6. v[Len(out) + Len(t)] = text \o t
  BY <1>4, <1>5, StandsJoined
<1> QED  BY <1>1, <1>4, <1>6

-----------------------------------------------------------------------------
(* The page, and what it has told *)

\* The texts of a message consist of its pieces.
Texts(m) == Seq({m} \X Nat)

\* A text of every message.
TextMaps == {f \in [Messages -> Seq(Pieces)] : \A m \in Messages : f[m] \in Texts(m)}

\* The texts of a message are closed under what the page and the receivers do.
LEMMA TextsOf ==
  ASSUME NEW m \in Messages
  PROVE  /\ <<>> \in Texts(m)
         /\ \A t \in Texts(m) : t \in Seq(Pieces)
         /\ \A n \in Nat : <<<<m, n>>>> \in Texts(m)
         /\ \A t \in Texts(m), n \in Nat :
                Append(t, <<m, n>>) \in Texts(m) /\ Append(t, <<m, n>>) # <<>>
         /\ \A t, u \in Texts(m) : t \o u \in Texts(m)
         /\ \A t \in Texts(m), n \in Nat : SubSeq(t, n + 1, Len(t)) \in Texts(m)
         /\ \A t \in Texts(m) : \A n \in DOMAIN t : t[n] \in Pieces /\ t[n][1] = m
<1>1. {m} \X Nat \subseteq Pieces
  BY DEF Pieces
<1>2. \A n \in Nat : <<m, n>> \in {m} \X Nat
  OBVIOUS
<1>3. ASSUME NEW t \in Texts(m) PROVE t \in Seq(Pieces)
  BY <1>1, SeqMonotonic DEF Texts
<1>4. ASSUME NEW t \in Texts(m), NEW n \in DOMAIN t PROVE t[n] \in Pieces /\ t[n][1] = m
  BY <1>1 DEF Texts
<1>5. ASSUME NEW t \in Texts(m), NEW n \in Nat
      PROVE  Append(t, <<m, n>>) \in Texts(m) /\ Append(t, <<m, n>>) # <<>>
  BY <1>2 DEF Texts
<1>6. ASSUME NEW t \in Texts(m), NEW n \in Nat PROVE SubSeq(t, n + 1, Len(t)) \in Texts(m)
  BY DEF Texts
<1>7. /\ <<>> \in Texts(m) /\ \A n \in Nat : <<<<m, n>>>> \in Texts(m)
      /\ \A t, u \in Texts(m) : t \o u \in Texts(m)
  BY <1>2 DEF Texts
<1> QED  BY <1>3, <1>4, <1>5, <1>6, <1>7

\* A message's text written anew changes no other.
LEMMA ChangedText ==
  ASSUME NEW f \in TextMaps, NEW m \in Messages, NEW t \in Texts(m)
  PROVE  /\ [f EXCEPT ![m] = t] \in TextMaps
         /\ [f EXCEPT ![m] = t][m] = t
         /\ \A k \in Messages \ {m} : [f EXCEPT ![m] = t][k] = f[k]
<1>1. t \in Seq(Pieces)
  BY TextsOf
<1> QED  BY <1>1 DEF TextMaps

\* What the page has told of the texts after the n-th text event.
Blank == [m \in Messages |-> <<>>]
Told(log, n) == IF n = 0 THEN Blank ELSE log[n]

\* Before anything is written every text is empty.
LEMMA BlankTexts == Blank \in TextMaps /\ \A m \in Messages : Blank[m] = <<>>
<1>1. \A m \in Messages : <<>> \in Texts(m)
  BY TextsOf
<1> QED  BY <1>1 DEF Blank, TextMaps

\* What the page has told is not changed by what it tells next.
LEMMA ToldMore ==
  ASSUME NEW log \in Seq(TextMaps), NEW s \in TextMaps
  PROVE  /\ \A n \in 0..Len(log) : /\ Told(log, n) \in TextMaps
                                   /\ Told(Append(log, s), n) = Told(log, n)
         /\ Told(Append(log, s), Len(log) + 1) = s
         /\ Append(log, s) \in Seq(TextMaps) /\ Len(Append(log, s)) = Len(log) + 1
         /\ Len(log) \in Nat
BY BlankTexts DEF Told

\* The page: its texts are what it has told up to the last number, of messages the
\* product has written.
Pages == [text : TextMaps, seq : Nat, events : Seq(plan.menu), log : Seq(TextMaps),
          pieces : Nat]

\* The page has told every text it has seen, and none the product did not write.
PageInv ==
  /\ plan \in Plans
  /\ phase \in {"streaming", "done"}
  /\ faults \in Nat
  /\ server \in TextMaps
  /\ page \in Pages
  /\ Len(page.log) = page.seq
  /\ page.text = Told(page.log, page.seq)
  /\ \A m \in Messages : page.text[m] # <<>> => server[m] # <<>>

\* The page invariant holds at first.
LEMMA PageInit == StreamInit => PageInv
<1> SUFFICES ASSUME StreamInit PROVE PageInv
  OBVIOUS
<1>1. page = [text |-> Blank, seq |-> 0, events |-> <<>>, log |-> <<>>, pieces |-> 0]
      /\ server = Blank
  BY DEF StreamInit, Blank
<1> QED  BY <1>1, BlankTexts DEF StreamInit, PageInv, Pages, Told

\* What the page observed of a message is never empty again.
Fuller(old, new) == \A m \in Messages : old[m] # <<>> => new[m] # <<>>

\* A piece written changes what the product shows, not what was observed of it.
LEMMA PageWrite ==
  ASSUME PageInv, NEW m \in Messages, Write(m)
  PROVE  PageInv'
<1> USE DEF PageInv
<1> DEFINE piece == <<m, page.pieces>>
<1>1. page.pieces \in Nat /\ server[m] \in Texts(m)
  BY DEF Pages, TextMaps
<1>2. PICK t \in Texts(m) : t # <<>> /\ server' = [server EXCEPT ![m] = t]
  <2>1. CASE server' = [server EXCEPT ![m] = Append(@, piece)]
    <3>1. Append(server[m], piece) \in Texts(m) /\ Append(server[m], piece) # <<>>
      <4>1. \A t \in Texts(m), n \in Nat :
                Append(t, <<m, n>>) \in Texts(m) /\ Append(t, <<m, n>>) # <<>>
        BY TextsOf
      <4> QED  BY <1>1, <4>1
    <3>2. server' = [server EXCEPT ![m] = Append(server[m], piece)]
      BY <2>1
    <3> HIDE DEF piece
    <3> QED  BY <3>1, <3>2
  <2>2. CASE server' = [server EXCEPT ![m] = <<piece>>]
    <3>1. <<piece>> \in Texts(m) /\ <<piece>> # <<>>
      BY <1>1, TextsOf
    <3> QED  BY <2>2, <3>1
  <2> QED  BY <2>1, <2>2 DEF Write
<1>3. server' \in TextMaps /\ Fuller(server, server')
  <2> DEFINE new == [server EXCEPT ![m] = t]
  <2>1. new \in TextMaps /\ new[m] = t /\ \A k \in Messages \ {m} : new[k] = server[k]
    BY ChangedText
  <2>2. server' = new
    BY <1>2
  <2> HIDE DEF new
  <2> QED  BY <1>2, <2>1, <2>2 DEF Fuller
<1>4. page' = [page EXCEPT !.pieces = @ + 1] /\ UNCHANGED <<phase, plan, faults>>
  BY DEF Write
<1>5. page' \in Pages' /\ page'.text = page.text /\ page'.log = page.log
      /\ page'.seq = page.seq
  BY <1>4 DEF Pages
<1> QED  BY <1>3, <1>4, <1>5 DEF Fuller

\* An observation is logged under the next number.
LEMMA PageObserve ==
  ASSUME PageInv, NEW m \in Messages, Observe(m)
  PROVE  /\ PageInv' /\ Fuller(page.text, page'.text)
         /\ page'.text = [page.text EXCEPT ![m] = server[m]]
         /\ page'.seq = page.seq + 1
         /\ page'.log = Append(page.log, page'.text)
         /\ server[m] # <<>>
<1> USE DEF PageInv
<1> DEFINE new == [page.text EXCEPT ![m] = server[m]]
<1>1. server[m] \in Texts(m) /\ server[m] # page.text[m]
  BY DEF TextMaps, Observe
<1>2. server[m] # <<>>
  BY <1>1
<1>3. new \in TextMaps /\ new[m] = server[m] /\ \A k \in Messages \ {m} : new[k] = page.text[k]
  <2>1. page.text \in TextMaps
    BY DEF Pages
  <2> QED  BY <1>1, <2>1, ChangedText
<1>4. page' = [page EXCEPT !.text = new, !.seq = @ + 1, !.log = Append(@, new)]
  BY DEF Observe
<1>8. UNCHANGED <<phase, plan, server, faults>>
  BY DEF Observe
<1> HIDE DEF new
<1>5. /\ page'.text = new /\ page'.seq = page.seq + 1
      /\ page'.log = Append(page.log, new) /\ page' \in Pages'
  <2> DEFINE log == Append(page.log, new)
  <2>1. log \in Seq(TextMaps)
    BY <1>3 DEF Pages
  <2>2. page' = [page EXCEPT !.text = new, !.seq = page.seq + 1, !.log = log]
    BY <1>4
  <2> HIDE DEF log
  <2>3. /\ page'.text = new /\ page'.seq = page.seq + 1 /\ page'.log = log
        /\ page' \in Pages'
    <3>1. page' = [text |-> new, seq |-> page.seq + 1, events |-> page.events,
                   log |-> log, pieces |-> page.pieces]
      BY <2>2 DEF Pages
    <3>2. page.seq + 1 \in Nat /\ page.events \in Seq(plan.menu) /\ page.pieces \in Nat
      BY DEF Pages
    <3> QED  BY <1>3, <1>8, <2>1, <3>1, <3>2 DEF Pages
  <2> QED  BY <2>3 DEF log
<1>6. /\ Len(page'.log) = page'.seq /\ page'.text = Told(page'.log, page'.seq)
  <2>1. page.log \in Seq(TextMaps)
    BY DEF Pages
  <2> QED  BY <1>3, <1>5, <2>1, ToldMore
<1>7. /\ Fuller(page.text, page'.text)
      /\ \A k \in Messages : page'.text[k] # <<>> => server[k] # <<>>
  BY <1>2, <1>3, <1>5 DEF Fuller
<1> QED  BY <1>2, <1>5, <1>6, <1>7, <1>8 DEF new

\* A reported event is added to those reported.
LEMMA PageReport ==
  ASSUME PageInv, NEW e \in plan.menu, Report(e)
  PROVE  /\ PageInv'
         /\ page'.events = Append(page.events, e) /\ page'.events \in Seq(plan.menu)
         /\ page'.text = page.text /\ page'.seq = page.seq /\ page'.log = page.log
<1> USE DEF PageInv
<1>1. page' = [page EXCEPT !.events = Append(@, e)] /\ UNCHANGED <<phase, plan, server, faults>>
  BY DEF Report
<1> DEFINE events == Append(page.events, e)
<1>2. events \in Seq(plan.menu)
  BY DEF Pages
<1>3. page' = [page EXCEPT !.events = events]
  BY <1>1
<1> HIDE DEF events
<1>4. /\ page' \in Pages' /\ page'.events = events
      /\ page'.text = page.text /\ page'.seq = page.seq /\ page'.log = page.log
  BY <1>1, <1>2, <1>3 DEF Pages
<1> QED  BY <1>1, <1>2, <1>4 DEF events

\* Every other step leaves the product and the page alone.
LEMMA PageOther ==
  ASSUME PageInv,
         Lose \/ (\E repeat \in BOOLEAN : Overtake(repeat)) \/ Deliver \/ Finalize
         \/ UNCHANGED streamVars
  PROVE  PageInv' /\ UNCHANGED <<page, server, plan>>
<1>1. UNCHANGED <<page, server, plan>> /\ phase' \in {"streaming", "done"} /\ faults' \in Nat
  <2> USE DEF PageInv, product
  <2>1. CASE Lose
    BY <2>1 DEF Lose
  <2>2. CASE \E repeat \in BOOLEAN : Overtake(repeat)
    BY <2>2 DEF Overtake
  <2>3. CASE Deliver
    BY <2>3 DEF Deliver
  <2>4. CASE Finalize
    BY <2>4 DEF Finalize
  <2>5. CASE UNCHANGED streamVars
    BY <2>5 DEF streamVars
  <2> QED  BY <2>1, <2>2, <2>3, <2>4, <2>5
<1> QED  BY <1>1 DEF PageInv, Pages

-----------------------------------------------------------------------------
(* The frames of the page *)

\* The page goes on: what it told it has told, what it reported it has reported.
GoesOn ==
  /\ PageInv' /\ plan' = plan /\ Fuller(page.text, page'.text) /\ page'.seq >= page.seq
  /\ \A n \in 0..page.seq : Told(page'.log, n) = Told(page.log, n)
  /\ \A e : e \in Range(page.events) => e \in Range(page'.events)

\* Every step keeps the page invariant, and nothing told or reported is taken back.
LEMMA PageGoesOn ==
  ASSUME PageInv, [StreamNext]_streamVars
  PROVE  GoesOn
<1> USE DEF Fuller
<1>1. ASSUME NEW m \in Messages, Write(m) PROVE GoesOn
  <2>1. PageInv'
    BY <1>1, PageWrite
  <2>2. plan' = plan /\ page' = [page EXCEPT !.pieces = @ + 1]
    BY <1>1 DEF Write
  <2>3. UNCHANGED <<page.text, page.seq, page.log, page.events>>
    BY <2>2 DEF PageInv, Pages
  <2> QED  BY <2>1, <2>2, <2>3 DEF GoesOn, PageInv, Pages
<1>2. ASSUME NEW m \in Messages, Observe(m) PROVE GoesOn
  <2>1. /\ PageInv' /\ Fuller(page.text, page'.text) /\ page'.seq = page.seq + 1
        /\ page'.log = Append(page.log, page'.text)
    BY <1>2, PageObserve
  <2>2. page.log \in Seq(TextMaps) /\ page'.text \in TextMaps /\ Len(page.log) = page.seq
    BY <2>1 DEF PageInv, Pages
  <2>3. \A n \in 0..page.seq : Told(page'.log, n) = Told(page.log, n)
    BY <2>1, <2>2, ToldMore
  <2>4. plan' = plan /\ page'.events = page.events
    <3>1. plan' = plan /\ \E s, t : page' = [page EXCEPT !.text = s, !.seq = @ + 1, !.log = t]
      BY <1>2 DEF Observe
    <3> QED  BY <3>1 DEF PageInv, Pages
  <2>5. page'.seq >= page.seq
    BY <2>1 DEF PageInv, Pages
  <2> QED  BY <2>1, <2>3, <2>4, <2>5 DEF GoesOn
<1>3. ASSUME NEW e \in plan.menu, Report(e) PROVE GoesOn
  <2>1. /\ PageInv' /\ page'.events = Append(page.events, e)
        /\ page'.text = page.text /\ page'.seq = page.seq /\ page'.log = page.log
    BY <1>3, PageReport
  <2>2. page.events \in Seq(plan.menu) /\ page.seq \in Nat
    BY DEF PageInv, Pages
  <2>3. \A x : x \in Range(page.events) => x \in Range(page'.events)
    <3>1. \A n \in DOMAIN page.events : n \in DOMAIN page'.events /\ page'.events[n] = page.events[n]
      BY <2>1, <2>2
    <3> QED  BY <3>1 DEF Range
  <2>4. plan' = plan
    BY <1>3 DEF Report
  <2> QED  BY <2>1, <2>2, <2>3, <2>4 DEF GoesOn
<1>4. CASE \/ Lose \/ (\E repeat \in BOOLEAN : Overtake(repeat)) \/ Deliver \/ Finalize
           \/ UNCHANGED streamVars
  <2>1. PageInv' /\ UNCHANGED <<page, server, plan>>
    BY <1>4, PageOther
  <2> QED  BY <2>1 DEF GoesOn, PageInv, Pages
<1> QED  BY <1>1, <1>2, <1>3, <1>4 DEF StreamNext

\* A text frame says what was new of one message at its number.
TextFrames ==
  [kind : {"text"}, type : TextTypes, seq : Nat, msg : Messages,
   channel : {"commentary", "final", None}, body : Seq(Pieces)]

Framed(e) ==
  /\ e \in TextFrames
  /\ e.seq \in 1..page.seq
  /\ e.channel = plan.mark[e.msg]
  /\ e.body \in Texts(e.msg)
  /\ e.type # "delta" => Told(page.log, e.seq)[e.msg] = e.body
  /\ e.type = "delta" =>
        /\ Told(page.log, e.seq)[e.msg] = Told(page.log, e.seq - 1)[e.msg] \o e.body
        /\ Told(page.log, e.seq - 1)[e.msg] # <<>>
  /\ \A m \in Messages \ {e.msg} : Told(page.log, e.seq)[m] = Told(page.log, e.seq - 1)[m]
  /\ page.text[e.msg] # <<>>

Reported(e) == e \in plan.menu /\ e \in Range(page.events)

\* A frame on its way: a text frame of the page, or an event it reported.
OnWire(e) == IF e.kind = "text" THEN Framed(e) ELSE Reported(e)

\* What was sent by the page stays sent by it.
LEMMA OnWireStays ==
  ASSUME PageInv, GoesOn, NEW e, OnWire(e)
  PROVE  OnWire(e)'
<1>1. CASE e.kind # "text"
  BY <1>1 DEF OnWire, Reported, GoesOn
<1>2. CASE e.kind = "text"
  <2>1. /\ Framed(e) /\ page.seq \in Nat /\ page'.seq \in Nat /\ page'.seq >= page.seq
        /\ plan' = plan /\ \A m \in Messages : page.text[m] # <<>> => page'.text[m] # <<>>
        /\ e.msg \in Messages
    BY <1>2 DEF OnWire, GoesOn, PageInv, Pages, Framed, TextFrames, Fuller
  <2>2. e.seq \in 0..page.seq /\ e.seq - 1 \in 0..page.seq /\ e.seq \in 1..page'.seq
    BY <2>1 DEF Framed
  <2>3. /\ Told(page'.log, e.seq) = Told(page.log, e.seq)
        /\ Told(page'.log, e.seq - 1) = Told(page.log, e.seq - 1)
    BY <2>2 DEF GoesOn
  <2> QED  BY <1>2, <2>1, <2>2, <2>3 DEF OnWire, Framed
<1> QED  BY <1>1, <1>2

\* The empty text is a prefix of every text.
LEMMA EmptyPrefix ==
  ASSUME NEW S, NEW t \in Seq(S)
  PROVE  IsPrefix(<<>>, t)
BY DEF IsPrefix

\* What Observe puts on the wire.
LEMMA ObserveFrame ==
  ASSUME PageInv, NEW m \in Messages, Observe(m)
  PROVE  \E e : /\ wire' = Append(wire, e) /\ e.kind = "text" /\ e.seq = page.seq + 1
                /\ Framed(e)'
<1> DEFINE old == page.text[m]
           new == server[m]
           type == CASE old = <<>> -> "snapshot"
                     [] old # <<>> /\ IsPrefix(old, new) -> "delta"
                     [] ~IsPrefix(old, new) -> "revision"
           body == IF type = "delta" THEN SubSeq(new, Len(old) + 1, Len(new)) ELSE new
           e == [kind |-> "text", type |-> type, seq |-> page.seq + 1, msg |-> m,
                 channel |-> plan.mark[m], body |-> body]
<1>1. wire' = Append(wire, e) /\ new # old /\ plan' = plan
  BY DEF Observe
<1>2. /\ PageInv' /\ page'.text = [page.text EXCEPT ![m] = new]
      /\ page'.seq = page.seq + 1 /\ page'.log = Append(page.log, page'.text) /\ new # <<>>
  BY PageObserve
<1>3. /\ old \in Texts(m) /\ new \in Texts(m) /\ page.text \in TextMaps /\ page.seq \in Nat
      /\ page.log \in Seq(TextMaps) /\ Len(page.log) = page.seq
      /\ page.text = Told(page.log, page.seq) /\ page'.text \in TextMaps
  BY <1>2 DEF PageInv, Pages, TextMaps
<1>4. /\ Told(page'.log, page.seq + 1) = page'.text
      /\ Told(page'.log, page.seq) = page.text
  BY <1>2, <1>3, ToldMore
<1>5. page'.text[m] = new /\ \A k \in Messages \ {m} : page'.text[k] = page.text[k]
  BY <1>2, <1>3, ChangedText
<1>6. old \in Seq(Pieces) /\ new \in Seq(Pieces)
  BY <1>3, TextsOf
<1>7. /\ type \in TextTypes
      /\ type # "delta" => body = new
      /\ type = "delta" => old # <<>> /\ new = old \o body
      /\ body \in Texts(m)
  <2> HIDE DEF old, new
  <2>1. CASE old = <<>>
    <3>1. IsPrefix(old, new)
      BY <1>6, <2>1, EmptyPrefix
    <3>2. type = "snapshot"
      BY <2>1, <3>1, Zenon
    <3> HIDE DEF type
    <3> QED  BY <1>3, <3>2 DEF TextTypes
  <2>2. CASE old # <<>> /\ IsPrefix(old, new)
    <3>1. type = "delta"
      BY <2>2, Zenon
    <3>2. new = old \o SubSeq(new, Len(old) + 1, Len(new))
      BY <1>6, <2>2, PrefixAndRest
    <3>3. SubSeq(new, Len(old) + 1, Len(new)) \in Texts(m)
      <4>1. Len(old) \in Nat
        BY <1>6
      <4> QED  BY <1>3, <4>1, TextsOf
    <3> HIDE DEF type
    <3> QED  BY <2>2, <3>1, <3>2, <3>3 DEF TextTypes
  <2>3. CASE ~IsPrefix(old, new)
    <3>1. old # <<>>
      BY <1>6, <2>3, EmptyPrefix
    <3>2. type = "revision"
      BY <2>3, <3>1, Zenon
    <3> HIDE DEF type
    <3> QED  BY <1>3, <3>2 DEF TextTypes
  <2> QED  BY <2>1, <2>2, <2>3
<1>8. plan.mark[m] \in {"commentary", "final", None}
  BY PlansAssumption DEF PageInv
<1>9. body \in Seq(Pieces)
  BY <1>7, TextsOf
<1>14. PICK x : x = e
  OBVIOUS
<1> HIDE DEF type, body, new
<1>10. /\ x.kind = "text" /\ x.type = type /\ x.seq = page.seq + 1 /\ x.msg = m
       /\ x.channel = plan.mark[m] /\ x.body = body
  BY <1>14
<1>11. x \in TextFrames
  BY <1>14, <1>3, <1>7, <1>8, <1>9 DEF TextFrames
<1> HIDE DEF e
<1>12. /\ x.seq \in 1..page'.seq /\ x.seq - 1 = page.seq
  BY <1>2, <1>3, <1>10
<1>13. Framed(x)'
  <2>1. new # <<>> /\ old = page.text[m] /\ plan' = plan
    BY <1>1, <1>2
  <2> HIDE DEF old
  <2>2. /\ Told(page'.log, x.seq) = page'.text /\ Told(page'.log, x.seq - 1) = page.text
        /\ page'.text[x.msg] = new /\ page.text[x.msg] = old /\ x.msg = m
    BY <1>2, <1>4, <1>5, <1>10, <1>12, <2>1
  <2>3. \A k \in Messages \ {x.msg} : Told(page'.log, x.seq)[k] = Told(page'.log, x.seq - 1)[k]
    BY <1>5, <2>2
  <2>4. x.type # "delta" => Told(page'.log, x.seq)[x.msg] = x.body
    BY <1>7, <1>10, <2>2
  <2>5. x.type = "delta" =>
          /\ Told(page'.log, x.seq)[x.msg] = Told(page'.log, x.seq - 1)[x.msg] \o x.body
          /\ Told(page'.log, x.seq - 1)[x.msg] # <<>>
    BY <1>7, <1>10, <2>2
  <2>6. x.channel = plan'.mark[x.msg] /\ x.body \in Texts(x.msg) /\ page'.text[x.msg] # <<>>
    BY <1>7, <1>10, <2>1, <2>2
  <2> QED  BY <1>11, <1>12, <2>3, <2>4, <2>5, <2>6 DEF Framed
<1>15. wire' = Append(wire, x)
  BY <1>1, <1>14 DEF e, body, type, new
<1> QED  BY <1>10, <1>13, <1>15

-----------------------------------------------------------------------------
(* The wire *)

\* A source or a citation.
IsReference(e) == e.kind \in {"source", "citation"}

\* What is on the wire was sent by the page, a reference once only.
Wired(w) ==
  /\ w \in Seq(TextFrames \cup plan.menu)
  /\ \A n \in 1..Len(w) : OnWire(w[n])
  /\ \A i, j \in 1..Len(w) : i # j /\ IsReference(w[i]) => w[i] # w[j]

\* Every frame on its way is the page's, and the result follows the last one.
WireInv == Wired(wire) /\ (phase = "done" => wire = <<>>)

\* Frames stay what they are while the page goes on.
LEMMA WiredStays ==
  ASSUME PageInv, GoesOn, NEW w, Wired(w)
  PROVE  Wired(w)'
<1>1. \A n \in 1..Len(w) : OnWire(w[n])'
  BY OnWireStays DEF Wired
<1>2. plan' = plan
  BY DEF GoesOn
<1> QED  BY <1>1, <1>2 DEF Wired

\* A frame the page sends may join those on their way, a reference if none is it.
LEMMA WiredGrows ==
  ASSUME NEW w, Wired(w)', NEW x, OnWire(x)',
         IsReference(x) => \A n \in 1..Len(w) : w[n] # x
  PROVE  Wired(Append(w, x))'
<1> DEFINE Frames == TextFrames \cup plan'.menu
           more == Append(w, x)
<1>1. w \in Seq(Frames) /\ x \in Frames
  BY DEF Wired, OnWire, Framed, Reported
<1>2. /\ more \in Seq(Frames) /\ Len(w) \in Nat /\ Len(more) = Len(w) + 1
      /\ more[Len(w) + 1] = x /\ \A n \in 1..Len(w) : more[n] = w[n]
  <2> HIDE DEF Frames
  <2> QED  BY <1>1
<1>3. \A n \in 1..Len(more) : OnWire(more[n])'
  <2> HIDE DEF more
  <2> SUFFICES ASSUME NEW n \in 1..Len(more) PROVE OnWire(more[n])'
    OBVIOUS
  <2>1. CASE n = Len(w) + 1
    BY <1>2, <2>1
  <2>2. CASE n \in 1..Len(w)
    BY <1>2, <2>2 DEF Wired
  <2> QED  BY <1>2, <2>1, <2>2
<1>4. \A i, j \in 1..Len(more) : i # j /\ IsReference(more[i]) => more[i] # more[j]
  <2> HIDE DEF more
  <2>1. \A i, j \in 1..Len(w) : i # j /\ IsReference(w[i]) => w[i] # w[j]
    BY DEF Wired
  <2>2. \A i, j \in 1..Len(w) : i # j /\ IsReference(more[i]) => more[i] # more[j]
    BY <1>2, <2>1
  <2>3. \A i \in 1..Len(w) : IsReference(x) => more[i] # x
    BY <1>2
  <2>4. \A i \in 1..Len(w) : IsReference(more[i]) => more[i] # x
    BY <2>3
  <2> QED  BY <1>2, <2>2, <2>3, <2>4
<1> QED  BY <1>2, <1>3, <1>4 DEF Wired

\* The frames that stay when the first one is delivered or lost.
LEMMA WiredTail ==
  ASSUME NEW w, Wired(w), w # <<>>
  PROVE  /\ Wired(Tail(w)) /\ Head(w) = w[1] /\ OnWire(Head(w))
         /\ Len(Tail(w)) = Len(w) - 1 /\ Len(w) \in Nat /\ Len(w) > 0
         /\ \A n \in 1..(Len(w) - 1) : Tail(w)[n] = w[n + 1]
         /\ IsReference(Head(w)) => \A n \in 1..Len(Tail(w)) : Tail(w)[n] # Head(w)
<1> DEFINE rest == Tail(w)
           Frames == TextFrames \cup plan.menu
<1>1. w \in Seq(Frames)
  BY DEF Wired
<1> HIDE DEF Frames
<1>2. /\ rest \in Seq(Frames) /\ Len(w) \in Nat /\ Len(w) > 0 /\ Len(rest) = Len(w) - 1
      /\ \A n \in 1..(Len(w) - 1) : rest[n] = w[n + 1]
      /\ Head(w) = w[1]
  BY <1>1
<1> HIDE DEF rest
<1>3. /\ \A n \in 1..Len(w) : OnWire(w[n])
      /\ \A i, j \in 1..Len(w) : i # j /\ IsReference(w[i]) => w[i] # w[j]
  BY DEF Wired
<1>4. \A n \in 1..Len(rest) : OnWire(rest[n])
  BY <1>2, <1>3
<1>5. \A i, j \in 1..Len(rest) : i # j /\ IsReference(rest[i]) => rest[i] # rest[j]
  BY <1>2, <1>3
<1>6. OnWire(Head(w)) /\ (IsReference(Head(w)) => \A n \in 1..Len(rest) : rest[n] # Head(w))
  BY <1>2, <1>3
<1>7. Wired(rest)
  BY <1>2, <1>4, <1>5 DEF Wired, Frames
<1> QED  BY <1>2, <1>6, <1>7 DEF rest

\* Two sequences joined.
LEMMA Joined ==
  ASSUME NEW S, NEW s \in Seq(S), NEW t \in Seq(S)
  PROVE  /\ s \o t \in Seq(S) /\ Len(s \o t) = Len(s) + Len(t)
         /\ \A n \in 1..Len(s) : (s \o t)[n] = s[n]
         /\ \A n \in 1..Len(t) : (s \o t)[Len(s) + n] = t[n]
OBVIOUS

\* A sequence without its first elements.
LEMMA RestOf ==
  ASSUME NEW S, NEW w \in Seq(S), NEW n \in Nat, n <= Len(w)
  PROVE  /\ SubSeq(w, n + 1, Len(w)) \in Seq(S)
         /\ Len(SubSeq(w, n + 1, Len(w))) = Len(w) - n
         /\ \A i \in 1..(Len(w) - n) : SubSeq(w, n + 1, Len(w))[i] = w[i + n]
<1>0. Len(w) \in Nat
  OBVIOUS
<1>1. SubSeq(w, n + 1, Len(w)) \in Seq(S)
  OBVIOUS
<1>2. \A i \in 1..(Len(w) - n) : SubSeq(w, n + 1, Len(w))[i] = w[i + n]
  OBVIOUS
<1>3. CASE n = Len(w)
  <2>1. SubSeq(w, n + 1, Len(w)) = <<>>
    BY <1>0, <1>3, SubSeqEmpty
  <2> QED  BY <1>1, <1>2, <1>3, <2>1
<1>4. CASE n < Len(w)
  <2>1. Len(SubSeq(w, n + 1, Len(w))) = Len(w) - n
    BY <1>0, <1>4
  <2> QED  BY <1>1, <1>2, <2>1
<1> QED BY <1>0, <1>3, <1>4

\* The frames after the first was overtaken by the second, and repeated or not.
Swapped(w, repeat) ==
  (IF repeat THEN <<w[1], w[2], w[1]>> ELSE <<w[2], w[1]>>) \o SubSeq(w, 3, Len(w))

\* A text frame overtaken or repeated leaves frames of the page, and no new one.
LEMMA WiredSwapped ==
  ASSUME NEW w, Wired(w), Len(w) > 1, w[1].kind = "text", w[2].kind = "text",
         NEW repeat \in BOOLEAN
  PROVE  /\ Wired(Swapped(w, repeat))
         /\ \A n \in 1..Len(Swapped(w, repeat)) : \E i \in 1..Len(w) : Swapped(w, repeat)[n] = w[i]
<1> DEFINE Frames == TextFrames \cup plan.menu
           more == Swapped(w, repeat)
           front == IF repeat THEN <<w[1], w[2], w[1]>> ELSE <<w[2], w[1]>>
           rest == SubSeq(w, 3, Len(w))
           k == Len(front)
           l == Len(w) - 2
<1>1. w \in Seq(Frames) /\ Len(w) \in Nat /\ l \in Nat
  BY DEF Wired
<1> HIDE DEF Frames
<1>2. front \in Seq(Frames) /\ k \in Nat /\ \A n \in 1..k : front[n] \in {w[1], w[2]}
  <2>1. w[1] \in Frames /\ w[2] \in Frames
    BY <1>1
  <2>2. CASE repeat
    <3>1. front = <<w[1], w[2], w[1]>>
      BY <2>2
    <3>2. <<w[1], w[2], w[1]>> \in Seq(Frames) /\ Len(<<w[1], w[2], w[1]>>) = 3
      BY <2>1
    <3> QED  BY <3>1, <3>2
  <2>3. CASE ~repeat
    <3>1. front = <<w[2], w[1]>>
      BY <2>3
    <3>2. <<w[2], w[1]>> \in Seq(Frames) /\ Len(<<w[2], w[1]>>) = 2
      BY <2>1
    <3> QED  BY <3>1, <3>2
  <2> QED  BY <2>2, <2>3
<1>3. rest \in Seq(Frames) /\ Len(rest) = l /\ \A n \in 1..l : rest[n] = w[n + 2]
  <2>1. 2 \in Nat /\ 2 <= Len(w)
    BY <1>1
  <2>2. /\ SubSeq(w, 2 + 1, Len(w)) \in Seq(Frames)
        /\ Len(SubSeq(w, 2 + 1, Len(w))) = Len(w) - 2
        /\ \A i \in 1..(Len(w) - 2) : SubSeq(w, 2 + 1, Len(w))[i] = w[i + 2]
    BY <1>1, <2>1, RestOf
  <2>3. 2 + 1 = 3
    OBVIOUS
  <2> QED  BY <2>2, <2>3
<1>4. more = front \o rest
  BY DEF Swapped
<1> HIDE DEF front, rest, k, more
<1>5. /\ more \in Seq(Frames) /\ Len(more) = k + l
      /\ \A n \in 1..k : more[n] \in {w[1], w[2]}
      /\ \A n \in 1..l : more[k + n] = w[n + 2]
  <2>1. /\ more \in Seq(Frames) /\ Len(more) = Len(front) + Len(rest)
        /\ \A n \in 1..Len(front) : more[n] = front[n]
        /\ \A n \in 1..Len(rest) : more[Len(front) + n] = rest[n]
    BY <1>2, <1>3, <1>4, Joined
  <2> QED  BY <1>2, <1>3, <2>1 DEF k
<1>6. /\ \A n \in 1..Len(w) : OnWire(w[n])
      /\ \A i, j \in 1..Len(w) : i # j /\ IsReference(w[i]) => w[i] # w[j]
  BY DEF Wired
<1>7. /\ ~IsReference(w[1]) /\ ~IsReference(w[2])
  BY DEF IsReference
<1>8. \A n \in 1..Len(more) : \/ more[n] \in {w[1], w[2]}
                              \/ /\ (n - k) + 2 \in 3..Len(w)
                                 /\ more[n] = w[(n - k) + 2]
  <2> SUFFICES ASSUME NEW n \in 1..Len(more)
               PROVE  \/ more[n] \in {w[1], w[2]}
                      \/ (n - k) + 2 \in 3..Len(w) /\ more[n] = w[(n - k) + 2]
    OBVIOUS
  <2>1. CASE n <= k
    BY <1>2, <1>5, <2>1
  <2>2. CASE n > k
    <3>1. n - k \in 1..l /\ k + (n - k) = n /\ (n - k) + 2 \in 3..Len(w)
      BY <1>1, <1>2, <1>5, <2>2
    <3>2. more[k + (n - k)] = w[(n - k) + 2]
      BY <1>5, <3>1
    <3> QED  BY <3>1, <3>2
  <2> QED  BY <1>2, <2>1, <2>2
<1>9. \A n \in 1..Len(more) : OnWire(more[n])
  <2>1. OnWire(w[1]) /\ OnWire(w[2]) /\ \A n \in 3..Len(w) : OnWire(w[n])
    BY <1>1, <1>6
  <2> QED  BY <1>8, <2>1
<1>10. \A i, j \in 1..Len(more) : i # j /\ IsReference(more[i]) => more[i] # more[j]
  <2> SUFFICES ASSUME NEW i \in 1..Len(more), NEW j \in 1..Len(more), i # j,
                      IsReference(more[i])
               PROVE  more[i] # more[j]
    OBVIOUS
  <2>1. (i - k) + 2 \in 3..Len(w) /\ more[i] = w[(i - k) + 2]
    BY <1>7, <1>8
  <2>2. CASE more[j] \in {w[1], w[2]}
    BY <1>7, <2>2
  <2>3. CASE (j - k) + 2 \in 3..Len(w) /\ more[j] = w[(j - k) + 2]
    <3>1. (i - k) + 2 # (j - k) + 2
      BY <1>2, <1>5
    <3>2. (i - k) + 2 \in 1..Len(w) /\ (j - k) + 2 \in 1..Len(w)
      BY <1>1, <2>1, <2>3
    <3> QED  BY <1>6, <2>1, <2>3, <3>1, <3>2
  <2> QED  BY <1>8, <2>2, <2>3
<1>11. \A n \in 1..Len(more) : \E i \in 1..Len(w) : more[n] = w[i]
  <2> SUFFICES ASSUME NEW n \in 1..Len(more) PROVE \E i \in 1..Len(w) : more[n] = w[i]
    OBVIOUS
  <2>1. 1 \in 1..Len(w) /\ 2 \in 1..Len(w)
    BY <1>1
  <2>2. ASSUME (n - k) + 2 \in 3..Len(w), more[n] = w[(n - k) + 2]
        PROVE  \E i \in 1..Len(w) : more[n] = w[i]
    <3>1. (n - k) + 2 \in 1..Len(w)
      BY <1>1, <2>2
    <3> QED  BY <2>2, <3>1
  <2> QED  BY <1>8, <2>1, <2>2
<1> QED  BY <1>5, <1>9, <1>10, <1>11 DEF Wired, Frames, more

\* An event of the product is none of the text.
LEMMA ReportedEvent ==
  ASSUME PageInv, NEW e \in plan.menu
  PROVE  ProductEvent(e) /\ e.kind # "text"
<1>1. ProductEvent(e)
  BY PlansAssumption DEF PageInv
<1> QED  BY <1>1 DEF ProductEvent

\* Nothing is on its way at first.
LEMMA WireInit == StreamInit => WireInv
BY DEF StreamInit, WireInv, Wired

\* Every step keeps what is on the wire the page's, each reference once.
LEMMA WireStep ==
  ASSUME PageInv, WireInv, [StreamNext]_streamVars
  PROVE  WireInv'
<1>1. GoesOn
  BY PageGoesOn
<1>2. PICK w : w = wire
  OBVIOUS
<1>3. Wired(w) /\ Wired(w)' /\ Len(w) \in Nat
  <2>1. Wired(w)
    BY <1>2 DEF WireInv, Wired
  <2> QED  BY <1>1, <2>1, WiredStays DEF Wired
<1>4. ASSUME wire' = w, phase' = "done" => wire = <<>>
      PROVE  WireInv'
  BY <1>2, <1>3, <1>4 DEF WireInv, Wired
<1>5. ASSUME NEW x, wire' = x, Wired(x)', phase' = phase, phase = "done" => wire # <<>>
      PROVE  WireInv'
  <2>1. phase' # "done"
    BY <1>5 DEF WireInv
  <2> QED  BY <1>5, <2>1 DEF WireInv, Wired
<1>6. ASSUME NEW m \in Messages, Write(m) PROVE WireInv'
  BY <1>2, <1>4, <1>6 DEF Write
<1>7. ASSUME NEW m \in Messages, Observe(m) PROVE WireInv'
  <2>1. PICK e : wire' = Append(wire, e) /\ e.kind = "text" /\ Framed(e)'
    BY <1>7, ObserveFrame
  <2>2. OnWire(e)' /\ ~IsReference(e)
    BY <2>1 DEF OnWire, IsReference
  <2>3. Wired(Append(w, e))'
    BY <1>3, <2>2, WiredGrows
  <2>4. phase = "streaming" /\ phase' = phase
    BY <1>7 DEF Observe
  <2> QED  BY <1>2, <1>5, <2>1, <2>3, <2>4
<1>8. ASSUME NEW e \in plan.menu, Report(e) PROVE WireInv'
  <2>1. /\ wire' = Append(wire, e) /\ plan' = plan /\ phase = "streaming" /\ phase' = phase
        /\ IsReference(e) => e \notin Range(page.events)
    BY <1>8 DEF Report, IsReference
  <2>2. ProductEvent(e) /\ e.kind # "text"
    BY ReportedEvent
  <2>3. e \in Range(page'.events)
    <3>1. page'.events = Append(page.events, e) /\ page.events \in Seq(plan.menu)
      BY <1>8, PageReport DEF PageInv, Pages
    <3>2. Len(page.events) + 1 \in DOMAIN page'.events
          /\ page'.events[Len(page.events) + 1] = e
      BY <3>1
    <3> QED  BY <3>2 DEF Range
  <2>4. OnWire(e)'
    BY <2>1, <2>2, <2>3 DEF OnWire, Reported
  <2>5. IsReference(e) => \A n \in 1..Len(w) : w[n] # e
    <3>1. ASSUME NEW n \in 1..Len(w), w[n] = e PROVE e \in Range(page.events)
      <4>1. OnWire(w[n])
        BY <1>3 DEF Wired
      <4> QED  BY <2>2, <3>1, <4>1 DEF OnWire, Reported
    <3> QED  BY <2>1, <3>1
  <2>6. Wired(Append(w, e))'
    BY <1>3, <2>4, <2>5, WiredGrows
  <2> QED  BY <1>2, <1>5, <2>1, <2>6
<1>9. ASSUME wire # <<>>, wire' = Tail(wire), phase' = phase PROVE WireInv'
  <2>1. Wired(Tail(w))
    BY <1>2, <1>3, <1>9, WiredTail
  <2>2. Wired(Tail(w))'
    BY <1>1, <2>1, WiredStays
  <2> QED  BY <1>2, <1>5, <1>9, <2>2
<1>10. CASE Lose
  BY <1>9, <1>10 DEF Lose
<1>11. CASE Deliver
  BY <1>9, <1>11 DEF Deliver
<1>12. ASSUME NEW repeat \in BOOLEAN, Overtake(repeat) PROVE WireInv'
  <2>1. /\ wire' = Swapped(w, repeat) /\ Len(w) > 1 /\ phase' = phase
        /\ w[1].kind = "text" /\ w[2].kind = "text"
    BY <1>2, <1>12 DEF Overtake, Swapped
  <2>2. Wired(Swapped(w, repeat))
    BY <1>3, <2>1, WiredSwapped
  <2>3. Wired(Swapped(w, repeat))'
    BY <1>1, <2>2, WiredStays
  <2>4. wire # <<>>
    BY <1>2, <2>1
  <2> QED  BY <1>5, <2>1, <2>3, <2>4
<1>13. CASE Finalize
  BY <1>2, <1>4, <1>13 DEF Finalize
<1>14. CASE UNCHANGED streamVars
  BY <1>2, <1>4, <1>14 DEF streamVars, WireInv
<1> QED  BY <1>6, <1>7, <1>8, <1>10, <1>11, <1>12, <1>13, <1>14 DEF StreamNext

-----------------------------------------------------------------------------
(* The order of the text frames, the accumulator and the collector *)

\* A text frame at the n-th place of the wire.
IsText(n) == wire[n].kind = "text"

\* Without a fault the text frames on the wire continue what was received.
OrderInv == faults = 0 =>
  /\ \A i, j \in 1..Len(wire) : i < j /\ IsText(i) /\ IsText(j) => wire[i].seq < wire[j].seq
  /\ \A i \in 1..Len(wire) : IsText(i) => wire[i].seq > acc.last
  /\ \A k \in (acc.last + 1)..page.seq : \E i \in 1..Len(wire) : IsText(i) /\ wire[i].seq = k

\* Counters of the accumulator and of the collector: frames received, the last number.
Counted(r) ==
  /\ r.count \in Nat /\ r.last \in Nat /\ r.incomplete \in BOOLEAN
  /\ r.count <= r.last /\ r.last <= page.seq
  /\ r.count = 0 <=> r.last = 0

\* The states of the accumulator.
Accumulators ==
  [text : Seq(Pieces), msg : Messages \cup {None}, last : Nat, count : Nat,
   incomplete : BOOLEAN]

\* The extension saw no text but the answer's.
OnlyAnswer == \A m \in Messages : page.text[m] # <<>> => m = FinalMsg

\* The accumulator holds what the page told, as long as it misses no frame.
AccInv ==
  /\ acc \in Accumulators
  /\ Counted(acc)
  /\ acc.msg = None <=> acc.count = 0
  /\ ~acc.incomplete /\ acc.count > 0 /\ acc.count = acc.last =>
        acc.text = Told(page.log, acc.last)[acc.msg]
  /\ faults = 0 => acc.count = acc.last
  /\ faults = 0 /\ OnlyAnswer => ~acc.incomplete /\ acc.msg \in {None, FinalMsg}

\* The collector holds the text of every message as of a number.
Collected(c, last) ==
  \A m \in Messages : Told(page.log, last)[m] = IF m \in DOMAIN c.msgs THEN c.msgs[m].text
                                                ELSE <<>>

\* The collector has the texts of the messages it knows, as long as it misses no frame.
ColInv ==
  /\ DOMAIN col.msgs \subseteq Messages
  /\ Counted(col)
  /\ col.count = 0 => DOMAIN col.msgs = {}
  /\ ~col.incomplete /\ col.count = col.last => Collected(col, col.last)

\* What a text frame makes of the accumulator.
LEMMA Applied ==
  ASSUME PageInv, AccInv, NEW e, Framed(e), e.seq > acc.last
  PROVE  LET a == Apply(acc, e) IN
         /\ a \in Accumulators /\ Counted(a)
         /\ a.last = e.seq /\ a.count = acc.count + 1 /\ a.msg = e.msg
         /\ ~a.incomplete /\ a.count = a.last => a.text = Told(page.log, a.last)[a.msg]
         /\ ~acc.incomplete /\ e.seq = acc.last + 1 /\ acc.msg \in {None, e.msg} => ~a.incomplete
<1> DEFINE a == Apply(acc, e)
<1>1. /\ e \in TextFrames /\ e.seq \in 1..page.seq /\ page.seq \in Nat /\ acc \in Accumulators
      /\ Counted(acc) /\ acc.last \in Nat /\ acc.count \in Nat /\ e.seq \in Nat /\ e.msg \in Messages
      /\ e.body \in Seq(Pieces) /\ acc.text \in Seq(Pieces) /\ e.msg # None
  BY StreamAssumption DEF Framed, AccInv, TextFrames, PageInv, Pages, Accumulators
<1>2. a = [text |-> IF e.type = "delta" THEN acc.text \o e.body ELSE e.body,
           msg |-> e.msg, last |-> e.seq, count |-> acc.count + 1,
           incomplete |-> acc.incomplete \/ Gap(acc.last, e) \/ acc.msg \notin {None, e.msg}]
  <2>1. ~(e.seq <= acc.last)
    BY <1>1
  <2> QED  BY <2>1 DEF Apply
<1> DEFINE text == IF e.type = "delta" THEN acc.text \o e.body ELSE e.body
           incomplete == acc.incomplete \/ Gap(acc.last, e) \/ acc.msg \notin {None, e.msg}
<1>3. text \in Seq(Pieces) /\ incomplete \in BOOLEAN
  BY <1>1 DEF Accumulators
<1>4. a = [text |-> text, msg |-> e.msg, last |-> e.seq, count |-> acc.count + 1,
           incomplete |-> incomplete]
  BY <1>2
<1>5. /\ ~incomplete => /\ ~acc.incomplete /\ (acc.last = 0 \/ e.seq = acc.last + 1)
                        /\ acc.msg \in {None, e.msg}
      /\ ~acc.incomplete /\ e.seq = acc.last + 1 /\ acc.msg \in {None, e.msg} => ~incomplete
  BY DEF Gap
<1>6. ASSUME ~incomplete, acc.count + 1 = e.seq
      PROVE  text = Told(page.log, e.seq)[e.msg]
  <2>1. e.seq = acc.last + 1 /\ acc.count = acc.last /\ ~acc.incomplete /\ e.seq - 1 = acc.last
    BY <1>1, <1>5, <1>6 DEF Counted
  <2>2. CASE e.type # "delta"
    BY <2>2 DEF Framed
  <2>3. CASE e.type = "delta" /\ acc.count = 0
    <3>1. Told(page.log, e.seq - 1)[e.msg] = <<>>
      BY <1>1, <2>1, <2>3, BlankTexts DEF Told
    <3> QED  BY <2>3, <3>1 DEF Framed
  <2>4. CASE e.type = "delta" /\ acc.count # 0
    <3>1. acc.msg = e.msg /\ acc.count > 0
      BY <1>1, <1>5, <1>6, <2>4 DEF AccInv
    <3>2. acc.text = Told(page.log, e.seq - 1)[e.msg]
      BY <2>1, <3>1 DEF AccInv
    <3> QED  BY <2>4, <3>2 DEF Framed
  <2> QED  BY <2>2, <2>3, <2>4
<1> HIDE DEF text, incomplete, a
<1>7. /\ a.text = text /\ a.msg = e.msg /\ a.last = e.seq /\ a.count = acc.count + 1
      /\ a.incomplete = incomplete
  BY <1>4
<1>8. a \in Accumulators
  BY <1>1, <1>3, <1>4 DEF Accumulators
<1>9. Counted(a)
  BY <1>1, <1>3, <1>7 DEF Counted
<1> QED  BY <1>5, <1>6, <1>7, <1>8, <1>9 DEF a

\* The two kinds of delivery.
Handed(e) ==
  /\ wire # <<>> /\ e = Head(wire) /\ wire' = Tail(wire)
  /\ UNCHANGED <<phase, plan, server, page, faults, verdict>>

HandedText(e) ==
  /\ Handed(e) /\ e.kind = "text"
  /\ acc' = Apply(acc, e) /\ ren' = Render(ren, e) /\ col' = Collect(col, e)
  /\ UNCHANGED <<gate, obs>>

HandedEvent(e) ==
  /\ Handed(e) /\ e.kind # "text"
  /\ gate' = P!Record(gate, e) /\ obs' = P!Consume(obs, e)
  /\ ren' = IF e.kind = "activity" THEN RenderActivity(ren) ELSE ren
  /\ UNCHANGED <<acc, col>>

\* A delivery is one of these.
LEMMA Delivered ==
  ASSUME Deliver
  PROVE  \E e : HandedText(e) \/ HandedEvent(e)
<1> DEFINE e == Head(wire)
<1>1. CASE e.kind = "text"
  BY <1>1 DEF Deliver, HandedText, Handed, product
<1>2. CASE e.kind # "text"
  BY <1>2 DEF Deliver, HandedEvent, Handed, product
<1> QED  BY <1>1, <1>2

\* Every step but a delivery and the last leaves the receivers alone.
LEMMA OtherSteps ==
  ASSUME [StreamNext]_streamVars
  PROVE  \/ Deliver \/ Finalize
         \/ UNCHANGED <<acc, ren, col, gate, obs, verdict>> /\ UNCHANGED phase
<1>1. ASSUME NEW m \in Messages, Write(m) PROVE UNCHANGED <<acc, ren, col, gate, obs, verdict, phase>>
  BY <1>1 DEF Write, receivers
<1>2. ASSUME NEW m \in Messages, Observe(m) PROVE UNCHANGED <<acc, ren, col, gate, obs, verdict, phase>>
  BY <1>2 DEF Observe, receivers
<1>3. ASSUME NEW e \in plan.menu, Report(e) PROVE UNCHANGED <<acc, ren, col, gate, obs, verdict, phase>>
  BY <1>3 DEF Report, receivers
<1>4. CASE Lose
  BY <1>4 DEF Lose, receivers
<1>5. ASSUME NEW repeat \in BOOLEAN, Overtake(repeat)
      PROVE  UNCHANGED <<acc, ren, col, gate, obs, verdict, phase>>
  BY <1>5 DEF Overtake, receivers
<1>6. CASE UNCHANGED streamVars
  BY <1>6 DEF streamVars
<1> QED  BY <1>1, <1>2, <1>3, <1>4, <1>5, <1>6 DEF StreamNext

\* A fault is never undone.
LEMMA FaultsGrow ==
  ASSUME PageInv, [StreamNext]_streamVars
  PROVE  faults' = 0 => faults = 0
<1>1. faults \in Nat
  BY DEF PageInv
<1>2. ASSUME NEW m \in Messages, Write(m) PROVE faults' = faults
  BY <1>2 DEF Write
<1>3. ASSUME NEW m \in Messages, Observe(m) PROVE faults' = faults
  BY <1>3 DEF Observe
<1>4. ASSUME NEW e \in plan.menu, Report(e) PROVE faults' = faults
  BY <1>4 DEF Report
<1>5. CASE Lose
  BY <1>1, <1>5 DEF Lose
<1>6. ASSUME NEW repeat \in BOOLEAN, Overtake(repeat) PROVE faults' = faults + 1
  BY <1>6 DEF Overtake
<1>7. CASE Deliver \/ Finalize \/ UNCHANGED streamVars
  BY <1>7 DEF Deliver, Finalize, streamVars
<1> QED  BY <1>1, <1>2, <1>3, <1>4, <1>5, <1>6, <1>7 DEF StreamNext

\* The accumulator starts with nothing.
LEMMA AccInit == StreamInit => AccInv
<1> SUFFICES ASSUME StreamInit PROVE AccInv
  OBVIOUS
<1>1. /\ acc = [text |-> <<>>, msg |-> None, last |-> 0, count |-> 0, incomplete |-> FALSE]
      /\ page.seq = 0
  BY DEF StreamInit, NewAccumulator
<1> QED  BY <1>1 DEF AccInv, Accumulators, Counted

\* Every step keeps the accumulator what the page told.
LEMMA AccStep ==
  ASSUME PageInv, WireInv, OrderInv, AccInv, [StreamNext]_streamVars
  PROVE  AccInv'
<1>1. GoesOn /\ (faults' = 0 => faults = 0)
  BY PageGoesOn, FaultsGrow
<1>2. OnlyAnswer' => OnlyAnswer
  BY <1>1 DEF GoesOn, Fuller, OnlyAnswer
<1>3. CASE acc' = acc
  <2>1. acc.last \in 0..page.seq /\ page.seq \in Nat /\ page'.seq \in Nat /\ page'.seq >= page.seq
    BY <1>1 DEF GoesOn, AccInv, Counted, PageInv, Pages
  <2>2. Told(page'.log, acc.last) = Told(page.log, acc.last)
    BY <1>1, <2>1 DEF GoesOn
  <2>3. Counted(acc)'
    BY <1>3, <2>1 DEF AccInv, Counted
  <2> QED  BY <1>1, <1>2, <1>3, <2>2, <2>3 DEF AccInv, Accumulators
<1>4. ASSUME NEW e, HandedText(e) PROVE AccInv'
  <2>1. /\ Framed(e) /\ acc' = Apply(acc, e) /\ page' = page /\ faults' = faults
    <3>1. OnWire(e)
      BY <1>4, WiredTail DEF HandedText, Handed, WireInv
    <3> QED  BY <1>4, <3>1 DEF HandedText, Handed, OnWire
  <2>2. CASE e.seq <= acc.last
    <3>1. acc' = acc
      BY <2>1, <2>2 DEF Apply
    <3> QED  BY <1>3, <3>1
  <2>3. CASE e.seq > acc.last
    <3>1. /\ acc' \in Accumulators /\ Counted(acc')
          /\ acc'.last = e.seq /\ acc'.count = acc.count + 1 /\ acc'.msg = e.msg
          /\ ~acc'.incomplete /\ acc'.count = acc'.last =>
                acc'.text = Told(page.log, acc'.last)[acc'.msg]
          /\ ~acc.incomplete /\ e.seq = acc.last + 1 /\ acc.msg \in {None, e.msg}
                => ~acc'.incomplete
      BY <2>1, <2>3, Applied
    <3>2. e.msg \in Messages /\ e.msg # None /\ page.text[e.msg] # <<>> /\ acc.count \in Nat
      BY <2>1, StreamAssumption DEF Framed, TextFrames, AccInv, Counted
    <3>3. faults = 0 => e.seq = acc.last + 1
      <4> SUFFICES ASSUME faults = 0 PROVE e.seq = acc.last + 1
        OBVIOUS
      <4>1. e = wire[1] /\ Len(wire) \in Nat
        BY <1>4, WiredTail DEF HandedText, Handed, WireInv
      <4>2. acc.last + 1 \in (acc.last + 1)..page.seq /\ e.seq \in Nat /\ acc.last \in Nat
        BY <2>1, <2>3 DEF Framed, PageInv, Pages, AccInv, Counted
      <4>3. PICK i \in 1..Len(wire) : IsText(i) /\ wire[i].seq = acc.last + 1
        BY <4>2 DEF OrderInv
      <4>4. i # 1 => e.seq < acc.last + 1
        <5>1. 1 \in 1..Len(wire) /\ (i # 1 => 1 < i) /\ IsText(1)
          BY <1>4, <4>1 DEF IsText, HandedText
        <5> QED  BY <4>1, <4>3, <5>1 DEF OrderInv
      <4> QED  BY <2>3, <4>1, <4>2, <4>3, <4>4
    <3>4. faults = 0 => acc'.count = acc'.last
      BY <3>1, <3>3 DEF AccInv
    <3>5. faults = 0 /\ OnlyAnswer => ~acc'.incomplete /\ acc'.msg \in {None, FinalMsg}
      BY <3>1, <3>2, <3>3 DEF AccInv, OnlyAnswer
    <3>6. acc'.msg # None /\ acc'.count # 0
      BY <3>1, <3>2
    <3> QED  BY <1>2, <2>1, <3>1, <3>4, <3>5, <3>6 DEF AccInv, Counted, Accumulators
  <2>4. e.seq \in Nat /\ acc.last \in Nat
    BY <2>1 DEF Framed, TextFrames, AccInv, Counted
  <2> QED  BY <2>2, <2>3, <2>4
<1>5. ASSUME NEW e, HandedEvent(e) PROVE acc' = acc
  BY <1>5 DEF HandedEvent
<1>6. CASE Finalize
  BY <1>3, <1>6 DEF Finalize
<1> QED  BY <1>3, <1>4, <1>5, <1>6, Delivered, OtherSteps

\* At first there is no frame and no number.
LEMMA OrderInit == StreamInit => OrderInv
BY DEF StreamInit, OrderInv, NewAccumulator

\* Every step without a fault keeps the text frames in their order, and complete.
LEMMA OrderStep ==
  ASSUME PageInv, WireInv, OrderInv, AccInv, [StreamNext]_streamVars
  PROVE  OrderInv'
<1> SUFFICES ASSUME faults' = 0 PROVE OrderInv'
  BY DEF OrderInv
<1>1. faults = 0
  BY FaultsGrow
<1>2. /\ \A i, j \in 1..Len(wire) : i < j /\ IsText(i) /\ IsText(j) => wire[i].seq < wire[j].seq
      /\ \A i \in 1..Len(wire) : IsText(i) => wire[i].seq > acc.last
      /\ \A k \in (acc.last + 1)..page.seq : \E i \in 1..Len(wire) : IsText(i) /\ wire[i].seq = k
  BY <1>1 DEF OrderInv
<1>3. /\ \A i \in 1..Len(wire) : IsText(i) => wire[i].seq \in 1..page.seq
      /\ Len(wire) \in Nat /\ page.seq \in Nat /\ acc.last \in 0..page.seq
      /\ wire \in Seq(TextFrames \cup plan.menu)
  <2>1. page.seq \in Nat /\ acc.last \in 0..page.seq
    BY DEF PageInv, Pages, AccInv, Counted
  <2>2. /\ wire \in Seq(TextFrames \cup plan.menu) /\ \A i \in 1..Len(wire) : OnWire(wire[i])
    BY DEF WireInv, Wired
  <2>3. \A i \in 1..Len(wire) : IsText(i) => wire[i].seq \in 1..page.seq
    BY <2>2 DEF OnWire, Framed, IsText
  <2> QED  BY <2>1, <2>2, <2>3
<1>4. CASE UNCHANGED <<wire, acc, page.seq>>
  BY <1>2, <1>4 DEF OrderInv, IsText
<1>5. ASSUME NEW m \in Messages, Write(m) PROVE UNCHANGED <<wire, acc, page.seq>>
  BY <1>5 DEF Write, receivers, PageInv, Pages
<1>6. ASSUME NEW e, wire' = Append(wire, e), acc' = acc
      PROVE  /\ Len(wire') = Len(wire) + 1 /\ wire'[Len(wire) + 1] = e
             /\ \A n \in 1..Len(wire) : wire'[n] = wire[n]
  BY <1>3, <1>6
<1>7. ASSUME NEW m \in Messages, Observe(m) PROVE OrderInv'
  <2>1. PICK e : wire' = Append(wire, e) /\ e.kind = "text" /\ e.seq = page.seq + 1
    BY <1>7, ObserveFrame
  <2>2. page'.seq = page.seq + 1 /\ acc' = acc
    BY <1>7, PageObserve DEF Observe, receivers
  <2>3. /\ Len(wire') = Len(wire) + 1 /\ wire'[Len(wire) + 1] = e
        /\ \A n \in 1..Len(wire) : wire'[n] = wire[n]
    BY <1>6, <2>1, <2>2
  <2>4. \A i, j \in 1..Len(wire') : i < j /\ IsText(i)' /\ IsText(j)' => wire'[i].seq < wire'[j].seq
    <3> SUFFICES ASSUME NEW i \in 1..Len(wire'), NEW j \in 1..Len(wire'), i < j,
                        IsText(i)', IsText(j)'
                 PROVE  wire'[i].seq < wire'[j].seq
      OBVIOUS
    <3>1. i \in 1..Len(wire) /\ wire'[i] = wire[i] /\ IsText(i)
      BY <1>3, <2>3 DEF IsText
    <3>2. CASE j = Len(wire) + 1
      BY <1>3, <2>1, <2>3, <3>1, <3>2
    <3>3. CASE j \in 1..Len(wire)
      <4>1. IsText(j) /\ wire'[j] = wire[j]
        BY <2>3, <3>3 DEF IsText
      <4> QED  BY <1>2, <3>1, <3>3, <4>1
    <3> QED  BY <1>3, <2>3, <3>2, <3>3
  <2>5. \A i \in 1..Len(wire') : IsText(i)' => wire'[i].seq > acc'.last
    BY <1>2, <1>3, <2>1, <2>2, <2>3 DEF IsText
  <2>6. \A k \in (acc'.last + 1)..page'.seq : \E i \in 1..Len(wire') : IsText(i)' /\ wire'[i].seq = k
    <3> SUFFICES ASSUME NEW k \in (acc'.last + 1)..page'.seq
                 PROVE  \E i \in 1..Len(wire') : IsText(i)' /\ wire'[i].seq = k
      OBVIOUS
    <3>1. CASE k = page.seq + 1
      BY <1>3, <2>1, <2>3, <3>1 DEF IsText
    <3>2. CASE k \in (acc.last + 1)..page.seq
      <4>1. PICK i \in 1..Len(wire) : IsText(i) /\ wire[i].seq = k
        BY <1>2, <3>2
      <4>2. i \in 1..Len(wire') /\ wire'[i] = wire[i]
        BY <1>3, <2>3
      <4> QED  BY <4>1, <4>2 DEF IsText
    <3> QED  BY <1>3, <2>2, <3>1, <3>2
  <2> QED  BY <2>4, <2>5, <2>6 DEF OrderInv
<1>8. ASSUME NEW e \in plan.menu, Report(e) PROVE OrderInv'
  <2>1. wire' = Append(wire, e) /\ acc' = acc /\ e.kind # "text"
    BY <1>8, ReportedEvent DEF Report, receivers
  <2>2. page'.seq = page.seq
    BY <1>8, PageReport
  <2>3. /\ Len(wire') = Len(wire) + 1 /\ wire'[Len(wire) + 1] = e
        /\ \A n \in 1..Len(wire) : wire'[n] = wire[n]
    BY <1>6, <2>1
  <2>4. \A i \in 1..Len(wire') : IsText(i)' => i \in 1..Len(wire) /\ IsText(i) /\ wire'[i] = wire[i]
    BY <1>3, <2>1, <2>3 DEF IsText
  <2>5. \A i \in 1..Len(wire) : IsText(i) => i \in 1..Len(wire') /\ IsText(i)' /\ wire'[i] = wire[i]
    BY <1>3, <2>3 DEF IsText
  <2>6. \A i, j \in 1..Len(wire') : i < j /\ IsText(i)' /\ IsText(j)' => wire'[i].seq < wire'[j].seq
    BY <1>2, <2>4
  <2>7. \A i \in 1..Len(wire') : IsText(i)' => wire'[i].seq > acc'.last
    BY <1>2, <2>1, <2>4
  <2>8. \A k \in (acc'.last + 1)..page'.seq : \E i \in 1..Len(wire') : IsText(i)' /\ wire'[i].seq = k
    BY <1>2, <2>1, <2>2, <2>5
  <2> QED  BY <2>6, <2>7, <2>8 DEF OrderInv
<1>9. ASSUME NEW e, Handed(e), IF e.kind = "text" THEN acc' = Apply(acc, e) ELSE acc' = acc
      PROVE  OrderInv'
  <2>1. /\ page' = page /\ e = wire[1] /\ Len(wire) > 0 /\ Len(wire') = Len(wire) - 1
        /\ \A n \in 1..(Len(wire) - 1) : wire'[n] = wire[n + 1]
        /\ OnWire(e)
    BY <1>9, WiredTail DEF Handed, WireInv
  <2>2. \A i \in 1..Len(wire') : /\ i + 1 \in 1..Len(wire) /\ wire'[i] = wire[i + 1]
                                 /\ IsText(i)' => IsText(i + 1)
    BY <1>3, <2>1 DEF IsText
  <2>3. \A i, j \in 1..Len(wire') : i < j /\ IsText(i)' /\ IsText(j)' => wire'[i].seq < wire'[j].seq
    <3> SUFFICES ASSUME NEW i \in 1..Len(wire'), NEW j \in 1..Len(wire'), i < j,
                        IsText(i)', IsText(j)'
                 PROVE  wire'[i].seq < wire'[j].seq
      OBVIOUS
    <3>1. /\ i + 1 \in 1..Len(wire) /\ wire'[i] = wire[i + 1] /\ IsText(i + 1)
          /\ j + 1 \in 1..Len(wire) /\ wire'[j] = wire[j + 1] /\ IsText(j + 1)
      BY <2>2
    <3>2. i + 1 < j + 1
      BY <1>3, <2>1
    <3> QED  BY <1>2, <3>1, <3>2
  <2>4. CASE e.kind # "text"
    <3>1. acc' = acc /\ ~IsText(1)
      BY <1>9, <2>1, <2>4 DEF IsText
    <3>2. \A i \in 1..Len(wire') : IsText(i)' => wire'[i].seq > acc'.last
      BY <1>2, <2>2, <3>1
    <3>3. \A k \in (acc'.last + 1)..page'.seq : \E i \in 1..Len(wire') : IsText(i)' /\ wire'[i].seq = k
      <4> SUFFICES ASSUME NEW k \in (acc.last + 1)..page.seq
                   PROVE  \E i \in 1..Len(wire') : IsText(i)' /\ wire'[i].seq = k
        BY <2>1, <3>1
      <4>1. PICK i \in 1..Len(wire) : IsText(i) /\ wire[i].seq = k
        BY <1>2
      <4>2. i # 1 /\ i - 1 \in 1..Len(wire') /\ wire'[i - 1] = wire[i]
        BY <1>3, <2>1, <3>1, <4>1
      <4> QED  BY <4>1, <4>2 DEF IsText
    <3> QED  BY <2>3, <3>2, <3>3 DEF OrderInv
  <2>5. CASE e.kind = "text"
    <3>1. IsText(1) /\ 1 \in 1..Len(wire) /\ e.seq > acc.last /\ Framed(e) /\ e.seq \in 1..page.seq
      <4>1. IsText(1) /\ 1 \in 1..Len(wire) /\ Framed(e)
        BY <1>3, <2>1, <2>5 DEF IsText, OnWire
      <4> QED  BY <1>2, <2>1, <4>1 DEF Framed
    <3>2. acc'.last = e.seq
      BY <1>9, <2>5, <3>1, Applied
    <3>3. \A i \in 1..Len(wire') : IsText(i)' => wire'[i].seq > acc'.last
      <4> SUFFICES ASSUME NEW i \in 1..Len(wire'), IsText(i)' PROVE wire'[i].seq > e.seq
        BY <3>2
      <4>1. i + 1 \in 1..Len(wire) /\ 1 < i + 1 /\ IsText(i + 1) /\ wire'[i] = wire[i + 1]
        BY <1>3, <2>2
      <4>2. \A n \in 1..Len(wire) : 1 < n /\ IsText(1) /\ IsText(n) => wire[1].seq < wire[n].seq
        BY <1>2, <3>1
      <4>3. wire[1].seq < wire[i + 1].seq
        BY <3>1, <4>1, <4>2
      <4> QED  BY <2>1, <4>1, <4>3
    <3>4. \A k \in (acc'.last + 1)..page'.seq : \E i \in 1..Len(wire') : IsText(i)' /\ wire'[i].seq = k
      <4> SUFFICES ASSUME NEW k \in (e.seq + 1)..page.seq
                   PROVE  \E i \in 1..Len(wire') : IsText(i)' /\ wire'[i].seq = k
        BY <2>1, <3>2
      <4>1. k \in (acc.last + 1)..page.seq /\ k # e.seq
        BY <1>3, <3>1
      <4>2. PICK i \in 1..Len(wire) : IsText(i) /\ wire[i].seq = k
        BY <1>2, <4>1
      <4>3. i # 1 /\ i - 1 \in 1..Len(wire') /\ wire'[i - 1] = wire[i]
        BY <1>3, <2>1, <4>1, <4>2
      <4> QED  BY <4>2, <4>3 DEF IsText
    <3> QED  BY <2>3, <3>3, <3>4 DEF OrderInv
  <2> QED  BY <2>4, <2>5
<1>10. CASE Deliver
  <2>1. PICK e : HandedText(e) \/ HandedEvent(e)
    BY <1>10, Delivered
  <2> QED  BY <1>9, <2>1 DEF HandedText, HandedEvent
<1>11. CASE Lose \/ \E repeat \in BOOLEAN : Overtake(repeat)
  <2>1. faults \in Nat /\ faults' = faults + 1
    BY <1>11 DEF PageInv, Lose, Overtake
  <2> QED  BY <2>1
<1>12. CASE Finalize
  <2>1. UNCHANGED <<wire, acc, page>>
    BY <1>12 DEF Finalize, product
  <2> QED  BY <1>4, <2>1
<1>13. CASE UNCHANGED streamVars
  BY <1>4, <1>13 DEF streamVars
<1> QED  BY <1>4, <1>5, <1>7, <1>8, <1>10, <1>11, <1>12, <1>13 DEF StreamNext

-----------------------------------------------------------------------------
(* The collector, the verdict and the invariant *)

\* The collector starts with nothing.
LEMMA ColInit == StreamInit => ColInv
<1> SUFFICES ASSUME StreamInit PROVE ColInv
  OBVIOUS
<1>1. /\ col = [msgs |-> [m \in {} |-> None], order |-> <<>>, last |-> 0, count |-> 0,
                incomplete |-> FALSE]
      /\ page.seq = 0 /\ page.log = <<>>
  BY DEF StreamInit, NewCollector
<1>2. DOMAIN col.msgs = {} /\ col.last = 0 /\ col.count = 0 /\ col.incomplete = FALSE
  BY <1>1
<1>3. Collected(col, 0)
  BY <1>2, BlankTexts DEF Collected, Told
<1> QED  BY <1>1, <1>2, <1>3 DEF ColInv, Counted

\* What a text frame makes of the collector.
LEMMA CollectedFrame ==
  ASSUME PageInv, ColInv, NEW e, Framed(e), e.seq > col.last,
         NEW c, c = Collect(col, e)
  PROVE  /\ DOMAIN c.msgs \subseteq Messages /\ Counted(c) /\ c.count # 0
         /\ ~c.incomplete /\ c.count = c.last => Collected(c, c.last)
<1> DEFINE known == e.msg \in DOMAIN col.msgs
           before == IF known THEN col.msgs[e.msg] ELSE [channel |-> None, text |-> <<>>]
           after == [channel |-> IF e.channel = None THEN before.channel ELSE e.channel,
                     text |-> IF e.type = "delta" THEN before.text \o e.body ELSE e.body]
           incomplete == \/ col.incomplete
                         \/ Gap(col.last, e)
                         \/ /\ e.channel # None
                            /\ before.channel \notin {None, e.channel}
           order == IF known THEN col.order ELSE Append(col.order, e.msg)
           msgs == [m \in DOMAIN col.msgs \cup {e.msg} |-> IF m = e.msg THEN after ELSE col.msgs[m]]
<1>1. /\ e.seq \in 1..page.seq /\ page.seq \in Nat /\ col.last \in Nat /\ col.count \in Nat
      /\ e.seq \in Nat /\ e.msg \in Messages /\ Counted(col) /\ DOMAIN col.msgs \subseteq Messages
      /\ col.incomplete \in BOOLEAN
  BY DEF Framed, TextFrames, PageInv, Pages, ColInv, Counted
<1>2. c = [msgs |-> msgs, order |-> order, last |-> e.seq, count |-> col.count + 1,
           incomplete |-> incomplete]
  <2>1. ~(e.seq <= col.last)
    BY <1>1
  <2> QED  BY <2>1 DEF Collect
<1>3. after.text = IF e.type = "delta" THEN before.text \o e.body ELSE e.body
  OBVIOUS
<1>4. incomplete \in BOOLEAN
  BY <1>1
<1>5. ~incomplete => ~col.incomplete /\ (col.last = 0 \/ e.seq = col.last + 1)
  BY DEF Gap
<1>6. before.text = IF known THEN col.msgs[e.msg].text ELSE <<>>
  OBVIOUS
<1> HIDE DEF before, after, incomplete, order
<1>7. /\ DOMAIN msgs = DOMAIN col.msgs \cup {e.msg} /\ msgs[e.msg] = after
      /\ \A m \in DOMAIN col.msgs \ {e.msg} : msgs[m] = col.msgs[m]
  OBVIOUS
<1> HIDE DEF msgs, known
<1>8. c.msgs = msgs /\ c.last = e.seq /\ c.count = col.count + 1 /\ c.incomplete = incomplete
  BY <1>2
<1>9. ASSUME ~incomplete, col.count + 1 = e.seq PROVE Collected(c, e.seq)
  <2>1. e.seq = col.last + 1 /\ col.count = col.last /\ ~col.incomplete /\ e.seq - 1 = col.last
    BY <1>1, <1>5, <1>9 DEF Counted
  <2>2. Collected(col, e.seq - 1)
    BY <2>1 DEF ColInv
  <2>3. before.text = Told(page.log, e.seq - 1)[e.msg]
    BY <1>1, <1>6, <2>2 DEF Collected, known
  <2>4. after.text = Told(page.log, e.seq)[e.msg]
    <3>1. CASE e.type = "delta"
      BY <1>3, <2>3, <3>1 DEF Framed
    <3>2. CASE e.type # "delta"
      BY <1>3, <3>2 DEF Framed
    <3> QED  BY <3>1, <3>2
  <2> SUFFICES ASSUME NEW m \in Messages
               PROVE  Told(page.log, e.seq)[m] = IF m \in DOMAIN c.msgs THEN c.msgs[m].text ELSE <<>>
    BY DEF Collected
  <2>5. CASE m = e.msg
    BY <1>7, <1>8, <2>4, <2>5
  <2>6. CASE m # e.msg
    <3>1. Told(page.log, e.seq)[m] = Told(page.log, e.seq - 1)[m]
      BY <2>6 DEF Framed
    <3>2. m \in DOMAIN c.msgs <=> m \in DOMAIN col.msgs
      BY <1>7, <1>8, <2>6
    <3>3. m \in DOMAIN col.msgs => c.msgs[m] = col.msgs[m]
      BY <1>7, <1>8, <2>6
    <3> QED  BY <2>2, <3>1, <3>2, <3>3 DEF Collected
  <2> QED  BY <2>5, <2>6
<1>10. Counted(c)
  BY <1>1, <1>4, <1>8 DEF Counted
<1>11. DOMAIN c.msgs \subseteq Messages /\ c.count # 0
  BY <1>1, <1>7, <1>8
<1> QED  BY <1>8, <1>9, <1>10, <1>11

\* Every step keeps the collector what the page told.
LEMMA ColStep ==
  ASSUME PageInv, WireInv, ColInv, [StreamNext]_streamVars
  PROVE  ColInv'
<1>1. GoesOn
  BY PageGoesOn
<1>2. CASE col' = col
  <2>1. col.last \in 0..page.seq /\ page.seq \in Nat /\ page'.seq \in Nat /\ page'.seq >= page.seq
    BY <1>1 DEF GoesOn, ColInv, Counted, PageInv, Pages
  <2>2. Told(page'.log, col.last) = Told(page.log, col.last)
    BY <1>1, <2>1 DEF GoesOn
  <2>3. Counted(col)'
    BY <1>2, <2>1 DEF ColInv, Counted
  <2> QED  BY <1>2, <2>2, <2>3 DEF ColInv, Collected
<1>3. ASSUME NEW e, HandedText(e) PROVE ColInv'
  <2>1. /\ Framed(e) /\ col' = Collect(col, e) /\ page' = page
    <3>1. OnWire(e)
      BY <1>3, WiredTail DEF HandedText, Handed, WireInv
    <3> QED  BY <1>3, <3>1 DEF HandedText, Handed, OnWire
  <2>2. CASE e.seq <= col.last
    <3>1. col' = col
      BY <2>1, <2>2 DEF Collect
    <3> QED  BY <1>2, <3>1
  <2>3. CASE e.seq > col.last
    <3>1. PICK c : c = col'
      OBVIOUS
    <3>2. /\ DOMAIN c.msgs \subseteq Messages /\ Counted(c) /\ c.count # 0
          /\ ~c.incomplete /\ c.count = c.last => Collected(c, c.last)
      BY <2>1, <2>3, <3>1, CollectedFrame
    <3> QED  BY <2>1, <3>1, <3>2 DEF ColInv, Counted, Collected
  <2>4. e.seq \in Nat /\ col.last \in Nat
    BY <2>1 DEF Framed, TextFrames, ColInv, Counted
  <2> QED  BY <2>2, <2>3, <2>4
<1>4. ASSUME NEW e, HandedEvent(e) PROVE col' = col
  BY <1>4 DEF HandedEvent
<1>5. CASE Finalize
  BY <1>2, <1>5 DEF Finalize
<1> QED  BY <1>2, <1>3, <1>4, <1>5, Delivered, OtherSteps

\* The verdict of a turn that streamed the answer alone and lost no frame.
Verdict(text, canonical) ==
  IF canonical = text THEN "EXACT_MATCH"
  ELSE IF IsPrefix(text, canonical) THEN "CANONICAL_EXTENDS_STREAM"
  ELSE "STREAM_REVISED_BY_CANONICAL"

VerdictInv ==
  phase = "done" /\ faults = 0 /\ OnlyAnswer /\ page.text[FinalMsg] # <<>> =>
    verdict = Verdict(page.text[FinalMsg], server[FinalMsg])

\* The last step reports that verdict.
LEMMA VerdictStep ==
  ASSUME PageInv, WireInv, OrderInv, AccInv, VerdictInv, [StreamNext]_streamVars
  PROVE  VerdictInv'
<1>1. CASE Finalize
  <2> SUFFICES ASSUME faults = 0, OnlyAnswer, page.text[FinalMsg] # <<>>
               PROVE  verdict' = Verdict(page.text[FinalMsg], server[FinalMsg])
    BY <1>1 DEF Finalize, product, VerdictInv, OnlyAnswer
  <2>1. wire = <<>> /\ verdict' = Reconcile(acc, server[FinalMsg])
    BY <1>1 DEF Finalize
  <2>2. acc.last \in Nat /\ page.seq \in Nat /\ acc.last <= page.seq /\ acc.count = acc.last
        /\ ~acc.incomplete /\ acc.msg \in {None, FinalMsg}
    BY DEF AccInv, Counted, PageInv, Pages
  <2>3. acc.last = page.seq
    <3> SUFFICES ASSUME acc.last < page.seq PROVE FALSE
      BY <2>2
    <3>1. page.seq \in (acc.last + 1)..page.seq /\ Len(wire) = 0
      BY <2>1, <2>2
    <3> QED  BY <3>1 DEF OrderInv
  <2>4. page.seq # 0
    BY StreamAssumption, BlankTexts DEF PageInv, Told
  <2>5. acc.count > 0 /\ acc.msg = FinalMsg /\ acc.text = page.text[FinalMsg]
    BY <2>2, <2>3, <2>4 DEF AccInv, PageInv
  <2>6. Reconcile(acc, server[FinalMsg]) = Verdict(acc.text, server[FinalMsg])
    <3>1. acc.count # 0
      BY <2>5, <2>2
    <3>2. CASE acc.text = server[FinalMsg]
      BY <3>1, <3>2, Zenon DEF Reconcile, Verdict
    <3>3. CASE acc.text # server[FinalMsg]
      BY <2>2, <3>1, <3>3, Zenon DEF Reconcile, Verdict
    <3> QED  BY <3>2, <3>3
  <2> QED  BY <2>1, <2>5, <2>6
<1>2. CASE ~Finalize /\ phase # "done"
  <2>1. phase' # "done"
    <3>1. CASE Deliver
      BY <1>2, <3>1 DEF Deliver
    <3> QED  BY <1>2, <3>1, OtherSteps
  <2> QED  BY <2>1 DEF VerdictInv
<1>3. CASE ~Finalize /\ phase = "done"
  <2>1. wire = <<>>
    BY <1>3 DEF WireInv
  <2>2. UNCHANGED streamVars
    BY <1>3, <2>1 DEF StreamNext, Write, Observe, Report, Lose, Overtake, Deliver
  <2> QED  BY <2>2 DEF streamVars, VerdictInv, OnlyAnswer
<1> QED  BY <1>1, <1>2, <1>3

\* The inductive invariant: what is true of the page, the wire, the order of the
\* frames, the accumulator, the collector and the verdict.
TurnInv == PageInv /\ WireInv /\ OrderInv /\ AccInv /\ ColInv /\ VerdictInv

\* It holds of every behaviour.
LEMMA TurnInvariant == StreamSpec => []TurnInv
<1>1. StreamInit => TurnInv
  <2>1. StreamInit => VerdictInv
    BY DEF StreamInit, VerdictInv
  <2> QED  BY <2>1, PageInit, WireInit, OrderInit, AccInit, ColInit DEF TurnInv
<1>2. TurnInv /\ [StreamNext]_streamVars => TurnInv'
  <2> SUFFICES ASSUME TurnInv, [StreamNext]_streamVars PROVE TurnInv'
    OBVIOUS
  <2> USE DEF TurnInv
  <2>1. PageInv'
    BY PageGoesOn DEF GoesOn
  <2>2. WireInv'
    BY WireStep
  <2>3. OrderInv'
    BY OrderStep
  <2>4. AccInv'
    BY AccStep
  <2>5. ColInv'
    BY ColStep
  <2>6. VerdictInv'
    BY VerdictStep
  <2> QED  BY <2>1, <2>2, <2>3, <2>4, <2>5, <2>6
<1> QED  BY <1>1, <1>2, PTL DEF StreamSpec

\* Provisional text is what the product wrote: as long as no frame is missing, the
\* accumulator and the collector hold what the page sent, and a turn that streamed
\* the answer alone without a fault is reconciled for what it is (apply, reconcile,
\* TemporaryFinalTextCollector), for any messages, turns, wire and number of faults.
THEOREM ProvisionalIsSentHolds == StreamSpec => []ProvisionalIsSent
<1>1. TurnInv => ProvisionalIsSent
  <2> SUFFICES ASSUME TurnInv PROVE ProvisionalIsSent
    OBVIOUS
  <2> USE DEF TurnInv
  <2>1. ASSUME ~acc.incomplete, acc.count > 0, acc.count = acc.last
        PROVE  acc.text = page.log[acc.last][acc.msg]
    BY <2>1 DEF AccInv, Counted, Told
  <2>2. ASSUME ~col.incomplete, col.count > 0, col.count = col.last, NEW m \in DOMAIN col.msgs
        PROVE  col.msgs[m].text = page.log[col.last][m]
    BY <2>2 DEF ColInv, Counted, Collected, Told
  <2>3. ASSUME phase = "done", faults = 0, {m \in Messages : page.text[m] # <<>>} = {FinalMsg}
        PROVE  CASE server[FinalMsg] = page.text[FinalMsg] -> verdict = "EXACT_MATCH"
                 [] server[FinalMsg] # page.text[FinalMsg]
                      -> verdict = IF IsPrefix(page.text[FinalMsg], server[FinalMsg])
                                   THEN "CANONICAL_EXTENDS_STREAM"
                                   ELSE "STREAM_REVISED_BY_CANONICAL"
    <3>1. OnlyAnswer /\ page.text[FinalMsg] # <<>>
      BY <2>3 DEF OnlyAnswer
    <3>2. verdict = Verdict(page.text[FinalMsg], server[FinalMsg])
      BY <2>3, <3>1 DEF VerdictInv
    <3>3. CASE server[FinalMsg] = page.text[FinalMsg]
      BY <3>2, <3>3, Zenon DEF Verdict
    <3>4. CASE server[FinalMsg] # page.text[FinalMsg]
      BY <3>2, <3>4, Zenon DEF Verdict
    <3> QED  BY <3>3, <3>4
  <2> QED  BY <2>1, <2>2, <2>3, Zenon DEF ProvisionalIsSent
<1> QED  BY <1>1, TurnInvariant, PTL

-----------------------------------------------------------------------------
(* The renderer *)

\* The states of the renderer.
Renderers ==
  [finalOnly : BOOLEAN, acc : Accumulators, shown : Seq(Pieces), out : Seq(Items),
   activity : BOOLEAN, suppressed : SUBSET Messages, active : Messages \cup {None},
   finished : BOOLEAN]

\* No piece of commentary.
CleanItem(x) == x \in {Label, ActivityLine} \/ plan.mark[x[1]] # "commentary"
Clean(s) == \A n \in 1..Len(s) : CleanItem(s[n])

\* What the renderer has shown stands on the screen, without commentary if it was
\* asked for the answer only.
Rendered(r) ==
  /\ r \in Renderers
  /\ AnswerOnScreen(r) = r.shown
  /\ r.finalOnly => Clean(r.out) /\ Clean(r.acc.text)

RenInv ==
  /\ Rendered(ren)
  /\ ren.finished => phase = "done" /\ ren.shown = server[FinalMsg]

\* Clean outputs joined are clean.
LEMMA CleanJoined ==
  ASSUME NEW s \in Seq(Items), NEW t \in Seq(Items), Clean(s), Clean(t)
  PROVE  s \o t \in Seq(Items) /\ Clean(s \o t)
<1>1. /\ s \o t \in Seq(Items) /\ Len(s \o t) = Len(s) + Len(t)
      /\ \A n \in 1..Len(s) : (s \o t)[n] = s[n]
      /\ \A n \in 1..Len(t) : (s \o t)[Len(s) + n] = t[n]
  BY Joined
<1> DEFINE more == s \o t
<1>2. Len(s) \in Nat /\ Len(t) \in Nat
  OBVIOUS
<1> SUFFICES ASSUME NEW n \in 1..Len(more) PROVE CleanItem(more[n])
  BY <1>1 DEF Clean
<1>3. CASE n <= Len(s)
  <2>1. n \in 1..Len(s) /\ more[n] = s[n]
    BY <1>1, <1>2, <1>3
  <2> QED  BY <2>1 DEF Clean
<1>4. CASE n > Len(s)
  <2>1. n - Len(s) \in 1..Len(t) /\ Len(s) + (n - Len(s)) = n
    BY <1>1, <1>2, <1>4
  <2>2. more[Len(s) + (n - Len(s))] = t[n - Len(s)]
    BY <1>1, <2>1
  <2>3. more[n] = t[n - Len(s)]
    BY <2>1, <2>2
  <2> QED  BY <2>1, <2>3 DEF Clean
<1> QED  BY <1>1, <1>2, <1>3, <1>4

\* A text may be shown.
LEMMA PiecesAreItems == \A t \in Seq(Pieces) : t \in Seq(Items)
BY DEF Items

\* The text of a message not marked as commentary is clean.
LEMMA CleanText ==
  ASSUME PageInv, NEW m \in Messages, NEW t \in Texts(m), plan.mark[m] # "commentary"
  PROVE  Clean(t)
<1>1. t \in Seq(Pieces) /\ \A n \in DOMAIN t : t[n][1] = m
  BY TextsOf
<1>2. DOMAIN t = 1..Len(t)
  BY <1>1
<1> QED  BY <1>1, <1>2 DEF Clean, CleanItem

\* The same items, the same answer.
LEMMA SameScreen ==
  ASSUME NEW r, NEW q, q.out = r.out
  PROVE  AnswerOnScreen(q) = AnswerOnScreen(r)
BY DEF AnswerOnScreen

\* _replace leaves the text on the screen, and shows nothing else that is new.
LEMMA Replaced ==
  ASSUME NEW r \in Renderers, AnswerOnScreen(r) = r.shown, NEW text \in Seq(Pieces),
         NEW q, q = Replace(r, text)
  PROVE  /\ q \in Renderers /\ AnswerOnScreen(q) = text /\ q.shown = text
         /\ q.finalOnly = r.finalOnly /\ q.acc = r.acc /\ q.finished = r.finished
         /\ Clean(r.out) /\ Clean(text) => Clean(q.out)
<1> DEFINE rest == SubSeq(text, Len(r.shown) + 1, Len(text))
           out == CASE text = r.shown -> r.out
                    [] text # r.shown /\ IsPrefix(r.shown, text) -> r.out \o rest
                    [] ~IsPrefix(r.shown, text) -> Append(r.out, Label) \o text
<1>1. q = [r EXCEPT !.shown = text, !.out = out]
  BY DEF Replace
<1>2. r.shown \in Seq(Pieces) /\ r.out \in Seq(Items) /\ text \in Seq(Items)
  BY PiecesAreItems DEF Renderers
<1>3. q.out = out /\ q.shown = text /\ q.finalOnly = r.finalOnly /\ q.acc = r.acc
      /\ q.finished = r.finished
  <2> HIDE DEF out
  <2> QED  BY <1>1 DEF Renderers
<1>4. out \in Seq(Items) => q \in Renderers
  <2> HIDE DEF out
  <2> QED  BY <1>1 DEF Renderers
<1>5. CASE text = r.shown
  <2>1. IsPrefix(r.shown, text)
    BY <1>2, <1>5 DEF IsPrefix
  <2>2. out = r.out
    BY <1>5, <2>1, Zenon
  <2> HIDE DEF out
  <2> QED  BY <1>2, <1>3, <1>4, <1>5, <2>2, SameScreen
<1>6. CASE text # r.shown /\ IsPrefix(r.shown, text)
  <2>1. out = r.out \o rest
    BY <1>6, Zenon
  <2>2. text = r.shown \o rest
    BY <1>2, <1>6, PrefixAndRest
  <2>3. rest \in Seq(Pieces) /\ rest \in Seq(Items)
    <3>1. Len(r.shown) \in Nat
      BY <1>2
    <3>2. rest \in Seq(Pieces)
      BY <3>1
    <3> QED  BY <3>2, PiecesAreItems
  <2>4. Clean(text) => Clean(rest)
    <3> SUFFICES ASSUME Clean(text), NEW n \in 1..Len(rest) PROVE CleanItem(rest[n])
      BY DEF Clean
    <3> HIDE DEF rest
    <3>1. /\ Len(text) = Len(r.shown) + Len(rest) /\ Len(r.shown) \in Nat /\ Len(rest) \in Nat
          /\ text[Len(r.shown) + n] = rest[n]
      BY <1>2, <2>2, <2>3, Joined
    <3>2. Len(r.shown) + n \in 1..Len(text)
      BY <3>1
    <3> QED  BY <3>1, <3>2 DEF Clean
  <2> HIDE DEF out, rest
  <2>6. q.out = r.out \o rest
    BY <1>3, <2>1
  <2>5. AnswerOnScreen(q) = text
    <3>1. AnswerOnScreen(r) \in Seq(Pieces) /\ r.out \in Seq(Items)
      BY <1>2
    <3>2. AnswerOnScreen(q) = AnswerOnScreen(r) \o rest
      BY <2>3, <2>6, <3>1, ScreenJoin
    <3> QED  BY <2>2, <3>2
  <2>7. out \in Seq(Items) /\ (Clean(r.out) /\ Clean(text) => Clean(q.out))
    BY <1>2, <2>1, <2>3, <2>4, <2>6, CleanJoined
  <2> QED  BY <1>3, <1>4, <2>5, <2>7
<1>7. CASE ~IsPrefix(r.shown, text)
  <2>1. text # r.shown
    BY <1>2, <1>7 DEF IsPrefix
  <2>2. out = Append(r.out, Label) \o text
    BY <1>7, <2>1, Zenon
  <2> DEFINE p == [r EXCEPT !.out = Append(r.out, Label)]
  <2>3. p.out = Append(r.out, Label)
    BY DEF Renderers
  <2> HIDE DEF out, p
  <2>4. Label \in Items /\ p.out \in Seq(Items)
    BY <1>2, <2>3 DEF Items
  <2>5. AnswerOnScreen(p) = <<>>
    BY <1>2, <2>3, <2>4, ScreenAppend, AfterItem
  <2>6. q.out = p.out \o text /\ <<>> \in Seq(Pieces)
    BY <1>3, <2>2, <2>3
  <2>7. AnswerOnScreen(q) = <<>> \o text
    BY <2>4, <2>5, <2>6, ScreenJoin
  <2>8. <<>> \o text = text
    BY ConcatEmptySeq
  <2>9. Clean(r.out) => Clean(p.out)
    <3>1. Len(r.out) \in Nat /\ Len(p.out) = Len(r.out) + 1 /\ p.out[Len(r.out) + 1] = Label
          /\ \A n \in 1..Len(r.out) : p.out[n] = r.out[n]
      BY <1>2, <2>3
    <3>2. ASSUME Clean(r.out), NEW n \in 1..Len(p.out) PROVE CleanItem(p.out[n])
      <4>1. CASE n \in 1..Len(r.out)
        BY <3>1, <3>2, <4>1 DEF Clean
      <4>2. CASE n = Len(r.out) + 1
        BY <3>1, <4>2 DEF CleanItem
      <4> QED  BY <3>1, <4>1, <4>2
    <3> HIDE DEF p
    <3> QED  BY <3>2 DEF Clean
  <2>10. q.out \in Seq(Items) /\ (Clean(r.out) /\ Clean(text) => Clean(q.out))
    <3>1. q.out \in Seq(Items)
      BY <1>2, <2>4, <2>6
    <3> QED  BY <1>2, <2>4, <2>6, <2>9, <3>1, CleanJoined
  <2> QED  BY <1>3, <1>4, <2>7, <2>8, <2>10
<1> QED  BY <1>5, <1>6, <1>7

\* What a frame makes of an accumulator, whatever it held.
LEMMA ApplyTypes ==
  ASSUME NEW a \in Accumulators, NEW e \in TextFrames
  PROVE  /\ Apply(a, e) \in Accumulators
         /\ Apply(a, e).text \in {a.text, e.body, a.text \o e.body}
<1> DEFINE text == IF e.type = "delta" THEN a.text \o e.body ELSE e.body
           incomplete == a.incomplete \/ Gap(a.last, e) \/ a.msg \notin {None, e.msg}
<1>1. /\ a.text \in Seq(Pieces) /\ e.body \in Seq(Pieces) /\ e.seq \in Nat /\ e.msg \in Messages
      /\ a.count \in Nat /\ a.incomplete \in BOOLEAN
  BY DEF Accumulators, TextFrames
<1>2. text \in {e.body, a.text \o e.body} /\ text \in Seq(Pieces) /\ incomplete \in BOOLEAN
  BY <1>1
<1>3. CASE e.seq <= a.last
  BY <1>3 DEF Apply
<1>4. CASE ~(e.seq <= a.last)
  <2>1. Apply(a, e) = [text |-> text, msg |-> e.msg, last |-> e.seq, count |-> a.count + 1,
                       incomplete |-> incomplete]
    BY <1>4 DEF Apply
  <2> HIDE DEF text, incomplete
  <2> QED  BY <1>1, <1>2, <2>1 DEF Accumulators
<1> QED  BY <1>3, <1>4

\* The decision of a final-only renderer touches nothing that is shown, and is not
\* in favour of commentary.
LEMMA Decided ==
  ASSUME NEW r \in Renderers, NEW e \in TextFrames, NEW d, d = FinalOnlyAccepts(r, e)
  PROVE  /\ d.r \in Renderers /\ d.ok \in BOOLEAN
         /\ d.r.finalOnly = r.finalOnly /\ d.r.acc = r.acc /\ d.r.shown = r.shown
         /\ d.r.out = r.out /\ d.r.finished = r.finished
         /\ r.finalOnly /\ d.ok => e.channel # "commentary"
<1> DEFINE Same(p) == /\ p \in Renderers /\ p.finalOnly = r.finalOnly /\ p.acc = r.acc
                      /\ p.shown = r.shown /\ p.out = r.out /\ p.finished = r.finished
<1>1. Same(r)
  OBVIOUS
<1>2. Same(Suppress(r, e.msg)) /\ Same(Activate(r, e.msg))
  BY DEF Renderers, TextFrames, Suppress, Activate
<1>3. e.channel \in {"commentary", "final", None} /\ r.finalOnly \in BOOLEAN
      /\ r.activity \in BOOLEAN
  BY DEF TextFrames, Renderers
<1> HIDE DEF Same
<1> SUFFICES Same(d.r) /\ d.ok \in BOOLEAN /\ (r.finalOnly /\ d.ok => e.channel # "commentary")
  BY DEF Same
<1>4. "commentary" # "final" /\ None # "commentary" /\ None # "final"
  BY StreamAssumption
<1>5. CASE ~r.finalOnly
  <2>1. d = [r |-> r, ok |-> TRUE]
    BY <1>5, Zenon DEF FinalOnlyAccepts
  <2> QED  BY <1>1, <1>5, <2>1
<1>6. CASE r.finalOnly /\ e.channel = "commentary"
  <2>1. d = [r |-> Suppress(r, e.msg), ok |-> FALSE]
    BY <1>4, <1>6, Zenon DEF FinalOnlyAccepts
  <2> QED  BY <1>2, <2>1
<1>7. CASE r.finalOnly /\ e.channel = "final"
  <2>1. d = [r |-> IF r.active = None THEN Activate(r, e.msg) ELSE r,
             ok |-> r.active \in {None, e.msg}]
    BY <1>4, <1>7, Zenon DEF FinalOnlyAccepts
  <2> QED  BY <1>1, <1>2, <1>4, <1>7, <2>1
<1>8. CASE r.finalOnly /\ e.channel = None /\ r.active # None
  <2>1. d = [r |-> r, ok |-> e.msg = r.active]
    BY <1>4, <1>8, Zenon DEF FinalOnlyAccepts
  <2> QED  BY <1>1, <1>4, <1>8, <2>1
<1>9. CASE r.finalOnly /\ e.channel = None /\ r.active = None /\ r.activity
  <2>1. d = IF e.msg \notin r.suppressed THEN [r |-> Activate(r, e.msg), ok |-> TRUE]
            ELSE [r |-> r, ok |-> FALSE]
    BY <1>4, <1>9, Zenon DEF FinalOnlyAccepts
  <2> QED  BY <1>1, <1>2, <1>4, <1>9, <2>1
<1>10. CASE r.finalOnly /\ e.channel = None /\ r.active = None /\ ~r.activity
  <2>1. d = [r |-> Suppress(r, e.msg), ok |-> FALSE]
    BY <1>4, <1>10, Zenon DEF FinalOnlyAccepts
  <2> QED  BY <1>2, <2>1
<1> QED  BY <1>3, <1>5, <1>6, <1>7, <1>8, <1>9, <1>10

\* Nothing is shown at first.
LEMMA RenInit == StreamInit => RenInv
<1> SUFFICES ASSUME StreamInit PROVE RenInv
  OBVIOUS
<1>1. ren = [finalOnly |-> plan.finalOnly,
             acc |-> [text |-> <<>>, msg |-> None, last |-> 0, count |-> 0, incomplete |-> FALSE],
             shown |-> <<>>, out |-> <<>>, activity |-> FALSE, suppressed |-> {},
             active |-> None, finished |-> FALSE]
  BY DEF StreamInit, NewRenderer, NewAccumulator
<1>2. plan.finalOnly \in BOOLEAN
  BY PlansAssumption DEF StreamInit
<1>3. ren \in Renderers
  BY <1>1, <1>2 DEF Renderers, Accumulators
<1>4. ren.out = <<>> /\ ren.shown = <<>> /\ ren.acc.text = <<>> /\ ren.finished = FALSE
  BY <1>1
<1>5. AnswerOnScreen(ren) = <<>>
  <2>1. ren.out \in Seq(Items) /\ Len(ren.out) = 0
    BY <1>4
  <2>2. PICK u : Stands(ren.out, u) /\ AnswerOnScreen(ren) = u[Len(ren.out)]
    BY <2>1, OnScreen
  <2> QED  BY <2>1, <2>2 DEF Stands
<1> QED  BY <1>3, <1>4, <1>5 DEF RenInv, Rendered, Clean

\* A text frame keeps what was shown on the screen (on_text_event, _replace).
LEMMA RenderedText ==
  ASSUME PageInv, NEW r, Rendered(r), NEW e, Framed(e), NEW q, q = Render(r, e)
  PROVE  Rendered(q) /\ q.finished = r.finished
<1>1. e \in TextFrames /\ e.body \in Texts(e.msg) /\ e.channel = plan.mark[e.msg]
      /\ e.msg \in Messages /\ e.body \in Seq(Pieces)
  BY DEF Framed, TextFrames
<1> DEFINE d == FinalOnlyAccepts(r, e)
           a == Apply(d.r.acc, e)
           p == [d.r EXCEPT !.acc = a]
<1> HIDE DEF d
<1>2. /\ d.r \in Renderers /\ d.ok \in BOOLEAN
      /\ d.r.finalOnly = r.finalOnly /\ d.r.acc = r.acc /\ d.r.shown = r.shown
      /\ d.r.out = r.out /\ d.r.finished = r.finished
      /\ r.finalOnly /\ d.ok => e.channel # "commentary"
  BY <1>1, Decided DEF d, Rendered
<1>3. Rendered(d.r)
  BY <1>2, SameScreen DEF Rendered
<1>4. CASE ~d.ok \/ e.seq <= d.r.acc.last
  <2>1. q = d.r
    BY <1>4 DEF Render, d
  <2> QED  BY <1>2, <1>3, <2>1
<1>5. CASE ~(~d.ok \/ e.seq <= d.r.acc.last)
  <2>1. q = Replace(p, a.text)
    BY <1>5 DEF Render, d
  <2>2. a \in Accumulators /\ a.text \in {r.acc.text, e.body, r.acc.text \o e.body}
    <3>1. d.r.acc \in Accumulators
      BY <1>2 DEF Renderers
    <3> QED  BY <1>1, <1>2, <3>1, ApplyTypes
  <2>3. r.finalOnly => Clean(a.text)
    <3> SUFFICES ASSUME r.finalOnly PROVE Clean(a.text)
      OBVIOUS
    <3>1. Clean(e.body)
      BY <1>1, <1>2, <1>5, CleanText
    <3>2. Clean(r.acc.text)
      BY DEF Rendered
    <3>3. r.acc.text \in Seq(Items) /\ e.body \in Seq(Items)
      <4>1. r.acc.text \in Seq(Pieces)
        BY DEF Rendered, Renderers, Accumulators
      <4> QED  BY <1>1, <4>1, PiecesAreItems
    <3>4. Clean(r.acc.text \o e.body)
      BY <3>1, <3>2, <3>3, CleanJoined
    <3> QED  BY <2>2, <3>1, <3>2, <3>4
  <2> HIDE DEF a
  <2>4. /\ p \in Renderers /\ p.finalOnly = r.finalOnly /\ p.acc = a /\ p.shown = r.shown
        /\ p.out = r.out /\ p.finished = r.finished
    BY <1>2, <2>2 DEF Renderers
  <2> HIDE DEF p
  <2>5. AnswerOnScreen(p) = p.shown /\ a.text \in Seq(Pieces)
    BY <2>2, <2>4, SameScreen DEF Rendered, Accumulators
  <2>6. /\ q \in Renderers /\ AnswerOnScreen(q) = a.text /\ q.shown = a.text
        /\ q.finalOnly = p.finalOnly /\ q.acc = p.acc /\ q.finished = p.finished
        /\ Clean(p.out) /\ Clean(a.text) => Clean(q.out)
    BY <2>1, <2>4, <2>5, Replaced
  <2>7. r.finalOnly => Clean(q.out) /\ Clean(q.acc.text)
    BY <2>3, <2>4, <2>6 DEF Rendered
  <2> QED  BY <2>4, <2>6, <2>7 DEF Rendered
<1> QED  BY <1>4, <1>5

\* So does a line of activity (on_activity).
LEMMA RenderedActivity ==
  ASSUME NEW r, Rendered(r), NEW q, q = RenderActivity(r)
  PROVE  Rendered(q) /\ q.finished = r.finished
<1>1. r \in Renderers /\ r.out \in Seq(Items) /\ r.shown \in Seq(Pieces)
  BY DEF Rendered, Renderers
<1>2. CASE r.finalOnly
  <2>1. q = [r EXCEPT !.activity = TRUE]
    BY <1>2 DEF RenderActivity
  <2>2. /\ q \in Renderers /\ q.out = r.out /\ q.shown = r.shown /\ q.acc = r.acc
        /\ q.finalOnly = r.finalOnly /\ q.finished = r.finished
    BY <1>1, <2>1 DEF Renderers
  <2> QED  BY <2>2, SameScreen DEF Rendered
<1>3. CASE ~r.finalOnly /\ q = r
  BY <1>3
<1>4. CASE ~r.finalOnly /\ q = [r EXCEPT !.out = Append(@, ActivityLine)]
  <2> DEFINE out == Append(r.out, ActivityLine)
  <2>1. ActivityLine \in Items
    BY DEF Items
  <2>2. out \in Seq(Items)
    BY <1>1, <2>1
  <2>3. q = [r EXCEPT !.out = out]
    BY <1>4
  <2> HIDE DEF out
  <2>4. /\ q \in Renderers /\ q.out = out /\ q.shown = r.shown
        /\ q.finalOnly = r.finalOnly /\ q.finished = r.finished
    BY <1>1, <2>2, <2>3 DEF Renderers
  <2>5. AnswerOnScreen(q) = StandsAfter(AnswerOnScreen(r), ActivityLine)
    <3>1. q.out = Append(r.out, ActivityLine)
      BY <2>4 DEF out
    <3> QED  BY <1>1, <2>1, <3>1, ScreenAppend
  <2> QED  BY <1>4, <2>4, <2>5, AfterItem DEF Rendered
<1> QED  BY <1>2, <1>3, <1>4 DEF RenderActivity

\* The canonical text is shown when the renderer finishes (finish).
LEMMA RenderedFinal ==
  ASSUME PageInv, NEW r, Rendered(r), ~r.finished, NEW q, q = Finish(r, server[FinalMsg])
  PROVE  Rendered(q) /\ q.shown = server[FinalMsg]
<1> DEFINE text == server[FinalMsg]
           p == Replace(r, text)
<1>1. FinalMsg \in Messages /\ text \in Texts(FinalMsg) /\ plan.mark[FinalMsg] # "commentary"
  BY StreamAssumption, PlansAssumption DEF PageInv, TextMaps
<1>2. text \in Seq(Pieces) /\ Clean(text)
  BY <1>1, TextsOf, CleanText
<1>3. q = [p EXCEPT !.finished = TRUE]
  BY DEF Finish
<1> HIDE DEF text, p
<1>4. r \in Renderers /\ AnswerOnScreen(r) = r.shown /\ p = Replace(r, text)
  BY DEF Rendered, p
<1>5. /\ p \in Renderers /\ AnswerOnScreen(p) = text /\ p.shown = text
      /\ p.finalOnly = r.finalOnly /\ p.acc = r.acc
      /\ Clean(r.out) /\ Clean(text) => Clean(p.out)
  BY <1>2, <1>4, Replaced
<1>6. /\ q \in Renderers /\ q.out = p.out /\ q.shown = p.shown /\ q.acc = p.acc
      /\ q.finalOnly = p.finalOnly
  BY <1>3, <1>5 DEF Renderers
<1>7. AnswerOnScreen(q) = text
  BY <1>5, <1>6, SameScreen
<1> QED  BY <1>2, <1>5, <1>6, <1>7 DEF Rendered, text

\* Every step keeps the screen what the renderer has shown.
LEMMA RenStep ==
  ASSUME PageInv, WireInv, RenInv, [StreamNext]_streamVars
  PROVE  RenInv'
<1>1. plan' = plan
  BY PageGoesOn DEF GoesOn
<1>2. ASSUME NEW r, Rendered(r) PROVE Rendered(r)'
  BY <1>1, <1>2 DEF Rendered, Clean, CleanItem
<1>3. ASSUME NEW q, Rendered(q), ren' = q, phase' = phase, q.finished = ren.finished,
             phase # "done"
      PROVE  RenInv'
  <2>1. Rendered(q)'
    BY <1>2, <1>3
  <2>2. ~q.finished
    BY <1>3 DEF RenInv, Rendered, Renderers
  <2> QED  BY <1>3, <2>1, <2>2 DEF RenInv, Rendered
<1>4. CASE Finalize
  <2>1. ~ren.finished /\ Rendered(ren)
    BY <1>4 DEF Finalize, RenInv, Rendered, Renderers
  <2>2. PICK q : q = Finish(ren, server[FinalMsg])
    OBVIOUS
  <2>3. PICK r : r = ren
    OBVIOUS
  <2>4. Rendered(q) /\ q.shown = server[FinalMsg]
    BY <2>1, <2>2, RenderedFinal
  <2>5. Rendered(q)'
    BY <1>2, <2>4
  <2>6. ren' = q /\ phase' = "done" /\ server' = server
    BY <1>4, <2>2 DEF Finalize, product
  <2> QED  BY <2>4, <2>5, <2>6 DEF RenInv, Rendered
<1>5. CASE Deliver
  <2>0. PICK e : HandedText(e) \/ HandedEvent(e)
    BY <1>5, Delivered
  <2>1. phase' = phase /\ phase # "done" /\ Rendered(ren) /\ OnWire(e)
    BY <2>0, WiredTail DEF HandedText, HandedEvent, Handed, WireInv, RenInv
  <2>2. CASE HandedText(e)
    <3>1. Framed(e) /\ ren' = Render(ren, e)
      BY <2>1, <2>2 DEF HandedText, OnWire
    <3>2. PICK q : q = Render(ren, e)
      OBVIOUS
    <3>3. Rendered(q) /\ q.finished = ren.finished
      BY <2>1, <3>1, <3>2, RenderedText
    <3> QED  BY <1>3, <2>1, <3>1, <3>2, <3>3
  <2>3. CASE HandedEvent(e)
    <3>1. PICK q : q = RenderActivity(ren)
      OBVIOUS
    <3>2. Rendered(q) /\ q.finished = ren.finished
      BY <2>1, <3>1, RenderedActivity
    <3>3. PICK r : r = ren
      OBVIOUS
    <3>4. ren' = q \/ ren' = r
      BY <2>3, <3>1, <3>3 DEF HandedEvent
    <3>5. Rendered(r) /\ r.finished = ren.finished
      BY <2>1, <3>3
    <3> QED  BY <1>3, <2>1, <3>2, <3>4, <3>5
  <2> QED  BY <2>0, <2>2, <2>3
<1>6. CASE UNCHANGED <<ren, phase>>
  <2>1. PICK r : r = ren
    OBVIOUS
  <2>2. Rendered(r)'
    BY <1>2, <2>1 DEF RenInv
  <2>3. phase = "done" => server' = server
    <3> SUFFICES ASSUME phase = "done" PROVE server' = server
      OBVIOUS
    <3>1. wire = <<>>
      BY DEF WireInv
    <3>2. UNCHANGED streamVars
      BY <3>1 DEF StreamNext, Write, Observe, Report, Lose, Overtake, Deliver, Finalize
    <3> QED  BY <3>2 DEF streamVars
  <2> QED  BY <1>6, <2>1, <2>2, <2>3 DEF RenInv, Rendered
<1> QED  BY <1>4, <1>5, <1>6, OtherSteps

\* Whatever was lost, repeated, overtaken or revised, the text that stands on the
\* terminal at the end is the canonical one, and a caller that asked for the answer
\* only is never shown a piece of commentary (RevisionSafeTerminalRenderer.finish,
\* _replace, _final_only_accepts).
THEOREM ScreenShowsCanonicalHolds == StreamSpec => []ScreenShowsCanonical
<1>1. StreamInit => RenInv
  BY RenInit
<1>2. TurnInv /\ RenInv /\ [StreamNext]_streamVars => RenInv'
  BY RenStep DEF TurnInv
<1>3. RenInv => ScreenShowsCanonical
  <2> SUFFICES ASSUME RenInv PROVE ScreenShowsCanonical
    OBVIOUS
  <2>1. ren.finished => AnswerOnScreen(ren) = server[FinalMsg]
    BY DEF RenInv, Rendered
  <2>2. ASSUME ren.finalOnly, NEW n \in DOMAIN ren.out, ren.out[n] \notin {Label, ActivityLine}
        PROVE  plan.mark[ren.out[n][1]] # "commentary"
    <3>1. n \in 1..Len(ren.out)
      BY DEF RenInv, Rendered, Renderers
    <3> QED  BY <2>2, <3>1 DEF RenInv, Rendered, Clean, CleanItem
  <2> QED  BY <2>1, <2>2 DEF ScreenShowsCanonical
<1> QED  BY <1>1, <1>2, <1>3, TurnInvariant, PTL DEF StreamSpec

-----------------------------------------------------------------------------
(* What the observation collector makes of an event *)

\* The observation collector is a record, what it observed a sequence.
Collector(o) ==
  /\ o = [seen |-> o.seen, dropped |-> o.dropped, texts |-> o.texts, urls |-> o.urls,
          identity |-> o.identity, terminal |-> o.terminal]
  /\ o.seen \in Seq(Range(o.seen))

\* q is o after x was observed, or after nothing was, and knows what o knew.
Knows(o, q) == q.urls = o.urls /\ q.identity = o.identity /\ q.terminal = o.terminal
Observes(o, q, x) == q.seen = Append(o.seen, x)

\* An accepted event is observed and changes nothing that is known.
LEMMA Accepted ==
  ASSUME NEW o, Collector(o), NEW e
  PROVE  /\ Collector(P!Accept(o, e)) /\ Knows(o, P!Accept(o, e))
         /\ Observes(o, P!Accept(o, e), e)
<1> DEFINE more == Append(o.seen, e)
<1>1. o.seen \in Seq(Range(o.seen)) /\ more \in Seq(Range(more))
  BY OneMoreElement DEF Collector
<1>2. P!Accept(o, e) = [seen |-> more, dropped |-> o.dropped, texts |-> o.texts, urls |-> o.urls,
                       identity |-> o.identity, terminal |-> o.terminal]
  <2>1. o = [seen |-> o.seen, dropped |-> o.dropped, texts |-> o.texts, urls |-> o.urls,
             identity |-> o.identity, terminal |-> o.terminal]
    BY DEF Collector
  <2>2. P!Accept(o, e) = [o EXCEPT !.seen = more]
    BY DEF P!Accept
  <2> HIDE DEF more
  <2> QED  BY <2>1, <2>2
<1> HIDE DEF more
<1>3. P!Accept(o, e).seen = more /\ P!Accept(o, e).urls = o.urls
  BY <1>2
<1>4. P!Accept(o, e).identity = o.identity /\ P!Accept(o, e).terminal = o.terminal
  BY <1>2
<1>5. P!Accept(o, e).texts = o.texts /\ P!Accept(o, e).dropped = o.dropped
  BY <1>2
<1> QED  BY <1>1, <1>2, <1>3, <1>4, <1>5 DEF Collector, Knows, Observes, more

\* What was collected of the texts matters to nothing else.
LEMMA AcceptedWithTexts ==
  ASSUME NEW o, Collector(o), NEW texts, NEW e, NEW q, q = P!Accept([o EXCEPT !.texts = texts], e)
  PROVE  Collector(q) /\ Knows(o, q) /\ Observes(o, q, e)
<1> DEFINE p == [o EXCEPT !.texts = texts]
<1>1. p = [seen |-> o.seen, dropped |-> o.dropped, texts |-> texts, urls |-> o.urls,
           identity |-> o.identity, terminal |-> o.terminal]
  BY DEF Collector
<1>2. q = P!Accept(p, e)
  OBVIOUS
<1> HIDE DEF p
<1>3. /\ Collector(p) /\ p.seen = o.seen /\ p.urls = o.urls
      /\ p.identity = o.identity /\ p.terminal = o.terminal
  BY <1>1 DEF Collector
<1>4. Collector(q) /\ Knows(p, q) /\ Observes(p, q, e)
  BY <1>2, <1>3, Accepted
<1> QED  BY <1>3, <1>4 DEF Knows, Observes

\* A dropped event is counted, and nothing else.
LEMMA Dropped ==
  ASSUME NEW o, Collector(o)
  PROVE  Collector(P!Drop(o)) /\ Knows(o, P!Drop(o)) /\ P!Drop(o).seen = o.seen
<1>1. P!Drop(o) = [seen |-> o.seen, dropped |-> o.dropped + 1, texts |-> o.texts, urls |-> o.urls,
                   identity |-> o.identity, terminal |-> o.terminal]
  BY DEF P!Drop, Collector
<1> QED  BY <1>1 DEF Collector, Knows

\* A source is observed and its address known, unless it had another (_consume_source).
LEMMA ConsumedSource ==
  ASSUME NEW o, Collector(o), NEW e, e.kind = "source", NEW q, q = P!Consume(o, e)
  PROVE  /\ Collector(q)
         /\ \/ q.seen = o.seen /\ Knows(o, q) /\ e.id \in DOMAIN o.urls /\ o.urls[e.id] # e.url
            \/ /\ Observes(o, q, e) /\ q.identity = o.identity /\ q.terminal = o.terminal
               /\ q.urls = P!Put(o.urls, e.id, e.url)
               /\ e.id \in DOMAIN o.urls => o.urls[e.id] = e.url
<1>1. q = P!ConsumeSource(o, e)
  <2>1. e.kind # "activity" /\ e.kind # "citation" /\ e.kind # "connector" /\ e.kind # "action"
        /\ e.kind # "surface" /\ e.kind # "artifact"
    OBVIOUS
  <2> QED  BY <2>1, Zenon DEF P!Consume
<1>2. CASE P!Lookup(o.urls, e.id, e.url) # e.url
  BY <1>1, <1>2, Dropped DEF P!ConsumeSource, P!Lookup
<1>3. CASE P!Lookup(o.urls, e.id, e.url) = e.url
  <2> DEFINE urls == P!Put(o.urls, e.id, e.url)
             p == [o EXCEPT !.urls = urls]
  <2>1. q = P!Accept(p, e)
    BY <1>1, <1>3 DEF P!ConsumeSource
  <2> HIDE DEF urls
  <2>2. p = [seen |-> o.seen, dropped |-> o.dropped, texts |-> o.texts, urls |-> urls,
             identity |-> o.identity, terminal |-> o.terminal]
    BY DEF Collector
  <2> HIDE DEF p
  <2>3. /\ Collector(p) /\ p.seen = o.seen /\ p.urls = urls
        /\ p.identity = o.identity /\ p.terminal = o.terminal
    BY <2>2 DEF Collector
  <2> QED  BY <1>3, <2>1, <2>3, Accepted DEF Knows, Observes, P!Lookup, urls
<1> QED  BY <1>2, <1>3

\* A citation is observed if its source is known (_consume_citation).
LEMMA ConsumedCitation ==
  ASSUME NEW o, Collector(o), NEW e, e.kind = "citation", NEW q, q = P!Consume(o, e)
  PROVE  /\ Collector(q) /\ Knows(o, q)
         /\ IF e.source \in DOMAIN o.urls THEN Observes(o, q, e) ELSE q.seen = o.seen
<1>1. q = P!ConsumeCitation(o, e)
  <2>1. e.kind # "activity" /\ e.kind # "source" /\ e.kind # "connector" /\ e.kind # "action"
        /\ e.kind # "surface" /\ e.kind # "artifact"
    OBVIOUS
  <2> QED  BY <2>1, Zenon DEF P!Consume
<1> QED  BY <1>1, Accepted, Dropped DEF P!ConsumeCitation

\* An event of a connector activity or a required action, what it names and the key
\* it is correlated by.
Identity(e) == IF e.kind = "connector" THEN <<e.connector, e.operation>>
               ELSE <<e.type, e.activity, e.connector>>
Key(e) == <<e.kind, e.id>>
Has(e) == e.kind \in {"connector", "action"}

\* The collector with what it now knows of a key.
LEMMA Correlated ==
  ASSUME NEW o, Collector(o), NEW i, NEW t
  PROVE  [o EXCEPT !.identity = i, !.terminal = t] =
           [seen |-> o.seen, dropped |-> o.dropped, texts |-> o.texts, urls |-> o.urls,
            identity |-> i, terminal |-> t]
<1> DEFINE p == [o EXCEPT !.identity = i]
<1>1. p = [seen |-> o.seen, dropped |-> o.dropped, texts |-> o.texts, urls |-> o.urls,
           identity |-> i, terminal |-> o.terminal]
  BY DEF Collector
<1>2. [o EXCEPT !.identity = i, !.terminal = t] = [p EXCEPT !.terminal = t]
  BY DEF Collector
<1> HIDE DEF p
<1>3. [p EXCEPT !.terminal = t] =
           [seen |-> o.seen, dropped |-> o.dropped, texts |-> o.texts, urls |-> o.urls,
            identity |-> i, terminal |-> t]
  BY <1>1
<1> QED  BY <1>2, <1>3

\* An event of an activity is observed if it agrees with what is known of its key and
\* follows no other end (_consume_connector, _consume_required_action).
LEMMA ConsumedCorrelated ==
  ASSUME NEW o, Collector(o), NEW e, Has(e), NEW q, q = P!Consume(o, e)
  PROVE  /\ Collector(q) /\ q.urls = o.urls
         /\ \/ q.seen = o.seen /\ Knows(o, q)
            \/ LET known == P!Lookup(o.identity, Key(e), Identity(e)) IN
               /\ Observes(o, q, e)
               /\ P!Compatible(known, Identity(e))
               /\ q.identity = P!Put(o.identity, Key(e), P!Merge(known, Identity(e)))
               /\ q.terminal = IF e.phase \in P!Terminal THEN P!Put(o.terminal, Key(e), e.phase)
                               ELSE o.terminal
               /\ Key(e) \in DOMAIN o.terminal => o.terminal[Key(e)] = e.phase
<1> DEFINE known == P!Lookup(o.identity, Key(e), Identity(e))
           ended == P!Lookup(o.terminal, Key(e), e.phase)
           identity == P!Put(o.identity, Key(e), P!Merge(known, Identity(e)))
           terminal == IF e.phase \in P!Terminal THEN P!Put(o.terminal, Key(e), e.phase)
                       ELSE o.terminal
           p == [o EXCEPT !.identity = identity, !.terminal = terminal]
<1>1. q = P!Correlate(o, Key(e), Identity(e), e)
  <2>1. e.kind # "activity" /\ e.kind # "source" /\ e.kind # "citation"
        /\ e.kind # "surface" /\ e.kind # "artifact"
    BY DEF Has
  <2>2. CASE e.kind = "connector"
    <3>1. e.kind # "action"
      BY <2>2
    <3>2. q = P!ConsumeConnector(o, e)
      BY <2>1, <2>2, <3>1, Zenon DEF P!Consume
    <3> QED  BY <2>2, <3>2 DEF P!ConsumeConnector, Key, Identity
  <2>3. CASE e.kind = "action"
    <3>1. e.kind # "connector"
      BY <2>3
    <3>2. q = P!ConsumeRequiredAction(o, e)
      BY <2>1, <2>3, <3>1, Zenon DEF P!Consume
    <3> QED  BY <2>3, <3>1, <3>2 DEF P!ConsumeRequiredAction, Key, Identity
  <2> QED  BY <2>2, <2>3 DEF Has
<1>2. CASE ~P!Compatible(known, Identity(e)) \/ ended # e.phase
  <2>1. q = P!Drop(o)
    BY <1>1, <1>2 DEF P!Correlate
  <2> QED  BY <2>1, Dropped DEF Knows
<1>3. CASE ~(~P!Compatible(known, Identity(e)) \/ ended # e.phase)
  <2>1. q = P!Accept(p, e)
    BY <1>1, <1>3 DEF P!Correlate
  <2>2. Key(e) \in DOMAIN o.terminal => o.terminal[Key(e)] = e.phase
    BY <1>3 DEF P!Lookup
  <2> HIDE DEF identity, terminal
  <2>3. p = [seen |-> o.seen, dropped |-> o.dropped, texts |-> o.texts, urls |-> o.urls,
             identity |-> identity, terminal |-> terminal]
    BY Correlated
  <2> HIDE DEF p
  <2>4. /\ Collector(p) /\ p.seen = o.seen /\ p.urls = o.urls
        /\ p.identity = identity /\ p.terminal = terminal
    BY <2>3 DEF Collector
  <2>5. Collector(q) /\ Knows(p, q) /\ Observes(p, q, e)
    BY <2>1, <2>4, Accepted
  <2>6. /\ Collector(q) /\ q.urls = o.urls /\ q.identity = identity /\ q.terminal = terminal
        /\ Observes(o, q, e)
    BY <2>4, <2>5 DEF Knows, Observes
  <2> QED  BY <1>3, <2>2, <2>6 DEF identity, terminal
<1> QED  BY <1>2, <1>3

\* The other events: nothing is remembered, and what is observed is of their kind.
LEMMA ConsumedOther ==
  ASSUME NEW o, Collector(o), NEW e, ProductEvent(e), ~Has(e), ~IsReference(e),
         NEW q, q = P!Consume(o, e)
  PROVE  /\ Collector(q) /\ Knows(o, q)
         /\ \/ q.seen = o.seen
            \/ \E x : Observes(o, q, x) /\ ~Has(x) /\ ~IsReference(x)
<1>1. e.kind # "source" /\ e.kind # "citation" /\ e.kind # "connector" /\ e.kind # "action"
      /\ e.kind \in {"activity", "surface", "artifact"}
  BY DEF ProductEvent, Has, IsReference
<1>2. CASE e.kind = "surface"
  <2>1. e.kind # "activity" /\ e.kind # "artifact"
    BY <1>2
  <2>2. q = P!ConsumeSurface(o, e)
    BY <1>1, <1>2, <2>1, Zenon DEF P!Consume
  <2> QED  BY <2>2, Accepted, Dropped DEF P!ConsumeSurface
<1>3. CASE e.kind = "artifact"
  <2>1. e.kind # "activity" /\ e.kind # "surface"
    BY <1>3
  <2>2. q = P!ConsumeArtifact(o, e)
    BY <1>1, <1>3, <2>1, Zenon DEF P!Consume
  <2>3. {e.shape, e.locator, e.malformed} \subseteq BOOLEAN
    BY <1>3, <2>1 DEF ProductEvent
  <2>4. CASE e.shape
    <3>1. q = o
      BY <2>2, <2>4, Zenon DEF P!ConsumeArtifact
    <3> QED  BY <3>1 DEF Knows
  <2>5. CASE ~e.shape /\ (e.locator \/ e.malformed)
    <3>1. q = P!Drop(o)
      BY <2>2, <2>5, Zenon DEF P!ConsumeArtifact
    <3> QED  BY <3>1, Dropped
  <2>6. CASE ~e.shape /\ ~e.locator /\ ~e.malformed
    <3>1. q = P!Accept(o, e)
      BY <2>2, <2>6, Zenon DEF P!ConsumeArtifact
    <3> QED  BY <3>1, Accepted
  <2> QED  BY <2>3, <2>4, <2>5, <2>6
<1>4. CASE e.kind = "activity"
  <2> DEFINE phase_ == IF e.tool /\ e.phase # "updated" THEN "observed" ELSE e.phase
             text == P!Lookup(o.texts, e.id, <<>>)
             new == IF e.delta THEN text \o e.body ELSE e.body
             done == IF e.private THEN P!Put(o.texts, e.id, <<>>) ELSE o.texts
             x(t) == [kind |-> "activity", id |-> e.id, phase |-> phase_, text |-> t]
  <2>1. \A t : ~Has(x(t)) /\ ~IsReference(x(t))
    BY DEF Has, IsReference
  <2>2. q = P!ConsumeActivity(o, e)
    <3>1. e.kind # "surface" /\ e.kind # "artifact"
      BY <1>4
    <3> QED  BY <1>1, <1>4, <3>1, Zenon DEF P!Consume
  <2>3. e.phase \in {"started", "updated", "completed"} /\ e.private \in BOOLEAN
    BY <1>4 DEF ProductEvent
  <2>4. CASE e.phase = "updated" /\ e.private
    <3>1. e.phase # "started" /\ e.phase # "completed"
      BY <2>4
    <3>2. q = P!Drop(o)
      BY <2>2, <2>4, <3>1, Zenon DEF P!ConsumeActivity
    <3> QED  BY <3>2, Dropped
  <2>5. CASE e.phase = "updated" /\ ~e.private
    <3>1. e.phase # "started" /\ e.phase # "completed"
      BY <2>5
    <3>2. q = P!Accept([o EXCEPT !.texts = P!Put(o.texts, e.id, new)], x(new))
      BY <2>2, <2>5, <3>1, Zenon DEF P!ConsumeActivity
    <3> QED  BY <2>1, <3>2, AcceptedWithTexts
  <2>6. CASE e.phase = "started"
    <3>1. e.phase # "updated" /\ e.phase # "completed"
      BY <2>6
    <3>2. q = P!Accept(o, x(<<>>))
      BY <2>2, <2>6, <3>1, Zenon DEF P!ConsumeActivity
    <3> QED  BY <2>1, <3>2, Accepted
  <2>7. CASE e.phase = "completed"
    <3>1. e.phase # "updated" /\ e.phase # "started"
      BY <2>7
    <3>2. q = P!Accept([o EXCEPT !.texts = done], x(IF e.private THEN <<>> ELSE text))
      BY <2>2, <2>7, <3>1, Zenon DEF P!ConsumeActivity
    <3> QED  BY <2>1, <3>2, AcceptedWithTexts
  <2> QED  BY <2>3, <2>4, <2>5, <2>6, <2>7
<1> QED  BY <1>1, <1>2, <1>3, <1>4

-----------------------------------------------------------------------------
(* The story of a connector activity or a required action *)

\* What the collector remembers of the activity or action an event belongs to.
Remembered(o, e) ==
  /\ e.kind = "action" => e.type # None
  /\ Key(e) \in DOMAIN o.identity
  /\ \A i \in DOMAIN Identity(e) : Identity(e)[i] # None => o.identity[Key(e)][i] = Identity(e)[i]
  /\ e.phase \in P!Terminal => Key(e) \in DOMAIN o.terminal /\ o.terminal[Key(e)] = e.phase

\* The events of a key agree with what is remembered of it, and none contradicts an end.
StoryInv(o) ==
  /\ Collector(o)
  /\ \A n \in 1..Len(o.seen) : Has(o.seen[n]) => Remembered(o, o.seen[n])
  /\ \A j \in 1..Len(o.seen) : \A n \in 1..(j - 1) :
       /\ Has(o.seen[n]) /\ Has(o.seen[j]) /\ Key(o.seen[n]) = Key(o.seen[j])
       /\ o.seen[n].phase \in P!Terminal
       => o.seen[j].phase = o.seen[n].phase

\* The observations after one more.
LEMMA OneMoreObserved ==
  ASSUME NEW o, Collector(o), NEW q, NEW x, Observes(o, q, x)
  PROVE  /\ Len(o.seen) \in Nat /\ Len(q.seen) = Len(o.seen) + 1 /\ q.seen[Len(o.seen) + 1] = x
         /\ \A n \in 1..Len(o.seen) : q.seen[n] = o.seen[n]
<1> DEFINE S == Range(o.seen) \cup {x}
<1>1. o.seen \in Seq(S) /\ x \in S
  BY DEF Collector
<1> HIDE DEF S
<1> QED  BY <1>1 DEF Observes

\* Two events of a key name the same kinds of things.
LEMMA SameKey ==
  ASSUME NEW e, Has(e), NEW x, Has(x), Key(e) = Key(x)
  PROVE  DOMAIN Identity(e) = DOMAIN Identity(x)
<1>1. e.kind = x.kind
  BY DEF Key
<1>2. CASE e.kind = "connector"
  <2>1. DOMAIN <<e.connector, e.operation>> = DOMAIN <<x.connector, x.operation>>
    OBVIOUS
  <2> QED  BY <1>1, <1>2, <2>1 DEF Identity
<1>3. CASE e.kind # "connector"
  <2>1. DOMAIN <<e.type, e.activity, e.connector>> = DOMAIN <<x.type, x.activity, x.connector>>
    OBVIOUS
  <2> QED  BY <1>1, <1>3, <2>1 DEF Identity
<1> QED  BY <1>2, <1>3

\* An event that belongs to nothing leaves the stories as they are.
LEMMA StoryKept ==
  ASSUME NEW o, StoryInv(o), NEW q, Collector(q), q.identity = o.identity, q.terminal = o.terminal,
         q.seen = o.seen \/ \E x : Observes(o, q, x) /\ ~Has(x)
  PROVE  StoryInv(q)
<1>1. \A x : Remembered(o, x) => Remembered(q, x)
  BY DEF Remembered
<1>2. CASE q.seen = o.seen
  BY <1>1, <1>2 DEF StoryInv
<1>3. ASSUME NEW x, Observes(o, q, x), ~Has(x) PROVE StoryInv(q)
  <2>1. /\ Len(o.seen) \in Nat /\ Len(q.seen) = Len(o.seen) + 1 /\ q.seen[Len(o.seen) + 1] = x
        /\ \A n \in 1..Len(o.seen) : q.seen[n] = o.seen[n]
    BY <1>3, OneMoreObserved DEF StoryInv
  <2>2. \A n \in 1..Len(q.seen) : Has(q.seen[n]) => n \in 1..Len(o.seen)
    BY <1>3, <2>1
  <2>3. \A n \in 1..Len(q.seen) : Has(q.seen[n]) => Remembered(q, q.seen[n])
    BY <1>1, <2>1, <2>2 DEF StoryInv
  <2>4. ASSUME NEW j \in 1..Len(q.seen), NEW n \in 1..(j - 1), Has(q.seen[n]), Has(q.seen[j]),
               Key(q.seen[n]) = Key(q.seen[j]), q.seen[n].phase \in P!Terminal
        PROVE  q.seen[j].phase = q.seen[n].phase
    <3>1. j \in 1..Len(o.seen) /\ n \in 1..Len(o.seen)
      BY <2>1, <2>2, <2>4
    <3> QED  BY <2>1, <2>4, <3>1 DEF StoryInv
  <2> QED  BY <2>3, <2>4 DEF StoryInv
<1> QED  BY <1>2, <1>3

\* An event of an activity continues its story.
LEMMA StoryTold ==
  ASSUME NEW o, StoryInv(o), NEW e, Has(e), e.kind = "action" => e.type # None,
         NEW q, q = P!Consume(o, e)
  PROVE  StoryInv(q)
<1> DEFINE known == P!Lookup(o.identity, Key(e), Identity(e))
           merged == P!Merge(known, Identity(e))
<1>1. /\ Collector(q)
      /\ \/ q.seen = o.seen /\ Knows(o, q)
         \/ /\ Observes(o, q, e)
            /\ P!Compatible(known, Identity(e))
            /\ q.identity = P!Put(o.identity, Key(e), merged)
            /\ q.terminal = IF e.phase \in P!Terminal THEN P!Put(o.terminal, Key(e), e.phase)
                            ELSE o.terminal
            /\ Key(e) \in DOMAIN o.terminal => o.terminal[Key(e)] = e.phase
  BY ConsumedCorrelated DEF StoryInv
<1>2. CASE q.seen = o.seen /\ Knows(o, q)
  BY <1>1, <1>2, StoryKept DEF Knows
<1>3. CASE /\ Observes(o, q, e)
           /\ P!Compatible(known, Identity(e))
           /\ q.identity = P!Put(o.identity, Key(e), merged)
           /\ q.terminal = IF e.phase \in P!Terminal THEN P!Put(o.terminal, Key(e), e.phase)
                           ELSE o.terminal
           /\ Key(e) \in DOMAIN o.terminal => o.terminal[Key(e)] = e.phase
  <2>1. /\ Len(o.seen) \in Nat /\ Len(q.seen) = Len(o.seen) + 1 /\ q.seen[Len(o.seen) + 1] = e
        /\ \A n \in 1..Len(o.seen) : q.seen[n] = o.seen[n]
    BY <1>3, OneMoreObserved DEF StoryInv
  <2>2. \A i \in DOMAIN Identity(e) :
           /\ merged[i] = IF known[i] # None THEN known[i] ELSE Identity(e)[i]
           /\ known[i] = None \/ Identity(e)[i] = None \/ known[i] = Identity(e)[i]
    BY <1>3 DEF P!Merge, P!Compatible
  <2>3. \A i \in DOMAIN Identity(e) : Identity(e)[i] # None => merged[i] = Identity(e)[i]
    BY <2>2
  <2> HIDE DEF merged, known
  <2>4. /\ DOMAIN q.identity = DOMAIN o.identity \cup {Key(e)} /\ q.identity[Key(e)] = merged
        /\ \A x \in DOMAIN o.identity \ {Key(e)} : q.identity[x] = o.identity[x]
    <3>1. q.identity = P!Put(o.identity, Key(e), merged)
      BY <1>3
    <3> QED  BY <3>1 DEF P!Put
  <2>5. /\ DOMAIN o.terminal \subseteq DOMAIN q.terminal
        /\ e.phase \in P!Terminal => Key(e) \in DOMAIN q.terminal /\ q.terminal[Key(e)] = e.phase
        /\ \A x \in DOMAIN o.terminal : q.terminal[x] = o.terminal[x]
    <3>1. CASE e.phase \in P!Terminal
      <4>1. /\ DOMAIN q.terminal = DOMAIN o.terminal \cup {Key(e)} /\ q.terminal[Key(e)] = e.phase
            /\ \A x \in DOMAIN o.terminal \ {Key(e)} : q.terminal[x] = o.terminal[x]
        <5>1. q.terminal = P!Put(o.terminal, Key(e), e.phase)
          BY <1>3, <3>1
        <5> QED  BY <5>1 DEF P!Put
      <4> QED  BY <1>3, <4>1
    <3>2. CASE e.phase \notin P!Terminal
      BY <1>3, <3>2
    <3> QED  BY <3>1, <3>2
  <2>6. Remembered(q, e)
    BY <2>3, <2>4, <2>5 DEF Remembered
  <2>7. ASSUME NEW x, Has(x), Remembered(o, x) PROVE Remembered(q, x)
    <3>1. \A i \in DOMAIN Identity(x) : Identity(x)[i] # None => q.identity[Key(x)][i] = Identity(x)[i]
      <4>1. CASE Key(x) # Key(e)
        <5>1. q.identity[Key(x)] = o.identity[Key(x)]
          BY <2>4, <2>7, <4>1 DEF Remembered
        <5> QED  BY <2>7, <5>1 DEF Remembered
      <4>2. CASE Key(x) = Key(e)
        <5>1. known = o.identity[Key(x)]
          BY <2>7, <4>2 DEF Remembered, known, P!Lookup
        <5>2. DOMAIN Identity(e) = DOMAIN Identity(x)
          BY <2>7, <4>2, SameKey
        <5>3. \A i \in DOMAIN Identity(x) : Identity(x)[i] # None => known[i] = Identity(x)[i]
          BY <2>7, <5>1 DEF Remembered
        <5>4. \A i \in DOMAIN Identity(x) : Identity(x)[i] # None => merged[i] = Identity(x)[i]
          BY <2>2, <5>2, <5>3
        <5> QED  BY <2>4, <4>2, <5>4
      <4> QED  BY <4>1, <4>2
    <3>2. x.phase \in P!Terminal => Key(x) \in DOMAIN q.terminal /\ q.terminal[Key(x)] = x.phase
      BY <2>5, <2>7 DEF Remembered
    <3> QED  BY <2>4, <2>7, <3>1, <3>2 DEF Remembered
  <2>8. \A n \in 1..Len(q.seen) : Has(q.seen[n]) => Remembered(q, q.seen[n])
    BY <2>1, <2>6, <2>7 DEF StoryInv
  <2>9. ASSUME NEW j \in 1..Len(q.seen), NEW n \in 1..(j - 1), Has(q.seen[n]), Has(q.seen[j]),
               Key(q.seen[n]) = Key(q.seen[j]), q.seen[n].phase \in P!Terminal
        PROVE  q.seen[j].phase = q.seen[n].phase
    <3>1. n \in 1..Len(o.seen) /\ (j \in 1..Len(o.seen) \/ q.seen[j] = e)
      BY <2>1, <2>9
    <3>2. CASE j \in 1..Len(o.seen)
      BY <2>1, <2>9, <3>1, <3>2 DEF StoryInv
    <3>3. CASE q.seen[j] = e
      <4>1. Remembered(o, q.seen[n])
        BY <2>1, <2>9, <3>1 DEF StoryInv
      <4> QED  BY <1>3, <2>9, <3>3, <4>1 DEF Remembered
    <3> QED  BY <3>1, <3>2, <3>3
  <2> QED  BY <1>1, <2>8, <2>9 DEF StoryInv
<1> QED  BY <1>1, <1>2, <1>3

\* Every event does.
LEMMA StoryConsumed ==
  ASSUME NEW o, StoryInv(o), NEW e, ProductEvent(e)
  PROVE  StoryInv(P!Consume(o, e))
<1> DEFINE q == P!Consume(o, e)
<1>1. CASE Has(e)
  <2>1. e.kind = "action" => e.type # None
    BY DEF ProductEvent
  <2> QED  BY <1>1, <2>1, StoryTold
<1>2. CASE e.kind = "source"
  <2>1. ~Has(e)
    BY <1>2 DEF Has
  <2>2. /\ Collector(q) /\ q.identity = o.identity /\ q.terminal = o.terminal
        /\ q.seen = o.seen \/ Observes(o, q, e)
    BY <1>2, ConsumedSource DEF StoryInv, Knows
  <2> QED  BY <2>1, <2>2, StoryKept
<1>3. CASE e.kind = "citation"
  <2>1. ~Has(e)
    BY <1>3 DEF Has
  <2>2. /\ Collector(q) /\ q.identity = o.identity /\ q.terminal = o.terminal
        /\ q.seen = o.seen \/ Observes(o, q, e)
    BY <1>3, ConsumedCitation DEF StoryInv, Knows
  <2> QED  BY <2>1, <2>2, StoryKept
<1>4. CASE ~Has(e) /\ ~IsReference(e)
  <2>1. /\ Collector(q) /\ q.identity = o.identity /\ q.terminal = o.terminal
        /\ q.seen = o.seen \/ \E x : Observes(o, q, x) /\ ~Has(x)
    BY <1>4, ConsumedOther DEF StoryInv, Knows
  <2> QED  BY <2>1, StoryKept
<1> QED  BY <1>1, <1>2, <1>3, <1>4 DEF IsReference

\* At first there is no story.
LEMMA StoryInit == StoryInv(P!NewObservations)
BY DEF P!NewObservations, StoryInv, Collector, Range

\* Events that agree with what is remembered agree with each other.
LEMMA StoryAgrees ==
  ASSUME StoryInv(obs) PROVE OneStoryPerActivity
<1>1. DOMAIN obs.seen = 1..Len(obs.seen)
  BY DEF StoryInv, Collector
<1> SUFFICES ASSUME NEW kind \in {"connector", "action"}, NEW i \in Observed(kind),
                    NEW j \in Observed(kind), obs.seen[i].id = obs.seen[j].id
             PROVE  LET a == obs.seen[i]
                        b == obs.seen[j]
                        agree(x, y) == None \in {x, y} \/ x = y
                    IN /\ agree(a.connector, b.connector)
                       /\ kind = "connector" => agree(a.operation, b.operation)
                       /\ kind = "action" => a.type = b.type /\ agree(a.activity, b.activity)
                       /\ i < j /\ a.phase \in P!Terminal => b.phase = a.phase
  BY DEF OneStoryPerActivity
<1>2. PICK a, b : a = obs.seen[i] /\ b = obs.seen[j]
  OBVIOUS
<1>3. /\ i \in 1..Len(obs.seen) /\ j \in 1..Len(obs.seen) /\ a.kind = kind /\ b.kind = kind
      /\ Has(a) /\ Has(b) /\ Key(a) = Key(b)
  BY <1>1, <1>2 DEF Observed, Has, Key
<1>4. Remembered(obs, a) /\ Remembered(obs, b)
  BY <1>2, <1>3 DEF StoryInv
<1>5. ASSUME NEW n \in DOMAIN Identity(a), n \in DOMAIN Identity(b)
      PROVE  Identity(a)[n] = None \/ Identity(b)[n] = None \/ Identity(a)[n] = Identity(b)[n]
  BY <1>3, <1>4, <1>5 DEF Remembered
<1>6. i < j /\ a.phase \in P!Terminal => b.phase = a.phase
  <2> SUFFICES ASSUME i < j, a.phase \in P!Terminal PROVE b.phase = a.phase
    OBVIOUS
  <2>1. i \in 1..(j - 1)
    BY <1>3
  <2> QED  BY <1>2, <1>3, <2>1 DEF StoryInv
<1>7. CASE kind = "connector"
  <2>1. Identity(a) = <<a.connector, a.operation>> /\ Identity(b) = <<b.connector, b.operation>>
    BY <1>3, <1>7 DEF Identity
  <2>2. 1 \in DOMAIN Identity(a) /\ 2 \in DOMAIN Identity(a)
        /\ 1 \in DOMAIN Identity(b) /\ 2 \in DOMAIN Identity(b)
    BY <2>1
  <2>3. a.connector = None \/ b.connector = None \/ a.connector = b.connector
    BY <1>5, <2>1, <2>2
  <2>4. a.operation = None \/ b.operation = None \/ a.operation = b.operation
    BY <1>5, <2>1, <2>2
  <2> QED  BY <1>2, <1>6, <1>7, <2>3, <2>4
<1>8. CASE kind = "action"
  <2>1. /\ Identity(a) = <<a.type, a.activity, a.connector>>
        /\ Identity(b) = <<b.type, b.activity, b.connector>>
    BY <1>3, <1>8 DEF Identity
  <2>2. 1 \in DOMAIN Identity(a) /\ 2 \in DOMAIN Identity(a) /\ 3 \in DOMAIN Identity(a)
        /\ 1 \in DOMAIN Identity(b) /\ 2 \in DOMAIN Identity(b) /\ 3 \in DOMAIN Identity(b)
    BY <2>1
  <2>3. a.connector = None \/ b.connector = None \/ a.connector = b.connector
    BY <1>5, <2>1, <2>2
  <2>4. a.activity = None \/ b.activity = None \/ a.activity = b.activity
    BY <1>5, <2>1, <2>2
  <2>5. a.type = b.type
    <3>1. a.type # None /\ b.type # None
      BY <1>3, <1>4, <1>8 DEF Remembered
    <3> QED  BY <1>5, <2>1, <2>2, <3>1
  <2> QED  BY <1>2, <1>6, <1>8, <2>3, <2>4, <2>5
<1> QED  BY <1>7, <1>8

-----------------------------------------------------------------------------
(* The references of the gate and the collector *)

\* The gate is a record.
GateRecord(g) == g = [idOf |-> g.idOf, urlOf |-> g.urlOf, cited |-> g.cited, alias |-> g.alias]

\* The addresses the gate knows are those of the sources it knows, one for each.
Registered(g, urls) ==
  /\ g.urlOf = urls
  /\ \A u \in DOMAIN g.idOf : g.idOf[u] \in DOMAIN urls /\ urls[g.idOf[u]] = u
  /\ \A x \in DOMAIN urls : urls[x] \in DOMAIN g.idOf
  /\ \A x, y \in DOMAIN urls : urls[x] = urls[y] => x = y

\* The sources known are those observed.
SourceAt(s, n, x) == s[n].kind = "source" /\ s[n].id = x
SourcesSeen(s, urls) ==
  /\ \A x \in DOMAIN urls : \E n \in 1..Len(s) : SourceAt(s, n, x)
  /\ \A n \in 1..Len(s) : s[n].kind = "source" =>
       s[n].id \in DOMAIN urls /\ urls[s[n].id] = s[n].url

\* A citation observed is of a source observed before it and of a new place.
SamePlace(x, y) == x.source = y.source /\ x.range = y.range
CitedAt(g, urls, s, n) ==
  /\ s[n].source \in DOMAIN urls
  /\ <<urls[s[n].source], s[n].range>> \in g.cited
  /\ \E k \in 1..(n - 1) : SourceAt(s, k, s[n].source)
  /\ \A k \in 1..(n - 1) : s[k].kind = "citation" => ~SamePlace(s[k], s[n])
CitationsSeen(g, urls, s) ==
  \A n \in 1..Len(s) : s[n].kind = "citation" => CitedAt(g, urls, s, n)

\* The source with the name of a canonical reference has its address.
CanonicalUrls(urls, refs) ==
  \A x \in DOMAIN urls : \A n \in 1..Len(refs) :
    x = P!CanonicalId(refs[n][1]) => urls[x] = refs[n][1]

\* The gate and the collector agree on the references.
RefsInv(g, o, refs) ==
  /\ GateRecord(g) /\ Collector(o)
  /\ Registered(g, o.urls)
  /\ SourcesSeen(o.seen, o.urls)
  /\ CitationsSeen(g, o.urls, o.seen)
  /\ CanonicalUrls(o.urls, refs)

\* At first there is none.
LEMMA RefsInit ==
  ASSUME NEW refs PROVE RefsInv(P!NewGate, P!NewObservations, refs)
<1>1. P!NewGate = [idOf |-> P!Nothing, urlOf |-> P!Nothing, cited |-> {}, alias |-> P!Nothing]
  BY DEF P!NewGate
<1>2. P!NewObservations =
        [seen |-> <<>>, dropped |-> 0, texts |-> P!Nothing, urls |-> P!Nothing,
         identity |-> P!Nothing, terminal |-> P!Nothing]
  BY DEF P!NewObservations
<1>3. DOMAIN P!Nothing = {}
  BY DEF P!Nothing
<1>4. GateRecord(P!NewGate) /\ Collector(P!NewObservations)
  BY <1>1, <1>2 DEF GateRecord, Collector, Range
<1>5. CitationsSeen(P!NewGate, P!Nothing, <<>>) /\ SourcesSeen(<<>>, P!Nothing)
  BY <1>3 DEF CitationsSeen, SourcesSeen
<1>6. Registered(P!NewGate, P!Nothing) /\ CanonicalUrls(P!Nothing, refs)
  BY <1>1, <1>3 DEF Registered, CanonicalUrls
<1> QED  BY <1>2, <1>4, <1>5, <1>6 DEF RefsInv

\* What was consistent of the citations stays so when gate, addresses and observations grow.
Extended(g, urls, s, h, more, t) ==
  /\ Len(s) \in Nat /\ \A n \in 1..Len(s) : t[n] = s[n]
  /\ g.cited \subseteq h.cited
  /\ DOMAIN urls \subseteq DOMAIN more /\ \A x \in DOMAIN urls : more[x] = urls[x]

LEMMA CitationsStay ==
  ASSUME NEW g, NEW urls, NEW s, CitationsSeen(g, urls, s), NEW h, NEW more, NEW t,
         Extended(g, urls, s, h, more, t)
  PROVE  \A n \in 1..Len(s) : t[n].kind = "citation" => CitedAt(h, more, t, n)
<1> USE DEF Extended
<1> SUFFICES ASSUME NEW n \in 1..Len(s), t[n].kind = "citation" PROVE CitedAt(h, more, t, n)
  OBVIOUS
<1>1. CitedAt(g, urls, s, n) /\ t[n] = s[n]
  BY DEF CitationsSeen
<1>2. \A k \in 1..(n - 1) : t[k] = s[k]
  OBVIOUS
<1>3. \E k \in 1..(n - 1) : SourceAt(t, k, t[n].source)
  BY <1>1, <1>2 DEF CitedAt, SourceAt
<1>4. \A k \in 1..(n - 1) : t[k].kind = "citation" => ~SamePlace(t[k], t[n])
  BY <1>1, <1>2 DEF CitedAt
<1> QED  BY <1>1, <1>3, <1>4 DEF CitedAt

\* An event that is no reference leaves them as they are.
LEMMA RefsKept ==
  ASSUME NEW g, NEW o, NEW refs, RefsInv(g, o, refs), NEW q, Collector(q), q.urls = o.urls,
         q.seen = o.seen \/ \E x : Observes(o, q, x) /\ ~IsReference(x)
  PROVE  RefsInv(g, q, refs)
<1>1. CASE q.seen = o.seen
  BY <1>1 DEF RefsInv
<1>2. ASSUME NEW x, Observes(o, q, x), ~IsReference(x) PROVE RefsInv(g, q, refs)
  <2>1. /\ Len(o.seen) \in Nat /\ Len(q.seen) = Len(o.seen) + 1 /\ q.seen[Len(o.seen) + 1] = x
        /\ \A n \in 1..Len(o.seen) : q.seen[n] = o.seen[n]
    BY <1>2, OneMoreObserved DEF RefsInv
  <2>2. \A n \in 1..Len(o.seen) : q.seen[n].kind = "citation" => CitedAt(g, q.urls, q.seen, n)
    <3>1. CitationsSeen(g, o.urls, o.seen) /\ Extended(g, o.urls, o.seen, g, q.urls, q.seen)
      BY <2>1 DEF RefsInv, Extended
    <3> QED  BY <3>1, CitationsStay
  <2>3. \A n \in 1..Len(q.seen) : n \in 1..Len(o.seen) \/ q.seen[n] = x
    BY <2>1
  <2>4. CitationsSeen(g, q.urls, q.seen)
    BY <1>2, <2>2, <2>3 DEF CitationsSeen, IsReference
  <2>5. SourcesSeen(q.seen, q.urls)
    <3>1. \A y \in DOMAIN q.urls : \E n \in 1..Len(q.seen) : SourceAt(q.seen, n, y)
      <4> SUFFICES ASSUME NEW y \in DOMAIN q.urls
                   PROVE  \E n \in 1..Len(q.seen) : SourceAt(q.seen, n, y)
        OBVIOUS
      <4>1. PICK n \in 1..Len(o.seen) : SourceAt(o.seen, n, y)
        BY DEF RefsInv, SourcesSeen
      <4>2. n \in 1..Len(q.seen) /\ SourceAt(q.seen, n, y)
        BY <2>1, <4>1 DEF SourceAt
      <4> QED  BY <4>2
    <3>2. \A n \in 1..Len(q.seen) : q.seen[n].kind = "source" =>
            q.seen[n].id \in DOMAIN q.urls /\ q.urls[q.seen[n].id] = q.seen[n].url
      BY <1>2, <2>1, <2>3 DEF RefsInv, SourcesSeen, IsReference
    <3> QED  BY <3>1, <3>2 DEF SourcesSeen
  <2> QED  BY <2>4, <2>5 DEF RefsInv
<1> QED  BY <1>1, <1>2

\* What the gate records of a source (_record_emitted_event).
LEMMA SourceRecorded ==
  ASSUME NEW g, GateRecord(g), NEW e, e.kind = "source", NEW h, h = P!Record(g, e)
  PROVE  /\ GateRecord(h) /\ h.cited = g.cited /\ h.alias = g.alias
         /\ h.urlOf = P!Put(g.urlOf, e.id, e.url)
         /\ h.idOf = IF e.url \in DOMAIN g.idOf THEN g.idOf ELSE P!Put(g.idOf, e.url, e.id)
<1> DEFINE ids == IF e.url \in DOMAIN g.idOf THEN g.idOf ELSE P!Put(g.idOf, e.url, e.id)
           urls == P!Put(g.urlOf, e.id, e.url)
           p == [g EXCEPT !.idOf = ids]
<1>1. h = [g EXCEPT !.idOf = ids, !.urlOf = urls]
  <2>1. e.kind # "citation" /\ ~(e.kind \notin {"source", "citation"})
    OBVIOUS
  <2>2. h = [g EXCEPT !.idOf = IF e.url \in DOMAIN g.idOf THEN g.idOf
                               ELSE P!Put(g.idOf, e.url, e.id),
                      !.urlOf = P!Put(g.urlOf, e.id, e.url)]
    BY <2>1 DEF P!Record
  <2> QED  BY <2>2
<1> HIDE DEF ids, urls
<1>2. h = [p EXCEPT !.urlOf = urls]
  BY <1>1 DEF GateRecord
<1>3. p = [idOf |-> ids, urlOf |-> g.urlOf, cited |-> g.cited, alias |-> g.alias]
  BY DEF GateRecord
<1> HIDE DEF p
<1>4. h = [idOf |-> ids, urlOf |-> urls, cited |-> g.cited, alias |-> g.alias]
  BY <1>2, <1>3
<1> QED  BY <1>4 DEF GateRecord, ids, urls

\* What it records of a citation.
LEMMA CitationRecorded ==
  ASSUME NEW g, GateRecord(g), NEW e, e.kind = "citation", NEW h, h = P!Record(g, e)
  PROVE  IF e.source \in DOMAIN g.urlOf
         THEN /\ GateRecord(h) /\ h.idOf = g.idOf /\ h.urlOf = g.urlOf /\ h.alias = g.alias
              /\ h.cited = g.cited \cup {<<g.urlOf[e.source], e.range>>}
         ELSE h = g
<1>1. e.kind # "source" /\ ~(e.kind \notin {"source", "citation"})
  OBVIOUS
<1>2. CASE e.source \notin DOMAIN g.urlOf
  BY <1>1, <1>2, Zenon DEF P!Record
<1>3. CASE e.source \in DOMAIN g.urlOf
  <2> DEFINE cited == g.cited \cup {<<g.urlOf[e.source], e.range>>}
  <2>1. h = [g EXCEPT !.cited = cited]
    BY <1>1, <1>3 DEF P!Record
  <2> HIDE DEF cited
  <2>2. h = [idOf |-> g.idOf, urlOf |-> g.urlOf, cited |-> cited, alias |-> g.alias]
    BY <2>1 DEF GateRecord
  <2> QED  BY <1>3, <2>2 DEF GateRecord, cited
<1> QED  BY <1>2, <1>3

\* It records nothing else.
LEMMA OtherRecorded ==
  ASSUME NEW g, NEW e, ~IsReference(e) PROVE P!Record(g, e) = g
<1>1. e.kind # "source" /\ e.kind # "citation" /\ e.kind \notin {"source", "citation"}
  BY DEF IsReference
<1> QED  BY <1>1, Zenon DEF P!Record

\* The source of an address not reported, or the same source again.
Fresh(urls, e) == \A x \in DOMAIN urls : x = e.id <=> urls[x] = e.url
Canonical(e, refs) ==
  \A n \in 1..Len(refs) : e.id = P!CanonicalId(refs[n][1]) => e.url = refs[n][1]

\* A fresh source keeps gate and collector in agreement.
LEMMA SourceStep ==
  ASSUME NEW g, NEW o, NEW refs, RefsInv(g, o, refs), NEW e, e.kind = "source",
         Fresh(o.urls, e), Canonical(e, refs),
         NEW h, h = P!Record(g, e), NEW q, q = P!Consume(o, e)
  PROVE  RefsInv(h, q, refs) /\ Observes(o, q, e) /\ h.alias = g.alias
<1>1. /\ GateRecord(h) /\ h.cited = g.cited /\ h.alias = g.alias
      /\ h.urlOf = P!Put(g.urlOf, e.id, e.url)
      /\ h.idOf = IF e.url \in DOMAIN g.idOf THEN g.idOf ELSE P!Put(g.idOf, e.url, e.id)
  BY SourceRecorded DEF RefsInv
<1>2. Collector(q) /\ Observes(o, q, e) /\ q.urls = P!Put(o.urls, e.id, e.url)
  <2>1. e.id \in DOMAIN o.urls => o.urls[e.id] = e.url
    BY DEF Fresh
  <2> QED  BY <2>1, ConsumedSource DEF RefsInv
<1>3. /\ DOMAIN q.urls = DOMAIN o.urls \cup {e.id} /\ q.urls[e.id] = e.url
      /\ \A x \in DOMAIN o.urls : q.urls[x] = o.urls[x]
  <2>1. \A x \in DOMAIN o.urls : x = e.id => o.urls[x] = e.url
    BY DEF Fresh
  <2> QED  BY <1>2, <2>1 DEF P!Put
<1>4. /\ Len(o.seen) \in Nat /\ Len(q.seen) = Len(o.seen) + 1 /\ q.seen[Len(o.seen) + 1] = e
      /\ \A n \in 1..Len(o.seen) : q.seen[n] = o.seen[n]
  BY <1>2, OneMoreObserved DEF RefsInv
<1>5. Registered(h, q.urls)
  <2>1. Registered(g, o.urls)
    BY DEF RefsInv
  <2>2. h.urlOf = q.urls
    BY <1>1, <1>2, <2>1 DEF Registered
  <2>3. \A x, y \in DOMAIN q.urls : q.urls[x] = q.urls[y] => x = y
    BY <1>3, <2>1 DEF Registered, Fresh
  <2>4. CASE e.url \in DOMAIN g.idOf
    <3>1. h.idOf = g.idOf
      BY <1>1, <2>4
    <3> QED  BY <1>3, <2>1, <2>2, <2>3, <2>4, <3>1 DEF Registered
  <2>5. CASE e.url \notin DOMAIN g.idOf
    <3>1. h.idOf = P!Put(g.idOf, e.url, e.id)
      BY <1>1, <2>5
    <3>2. /\ DOMAIN h.idOf = DOMAIN g.idOf \cup {e.url} /\ h.idOf[e.url] = e.id
          /\ \A u \in DOMAIN g.idOf : h.idOf[u] = g.idOf[u]
      BY <2>5, <3>1 DEF P!Put
    <3>3. \A u \in DOMAIN h.idOf : h.idOf[u] \in DOMAIN q.urls /\ q.urls[h.idOf[u]] = u
      BY <1>3, <2>1, <3>2 DEF Registered
    <3>4. \A x \in DOMAIN q.urls : q.urls[x] \in DOMAIN h.idOf
      BY <1>3, <2>1, <3>2 DEF Registered
    <3> QED  BY <2>2, <2>3, <3>3, <3>4 DEF Registered
  <2> QED  BY <2>4, <2>5
<1>6. SourcesSeen(q.seen, q.urls)
  <2>1. ASSUME NEW y \in DOMAIN q.urls PROVE \E n \in 1..Len(q.seen) : SourceAt(q.seen, n, y)
    <3>1. CASE y = e.id
      <4>1. Len(o.seen) + 1 \in 1..Len(q.seen) /\ SourceAt(q.seen, Len(o.seen) + 1, y)
        BY <1>4, <3>1 DEF SourceAt
      <4> QED  BY <4>1
    <3>2. CASE y # e.id
      <4>1. y \in DOMAIN o.urls
        BY <1>3, <2>1, <3>2
      <4>2. PICK n \in 1..Len(o.seen) : SourceAt(o.seen, n, y)
        BY <4>1 DEF RefsInv, SourcesSeen
      <4>3. n \in 1..Len(q.seen) /\ SourceAt(q.seen, n, y)
        BY <1>4, <4>2 DEF SourceAt
      <4> QED  BY <4>3
    <3> QED  BY <3>1, <3>2
  <2>2. ASSUME NEW n \in 1..Len(q.seen), q.seen[n].kind = "source"
        PROVE  q.seen[n].id \in DOMAIN q.urls /\ q.urls[q.seen[n].id] = q.seen[n].url
    <3>1. CASE n \in 1..Len(o.seen)
      <4>1. /\ q.seen[n] = o.seen[n] /\ o.seen[n].id \in DOMAIN o.urls
            /\ o.urls[o.seen[n].id] = o.seen[n].url
        BY <1>4, <2>2, <3>1 DEF RefsInv, SourcesSeen
      <4> QED  BY <1>3, <4>1
    <3>2. CASE n = Len(o.seen) + 1
      BY <1>3, <1>4, <3>2
    <3> QED  BY <1>4, <3>1, <3>2
  <2> QED  BY <2>1, <2>2 DEF SourcesSeen
<1>7. CitationsSeen(h, q.urls, q.seen)
  <2>1. CitationsSeen(g, o.urls, o.seen) /\ Extended(g, o.urls, o.seen, h, q.urls, q.seen)
    BY <1>1, <1>3, <1>4 DEF RefsInv, Extended
  <2>2. \A n \in 1..Len(o.seen) : q.seen[n].kind = "citation" => CitedAt(h, q.urls, q.seen, n)
    BY <2>1, CitationsStay
  <2>3. \A n \in 1..Len(q.seen) : n \in 1..Len(o.seen) \/ q.seen[n] = e
    BY <1>4
  <2> QED  BY <2>2, <2>3 DEF CitationsSeen
<1>8. CanonicalUrls(q.urls, refs)
  BY <1>3 DEF RefsInv, CanonicalUrls, Canonical
<1> QED  BY <1>1, <1>2, <1>5, <1>6, <1>7, <1>8 DEF RefsInv

\* A place cited for the first time.
NewPlace(s, e) == \A n \in 1..Len(s) : s[n].kind = "citation" => ~SamePlace(s[n], e)

\* So does the citation of a new place.
LEMMA CitationStep ==
  ASSUME NEW g, NEW o, NEW refs, RefsInv(g, o, refs), NEW e, e.kind = "citation",
         NewPlace(o.seen, e),
         NEW h, h = P!Record(g, e), NEW q, q = P!Consume(o, e)
  PROVE  RefsInv(h, q, refs) /\ (q.seen = o.seen \/ Observes(o, q, e))
<1>1. GateRecord(g) /\ g.urlOf = o.urls /\ Collector(o)
  BY DEF RefsInv, Registered
<1>2. /\ Collector(q) /\ q.urls = o.urls
      /\ IF e.source \in DOMAIN o.urls THEN Observes(o, q, e) ELSE q.seen = o.seen
  BY <1>1, ConsumedCitation DEF Knows
<1>3. CASE e.source \notin DOMAIN o.urls
  <2>1. h = g /\ q.seen = o.seen
    BY <1>1, <1>2, <1>3, CitationRecorded
  <2> QED  BY <1>2, <2>1, RefsKept
<1>4. CASE e.source \in DOMAIN o.urls
  <2>1. /\ GateRecord(h) /\ h.idOf = g.idOf /\ h.urlOf = g.urlOf
        /\ h.cited = g.cited \cup {<<o.urls[e.source], e.range>>}
    BY <1>1, <1>4, CitationRecorded
  <2>2. Observes(o, q, e)
    BY <1>2, <1>4
  <2>3. /\ Len(o.seen) \in Nat /\ Len(q.seen) = Len(o.seen) + 1 /\ q.seen[Len(o.seen) + 1] = e
        /\ \A n \in 1..Len(o.seen) : q.seen[n] = o.seen[n]
    BY <1>1, <2>2, OneMoreObserved
  <2>4. Registered(h, q.urls)
    BY <1>2, <2>1 DEF RefsInv, Registered
  <2>5. SourcesSeen(q.seen, q.urls)
    <3>1. ASSUME NEW y \in DOMAIN q.urls PROVE \E n \in 1..Len(q.seen) : SourceAt(q.seen, n, y)
      <4>1. PICK n \in 1..Len(o.seen) : SourceAt(o.seen, n, y)
        BY <1>2, <3>1 DEF RefsInv, SourcesSeen
      <4>2. n \in 1..Len(q.seen) /\ SourceAt(q.seen, n, y)
        BY <2>3, <4>1 DEF SourceAt
      <4> QED  BY <4>2
    <3>2. ASSUME NEW n \in 1..Len(q.seen), q.seen[n].kind = "source"
          PROVE  q.seen[n].id \in DOMAIN q.urls /\ q.urls[q.seen[n].id] = q.seen[n].url
      <4>1. n \in 1..Len(o.seen) /\ q.seen[n] = o.seen[n]
        BY <2>3, <3>2
      <4> QED  BY <1>2, <3>2, <4>1 DEF RefsInv, SourcesSeen
    <3> QED  BY <3>1, <3>2 DEF SourcesSeen
  <2>6. CitationsSeen(h, q.urls, q.seen)
    <3>1. CitationsSeen(g, o.urls, o.seen) /\ Extended(g, o.urls, o.seen, h, q.urls, q.seen)
      BY <1>2, <2>1, <2>3 DEF RefsInv, Extended
    <3>2. \A n \in 1..Len(o.seen) : q.seen[n].kind = "citation" => CitedAt(h, q.urls, q.seen, n)
      BY <3>1, CitationsStay
    <3>3. CitedAt(h, q.urls, q.seen, Len(o.seen) + 1)
      <4> DEFINE l == Len(o.seen) + 1
      <4>1. q.seen[l] = e /\ e.source \in DOMAIN q.urls /\ l - 1 = Len(o.seen)
            /\ <<q.urls[e.source], e.range>> \in h.cited
        BY <1>2, <1>4, <2>1, <2>3
      <4>2. \E k \in 1..(l - 1) : SourceAt(q.seen, k, e.source)
        <5>1. PICK k \in 1..Len(o.seen) : SourceAt(o.seen, k, e.source)
          BY <1>4 DEF RefsInv, SourcesSeen
        <5>2. k \in 1..(l - 1) /\ SourceAt(q.seen, k, e.source)
          BY <2>3, <4>1, <5>1 DEF SourceAt
        <5> QED  BY <5>2
      <4>3. \A k \in 1..(l - 1) : q.seen[k].kind = "citation" => ~SamePlace(q.seen[k], e)
        BY <2>3, <4>1 DEF NewPlace
      <4> HIDE DEF l
      <4>4. CitedAt(h, q.urls, q.seen, l)
        BY <4>1, <4>2, <4>3 DEF CitedAt
      <4> QED  BY <4>4 DEF l
    <3>4. \A n \in 1..Len(q.seen) : n \in 1..Len(o.seen) \/ n = Len(o.seen) + 1
      BY <2>3
    <3> QED  BY <3>2, <3>3, <3>4 DEF CitationsSeen
  <2> QED  BY <1>2, <2>1, <2>2, <2>4, <2>5, <2>6 DEF RefsInv
<1> QED  BY <1>3, <1>4

\* References the gate and the collector agree on are consistent.
LEMMA RefsConsistent ==
  ASSUME NEW refs, RefsInv(gate, obs, refs)
  PROVE  ProvenanceIsConsistent
<1> DEFINE sources == {obs.seen[n] : n \in Observed("source")}
           place(n) == <<obs.urls[obs.seen[n].source], obs.seen[n].range>>
<1>1. DOMAIN obs.seen = 1..Len(obs.seen) /\ Len(obs.seen) \in Nat
  BY DEF RefsInv, Collector
<1>2. ASSUME NEW s \in sources
      PROVE  s.id \in DOMAIN obs.urls /\ obs.urls[s.id] = s.url
  BY <1>1, <1>2 DEF RefsInv, SourcesSeen, Observed
<1>3. \A s, t \in sources : s.url = t.url <=> s.id = t.id
  <2> HIDE DEF sources
  <2> QED  BY <1>2 DEF RefsInv, Registered
<1>4. ASSUME NEW n \in Observed("citation")
      PROVE  /\ \E k \in Observed("source") : k < n /\ obs.seen[k].id = obs.seen[n].source
             /\ \A k \in Observed("citation") : k < n => place(k) # place(n)
  <2>1. n \in 1..Len(obs.seen) /\ CitedAt(gate, obs.urls, obs.seen, n)
    BY <1>1, <1>4 DEF Observed, RefsInv, CitationsSeen
  <2>2. PICK k \in 1..(n - 1) : SourceAt(obs.seen, k, obs.seen[n].source)
    BY <2>1 DEF CitedAt
  <2>3. k \in Observed("source") /\ k < n /\ obs.seen[k].id = obs.seen[n].source
    BY <1>1, <2>1, <2>2 DEF Observed, SourceAt
  <2>4. ASSUME NEW i \in Observed("citation"), i < n PROVE place(i) # place(n)
    <3>1. /\ i \in 1..Len(obs.seen) /\ i \in 1..(n - 1) /\ obs.seen[i].kind = "citation"
          /\ CitedAt(gate, obs.urls, obs.seen, i)
      BY <1>1, <2>1, <2>4 DEF Observed, RefsInv, CitationsSeen
    <3>2. ~SamePlace(obs.seen[i], obs.seen[n])
      BY <2>1, <3>1 DEF CitedAt
    <3>3. obs.seen[i].source \in DOMAIN obs.urls /\ obs.seen[n].source \in DOMAIN obs.urls
      BY <2>1, <3>1 DEF CitedAt
    <3> QED  BY <3>2, <3>3 DEF RefsInv, Registered, SamePlace
  <2> QED  BY <2>3, <2>4
<1>5. ASSUME NEW n \in Observed("citation"), NEW k \in Observed("citation"), k # n
      PROVE  place(k) # place(n)
  <2>1. k \in Nat /\ n \in Nat
    BY <1>1 DEF Observed
  <2> HIDE DEF place
  <2> QED  BY <1>4, <1>5, <2>1
<1> QED  BY <1>3, <1>4, <1>5, Zenon DEF ProvenanceIsConsistent

-----------------------------------------------------------------------------
(* The canonical references forwarded *)

\* A gate and a collector that agree.
Whole(s, refs) ==
  s = [gate |-> s.gate, obs |-> s.obs] /\ RefsInv(s.gate, s.obs, refs) /\ StoryInv(s.obs)

\* What is an alias of what is no matter of the references already reported.
LEMMA AliasFree ==
  ASSUME NEW g, NEW o, NEW refs, RefsInv(g, o, refs), NEW a, NEW h, h = [g EXCEPT !.alias = a]
  PROVE  RefsInv(h, o, refs) /\ h.idOf = g.idOf
<1>1. h = [idOf |-> g.idOf, urlOf |-> g.urlOf, cited |-> g.cited, alias |-> a]
  BY DEF RefsInv, GateRecord
<1>2. GateRecord(h) /\ h.idOf = g.idOf /\ h.urlOf = g.urlOf /\ h.cited = g.cited
  BY <1>1 DEF GateRecord
<1>3. Registered(h, o.urls)
  BY <1>2 DEF RefsInv, Registered
<1>4. CitationsSeen(h, o.urls, o.seen)
  BY <1>2 DEF RefsInv, CitationsSeen, CitedAt
<1> QED  BY <1>2, <1>3, <1>4 DEF RefsInv

\* A canonical source becomes an alias or is fresh (_forward_canonical_events).
LEMMA ForwardedSource ==
  ASSUME NEW s, NEW refs, Whole(s, refs), NEW n \in 1..Len(refs),
         NEW e, e = P!CanonicalSource(refs[n])
  PROVE  Whole(P!ForwardOne(s, e), refs)
<1> DEFINE url == refs[n][1]
           g == s.gate
           o == s.obs
<1>1. /\ e = [kind |-> "source", id |-> P!CanonicalId(url), url |-> url] /\ e.kind = "source"
      /\ e.kind # "citation" /\ e.id = P!CanonicalId(url) /\ e.url = url
  BY DEF P!CanonicalSource
<1>2. RefsInv(g, o, refs) /\ StoryInv(o) /\ s = [gate |-> g, obs |-> o]
  BY DEF Whole
<1> HIDE DEF url, g, o
<1>3. CASE e.url \in DOMAIN g.idOf
  <2> DEFINE a == P!Put(g.alias, e.id, g.idOf[e.url])
             h == [g EXCEPT !.alias = a]
  <2>1. P!ForwardOne(s, e) = [s EXCEPT !.gate.alias = P!Put(s.gate.alias, e.id, s.gate.idOf[e.url])]
    BY <1>1, <1>3, Zenon DEF P!ForwardOne, g
  <2>2. P!ForwardOne(s, e) = [gate |-> h, obs |-> o]
    <3>1. s.gate = g
      BY DEF g
    <3> QED  BY <1>2, <2>1, <3>1
  <2>3. RefsInv(h, o, refs)
    <3> HIDE DEF a
    <3> QED  BY <1>2, AliasFree
  <2> HIDE DEF h
  <2> QED  BY <1>2, <2>2, <2>3 DEF Whole
<1>4. CASE e.url \notin DOMAIN g.idOf
  <2> DEFINE a == P!Put(g.alias, e.id, e.id)
             h == [g EXCEPT !.alias = a]
  <2>1. P!ForwardOne(s, e) = [gate |-> P!Record(h, e), obs |-> P!Consume(o, e)]
    BY <1>1, <1>4, Zenon DEF P!ForwardOne, g, o
  <2>2. RefsInv(h, o, refs) /\ h.idOf = g.idOf
    <3> HIDE DEF a
    <3> QED  BY <1>2, AliasFree
  <2> HIDE DEF h
  <2>3. Fresh(o.urls, e)
    <3>1. \A x \in DOMAIN o.urls : o.urls[x] # e.url
      BY <1>2, <1>4 DEF RefsInv, Registered
    <3>2. \A x \in DOMAIN o.urls : x = e.id => o.urls[x] = e.url
      BY <1>1, <1>2 DEF RefsInv, CanonicalUrls, url
    <3> QED  BY <3>1, <3>2 DEF Fresh
  <2>4. Canonical(e, refs)
    BY <1>1 DEF Canonical, P!CanonicalId
  <2>5. RefsInv(P!Record(h, e), P!Consume(o, e), refs)
    BY <1>1, <2>2, <2>3, <2>4, SourceStep
  <2>6. StoryInv(P!Consume(o, e))
    <3>1. ProductEvent(e)
      BY <1>1 DEF ProductEvent
    <3> QED  BY <1>2, <3>1, StoryConsumed
  <2> QED  BY <2>1, <2>5, <2>6 DEF Whole
<1> QED  BY <1>3, <1>4

\* A canonical citation, of the source its alias names, is skipped or of a new place.
LEMMA ForwardedCitation ==
  ASSUME NEW s, NEW refs, Whole(s, refs), NEW ref, NEW e, e = P!CanonicalCitation(ref)
  PROVE  Whole(P!ForwardOne(s, e), refs)
<1> DEFINE g == s.gate
           o == s.obs
           a == P!Lookup(g.alias, e.source, e.source)
           x == [e EXCEPT !.source = P!Lookup(s.gate.alias, @, @)]
<1>1. /\ e = [kind |-> "citation", source |-> e.source, range |-> e.range]
      /\ e.kind = "citation" /\ e.kind # "source"
  BY DEF P!CanonicalCitation
<1>2. RefsInv(g, o, refs) /\ StoryInv(o) /\ s = [gate |-> g, obs |-> o]
  BY DEF Whole
<1>3. /\ x = [kind |-> "citation", source |-> a, range |-> e.range]
      /\ x.kind = "citation" /\ x.source = a /\ x.range = e.range
  BY <1>1
<1> HIDE DEF g, o, a
<1>4. CASE x.source \notin DOMAIN g.urlOf \/ <<g.urlOf[x.source], x.range>> \in g.cited
  <2>1. P!ForwardOne(s, e) = s
    BY <1>1, <1>4, Zenon DEF P!ForwardOne, g
  <2> QED  BY <2>1
<1>5. CASE ~(x.source \notin DOMAIN g.urlOf \/ <<g.urlOf[x.source], x.range>> \in g.cited)
  <2>1. P!ForwardOne(s, e) = [gate |-> P!Record(g, x), obs |-> P!Consume(o, x)]
    BY <1>1, <1>5, Zenon DEF P!ForwardOne, g, o
  <2> HIDE DEF x
  <2>2. NewPlace(o.seen, x)
    <3> SUFFICES ASSUME NEW n \in 1..Len(o.seen), o.seen[n].kind = "citation",
                        SamePlace(o.seen[n], x)
                 PROVE  FALSE
      BY DEF NewPlace
    <3>1. CitedAt(g, o.urls, o.seen, n)
      BY <1>2 DEF RefsInv, CitationsSeen
    <3>2. <<o.urls[x.source], x.range>> \in g.cited
      BY <3>1 DEF CitedAt, SamePlace
    <3> QED  BY <1>2, <1>5, <3>2 DEF RefsInv, Registered
  <2>3. RefsInv(P!Record(g, x), P!Consume(o, x), refs)
    BY <1>2, <1>3, <2>2, CitationStep
  <2>4. StoryInv(P!Consume(o, x))
    <3>1. ProductEvent(x)
      BY <1>3 DEF ProductEvent
    <3> QED  BY <1>2, <3>1, StoryConsumed
  <2> QED  BY <2>1, <2>3, <2>4 DEF Whole
<1> QED  BY <1>4, <1>5

\* So each canonical reference keeps the agreement.
LEMMA ForwardedReference ==
  ASSUME NEW s, NEW refs, Whole(s, refs), NEW n \in 1..Len(refs)
  PROVE  Whole(P!ForwardReference(s, refs, n), refs)
<1> DEFINE new == \A k \in 1..(n - 1) : refs[k][1] # refs[n][1]
           p == IF new THEN P!ForwardOne(s, P!CanonicalSource(refs[n])) ELSE s
<1>1. P!ForwardReference(s, refs, n) = P!ForwardOne(p, P!CanonicalCitation(refs[n]))
  BY DEF P!ForwardReference
<1>2. Whole(p, refs)
  <2>1. Whole(P!ForwardOne(s, P!CanonicalSource(refs[n])), refs)
    BY ForwardedSource
  <2> QED  BY <2>1
<1> HIDE DEF p
<1> QED  BY <1>1, <1>2, ForwardedCitation

\* u says what the gate and the collector are after each reference.
Forwards(s, refs, u) ==
  u = [n \in 0..Len(refs) |-> IF n = 0 THEN s ELSE P!ForwardReference(u[n - 1], refs, n)]

\* There is such a function for every sequence of references.
LEMMA ForwardsExists ==
  ASSUME NEW s, NEW refs, Len(refs) \in Nat
  PROVE  \E u : Forwards(s, refs, u)
<1> DEFINE Solves(g, k) ==
             g = [n \in 0..k |-> IF n = 0 THEN s ELSE P!ForwardReference(g[n - 1], refs, n)]
           Missing == {k \in Nat : k <= Len(refs) /\ ~ \E g : Solves(g, k)}
<1>1. Missing = {}
  <2> SUFFICES ASSUME Missing # {} PROVE FALSE
    OBVIOUS
  <2>1. PICK k \in Missing : \A z \in Missing : k <= z
    <3> HIDE DEF Missing
    <3>1. Missing \in SUBSET Nat
      BY DEF Missing
    <3> QED  BY <3>1, LeastNumber
  <2>2. CASE k = 0
    <3> DEFINE g == [n \in 0..0 |-> s]
    <3>1. Solves(g, 0)
      OBVIOUS
    <3> QED  BY <2>1, <2>2, <3>1
  <2>3. CASE k # 0
    <3>1. k \in Nat /\ k <= Len(refs)
      OBVIOUS
    <3>2. k - 1 \notin Missing
      <4> HIDE DEF Missing
      <4> QED  BY <2>1, <3>1
    <3>3. PICK g : Solves(g, k - 1)
      <4> HIDE DEF Solves
      <4> QED  BY <2>3, <3>1, <3>2
    <3> DEFINE h == [n \in 0..k |-> IF n < k THEN g[n]
                                    ELSE P!ForwardReference(g[k - 1], refs, k)]
    <3>4. ASSUME NEW n \in 0..k
          PROVE  h[n] = IF n = 0 THEN s ELSE P!ForwardReference(h[n - 1], refs, n)
      <4>1. n # 0 => h[n - 1] = g[n - 1]
        BY <3>1
      <4>2. CASE n < k
        <5>1. g[n] = IF n = 0 THEN s ELSE P!ForwardReference(g[n - 1], refs, n)
          BY <3>1, <3>3, <4>2
        <5> QED  BY <4>1, <4>2, <5>1
      <4>3. CASE n = k
        BY <2>3, <4>1, <4>3
      <4> QED  BY <3>1, <4>2, <4>3
    <3>5. Solves(h, k)
      BY <3>4
    <3> QED  BY <2>1, <3>5
  <2> QED  BY <2>2, <2>3
<1>2. \E g : Solves(g, Len(refs))
  BY <1>1
<1> QED  BY <1>2 DEF Forwards

\* And so do all of them: the least number of references that would not cannot be.
LEMMA Forwarded ==
  ASSUME NEW g, NEW o, NEW refs, Len(refs) \in Nat, RefsInv(g, o, refs), StoryInv(o)
  PROVE  Whole(P!ForwardCanonical(g, o, refs), refs)
<1> DEFINE s == [gate |-> g, obs |-> o]
           l == Len(refs)
<1>1. PICK u : Forwards(s, refs, u) /\ P!ForwardCanonical(g, o, refs) = u[l]
  <2> DEFINE f == CHOOSE u : Forwards(s, refs, u)
  <2>1. Forwards(s, refs, f)
    <3>1. \E u : Forwards(s, refs, u)
      BY ForwardsExists
    <3> QED  BY <3>1
  <2>2. P!ForwardCanonical(g, o, refs) = f[l]
    BY DEF P!ForwardCanonical, Forwards
  <2> QED  BY <2>1, <2>2
<1> HIDE DEF s
<1>2. Whole(s, refs)
  BY DEF Whole, s
<1>3. \A n \in 0..l : u[n] = IF n = 0 THEN s ELSE P!ForwardReference(u[n - 1], refs, n)
  BY <1>1 DEF Forwards
<1> DEFINE Bad == {k \in Nat : k <= l /\ ~Whole(u[k], refs)}
<1>4. Bad = {}
  <2> SUFFICES ASSUME Bad # {} PROVE FALSE
    OBVIOUS
  <2>1. PICK k \in Bad : \A z \in Bad : k <= z
    <3>1. Bad \in SUBSET Nat
      OBVIOUS
    <3> HIDE DEF Bad
    <3> QED  BY <3>1, LeastNumber
  <2>2. k \in 0..l /\ ~Whole(u[k], refs)
    OBVIOUS
  <2>3. k # 0
    BY <1>2, <1>3, <2>2
  <2>4. Whole(u[k - 1], refs)
    <3>1. k - 1 \notin Bad
      <4> HIDE DEF Bad
      <4> QED  BY <2>1, <2>2
    <3> QED  BY <2>2, <2>3, <3>1
  <2>5. Whole(P!ForwardReference(u[k - 1], refs, k), refs)
    BY <2>2, <2>3, <2>4, ForwardedReference
  <2> QED  BY <1>3, <2>2, <2>3, <2>5
<1>5. Whole(u[l], refs)
  BY <1>4
<1> QED  BY <1>1, <1>5

-----------------------------------------------------------------------------
(* References on their way and arrived *)

\* A reference observed of the stream was reported by the page and is no longer on its way.
Arrived(w, x) == Reported(x) /\ \A n \in 1..Len(w) : w[n] # x
SeenInv ==
  phase = "streaming" =>
    \A n \in 1..Len(obs.seen) : IsReference(obs.seen[n]) => Arrived(wire, obs.seen[n])

\* A reference that has arrived does not come again.
LEMMA StillArrived ==
  ASSUME PageInv, WireInv, [StreamNext]_streamVars, NEW x, IsReference(x), Arrived(wire, x)
  PROVE  Arrived(wire, x)'
<1> DEFINE w == wire
           v == wire'
<1>1. Reported(x)'
  BY PageGoesOn DEF GoesOn, Reported, Arrived
<1>2. Len(w) \in Nat /\ Wired(w) /\ \A n \in 1..Len(w) : w[n] # x
  BY DEF WireInv, Wired, Arrived
<1>3. ASSUME \A n \in 1..Len(v) : v[n] # x PROVE Arrived(wire, x)'
  BY <1>1, <1>3 DEF Arrived
<1>4. ASSUME NEW e, v = Append(w, e), e # x PROVE Arrived(wire, x)'
  <2>1. w \in Seq(Range(w) \cup {e})
    <3>1. w \in Seq(TextFrames \cup plan.menu)
      BY <1>2 DEF Wired
    <3> HIDE DEF w
    <3> QED  BY <3>1 DEF Range
  <2>2. Len(v) = Len(w) + 1 /\ v[Len(w) + 1] = e /\ \A n \in 1..Len(w) : v[n] = w[n]
    <3> HIDE DEF w, v
    <3> QED  BY <1>4, <2>1
  <2>3. \A n \in 1..Len(v) : v[n] # x
    <3> HIDE DEF w, v
    <3> QED  BY <1>2, <1>4, <2>2
  <2> QED  BY <1>3, <2>3
<1>5. ASSUME NEW m \in Messages, Observe(m) PROVE Arrived(wire, x)'
  <2>1. PICK e : wire' = Append(wire, e) /\ e.kind = "text"
    BY <1>5, ObserveFrame
  <2>2. e # x
    BY <2>1 DEF IsReference
  <2> QED  BY <1>4, <2>1, <2>2
<1>6. ASSUME NEW e \in plan.menu, Report(e) PROVE Arrived(wire, x)'
  <2>1. wire' = Append(wire, e) /\ (e.kind \in {"source", "citation"} => e \notin Range(page.events))
    BY <1>6 DEF Report
  <2>2. e # x
    BY <2>1 DEF IsReference, Arrived, Reported
  <2> QED  BY <1>4, <2>1, <2>2
<1>7. ASSUME wire # <<>>, wire' = Tail(wire) PROVE Arrived(wire, x)'
  <2>1. /\ Len(Tail(w)) = Len(w) - 1 /\ \A n \in 1..(Len(w) - 1) : Tail(w)[n] = w[n + 1]
    BY <1>2, <1>7, WiredTail
  <2>2. \A n \in 1..Len(v) : v[n] # x
    <3>1. v = Tail(w)
      BY <1>7
    <3> HIDE DEF w, v
    <3> QED  BY <1>2, <2>1, <3>1
  <2> QED  BY <1>3, <2>2
<1>8. ASSUME NEW repeat \in BOOLEAN, Overtake(repeat) PROVE Arrived(wire, x)'
  <2>1. /\ v = Swapped(w, repeat) /\ Len(w) > 1
        /\ w[1].kind = "text" /\ w[2].kind = "text"
    BY <1>8 DEF Overtake, Swapped
  <2>2. \A n \in 1..Len(v) : \E i \in 1..Len(w) : v[n] = w[i]
    BY <1>2, <2>1, WiredSwapped
  <2> HIDE DEF w, v
  <2>3. \A n \in 1..Len(v) : v[n] # x
    BY <1>2, <2>2
  <2> QED  BY <1>3, <2>3 DEF w, v
<1>9. ASSUME wire' = wire PROVE Arrived(wire, x)'
  BY <1>2, <1>3, <1>9
<1> QED
  BY <1>5, <1>6, <1>7, <1>8, <1>9
  DEF StreamNext, streamVars, Write, Lose, Deliver, Finalize

\* The gate and the collector of the turn.
RefsHold == RefsInv(gate, obs, plan.refs) /\ StoryInv(obs)

\* Both hold at first.
LEMMA RefsHoldInit == StreamInit => RefsHold /\ SeenInv
<1> SUFFICES ASSUME StreamInit PROVE RefsHold /\ SeenInv
  OBVIOUS
<1>1. gate = P!NewGate /\ obs = P!NewObservations /\ Len(obs.seen) = 0
  BY DEF StreamInit, P!NewObservations
<1> QED  BY <1>1, RefsInit, StoryInit DEF RefsHold, SeenInv

\* What an event that has arrived is to the references observed.
LEMMA ReferenceIsNew ==
  ASSUME PageInv, SeenInv, RefsHold, phase = "streaming", NEW e, Reported(e), ProductEvent(e),
         NEW n \in 1..Len(obs.seen), obs.seen[n].kind = e.kind, IsReference(e)
  PROVE  /\ Reported(obs.seen[n]) /\ ProductEvent(obs.seen[n])
         /\ e.kind = "source" =>
              /\ obs.seen[n].id = e.id <=> obs.seen[n].url = e.url
         /\ e.kind = "citation" /\ SamePlace(obs.seen[n], e) => obs.seen[n] = e
<1> DEFINE x == obs.seen[n]
<1>1. IsReference(x)
  BY DEF IsReference
<1>2. Reported(x) /\ plan \in Plans
  BY <1>1 DEF SeenInv, Arrived, PageInv
<1>3. ProductEvent(x)
  BY <1>2, PlansAssumption DEF Reported
<1>4. e.kind = "source" => (x.id = e.id <=> x.url = e.url)
  BY <1>2, PlansAssumption DEF Reported, Sources
<1>5. ASSUME e.kind = "citation", SamePlace(x, e) PROVE x = e
  <2>1. /\ x = [kind |-> "citation", source |-> x.source, range |-> x.range]
        /\ e = [kind |-> "citation", source |-> e.source, range |-> e.range]
    BY <1>3, <1>5 DEF ProductEvent
  <2> QED  BY <1>5, <2>1 DEF SamePlace
<1> QED  BY <1>2, <1>3, <1>4, <1>5

\* What an event that has arrived makes of the gate and the collector.
LEMMA RefsHandled ==
  ASSUME PageInv, SeenInv, RefsHold, phase = "streaming", NEW e, Reported(e), ProductEvent(e),
         \A n \in 1..Len(obs.seen) : IsReference(e) => obs.seen[n] # e
  PROVE  /\ RefsInv(P!Record(gate, e), P!Consume(obs, e), plan.refs)
         /\ StoryInv(P!Consume(obs, e))
         /\ \/ P!Consume(obs, e).seen = obs.seen
            \/ \E x : Observes(obs, P!Consume(obs, e), x) /\ (IsReference(x) => x = e)
<1> DEFINE q == P!Consume(obs, e)
           g == P!Record(gate, e)
           refs == plan.refs
<1>1. StoryInv(q) /\ RefsInv(gate, obs, refs) /\ Collector(obs)
  BY StoryConsumed DEF RefsHold, StoryInv
<1>2. CASE e.kind = "source"
  <2>1. IsReference(e)
    BY <1>2 DEF IsReference
  <2>2. \A x \in DOMAIN obs.urls : x = e.id <=> obs.urls[x] = e.url
    <3> SUFFICES ASSUME NEW x \in DOMAIN obs.urls PROVE x = e.id <=> obs.urls[x] = e.url
      OBVIOUS
    <3>1. PICK n \in 1..Len(obs.seen) : SourceAt(obs.seen, n, x)
      BY <1>1 DEF RefsInv, SourcesSeen
    <3>2. obs.seen[n].kind = "source" /\ obs.seen[n].id = x /\ obs.urls[x] = obs.seen[n].url
      BY <1>1, <3>1 DEF SourceAt, RefsInv, SourcesSeen
    <3>3. obs.seen[n].id = e.id <=> obs.seen[n].url = e.url
      BY <1>2, <2>1, <3>2, ReferenceIsNew
    <3> QED  BY <3>2, <3>3
  <2>3. Fresh(obs.urls, e)
    BY <2>2 DEF Fresh
  <2>4. Canonical(e, refs)
    <3>1. plan \in Plans /\ e \in Sources(plan)
      BY <1>2 DEF PageInv, Reported, Sources
    <3> QED  BY <3>1, PlansAssumption DEF Canonical
  <2>5. RefsInv(g, q, refs) /\ Observes(obs, q, e)
    <3> HIDE DEF refs
    <3> QED  BY <1>1, <1>2, <2>3, <2>4, SourceStep
  <2> QED  BY <1>1, <2>5
<1>3. CASE e.kind = "citation"
  <2>1. IsReference(e)
    BY <1>3 DEF IsReference
  <2>2. NewPlace(obs.seen, e)
    <3> SUFFICES ASSUME NEW n \in 1..Len(obs.seen), obs.seen[n].kind = "citation",
                        SamePlace(obs.seen[n], e)
                 PROVE  FALSE
      BY DEF NewPlace
    <3>1. obs.seen[n] = e
      BY <1>3, <2>1, ReferenceIsNew
    <3> QED  BY <2>1, <3>1
  <2>3. RefsInv(g, q, refs) /\ (q.seen = obs.seen \/ Observes(obs, q, e))
    <3> HIDE DEF refs
    <3> QED  BY <1>1, <1>3, <2>2, CitationStep
  <2> QED  BY <1>1, <2>3
<1>4. CASE ~IsReference(e)
  <2>1. g = gate
    BY <1>4, OtherRecorded
  <2>2. /\ Collector(q) /\ q.urls = obs.urls
        /\ q.seen = obs.seen \/ \E x : Observes(obs, q, x) /\ ~IsReference(x)
    <3>1. CASE Has(e)
      BY <1>1, <1>4, <3>1, ConsumedCorrelated DEF Knows
    <3>2. CASE ~Has(e)
      BY <1>1, <1>4, <3>2, ConsumedOther DEF Knows
    <3> QED  BY <3>1, <3>2
  <2>3. RefsInv(gate, q, refs)
    <3> HIDE DEF refs, q
    <3> QED  BY <1>1, <2>2, RefsKept
  <2> QED  BY <1>1, <2>1, <2>2, <2>3
<1> QED  BY <1>2, <1>3, <1>4 DEF IsReference

\* Every step keeps both.
LEMMA RefsStep ==
  ASSUME PageInv, WireInv, SeenInv, RefsHold, [StreamNext]_streamVars
  PROVE  SeenInv' /\ RefsHold'
<1>1. plan' = plan
  BY PageGoesOn DEF GoesOn
<1>2. ASSUME UNCHANGED <<gate, obs, phase>> PROVE SeenInv' /\ RefsHold'
  <2>1. PICK g, o : g = gate /\ o = obs
    OBVIOUS
  <2>2. RefsHold'
    BY <1>1, <1>2 DEF RefsHold
  <2>3. SeenInv'
    <3> SUFFICES ASSUME phase = "streaming", NEW n \in 1..Len(o.seen), IsReference(o.seen[n])
                 PROVE  Arrived(wire, o.seen[n])'
      BY <1>2, <2>1 DEF SeenInv
    <3>1. Arrived(wire, o.seen[n])
      BY <2>1 DEF SeenInv
    <3> QED  BY <3>1, StillArrived
  <2> QED  BY <2>2, <2>3
<1>3. CASE Finalize
  <2> DEFINE s == P!ForwardCanonical(gate, obs, plan.refs)
  <2>1. phase' = "done" /\ gate' = s.gate /\ obs' = s.obs
    BY <1>3 DEF Finalize
  <2>2. Len(plan.refs) \in Nat
    BY PlansAssumption DEF PageInv
  <2>3. Whole(s, plan.refs)
    BY <2>2, Forwarded DEF RefsHold
  <2> HIDE DEF s
  <2>4. RefsHold'
    BY <1>1, <2>1, <2>3 DEF RefsHold, Whole
  <2> QED  BY <2>1, <2>4 DEF SeenInv
<1>4. ASSUME NEW e, HandedText(e) PROVE SeenInv' /\ RefsHold'
  BY <1>2, <1>4 DEF HandedText, Handed
<1>5. ASSUME NEW e, HandedEvent(e) PROVE SeenInv' /\ RefsHold'
  <2>1. PICK w : w = wire
    OBVIOUS
  <2>2. PICK g, o, q : g = gate /\ o = obs /\ q = P!Consume(obs, e)
    OBVIOUS
  <2>3. /\ w # <<>> /\ e = Head(w) /\ wire' = Tail(w) /\ e.kind # "text" /\ phase' = phase
        /\ gate' = P!Record(gate, e) /\ obs' = q /\ Wired(w) /\ phase = "streaming"
    BY <1>5, <2>1, <2>2 DEF HandedEvent, Handed, WireInv, PageInv
  <2>4. /\ OnWire(e) /\ \A n \in 1..Len(Tail(w)) : IsReference(e) => Tail(w)[n] # e
        /\ Len(w) \in Nat /\ Len(w) > 0 /\ w[1] = e
    BY <2>3, WiredTail
  <2>5. Reported(e)
    BY <2>3, <2>4 DEF OnWire
  <2>6. ProductEvent(e)
    BY <2>5, ReportedEvent DEF Reported
  <2>7. ASSUME IsReference(e), NEW n \in 1..Len(obs.seen) PROVE obs.seen[n] # e
    <3> SUFFICES ASSUME obs.seen[n] = e PROVE FALSE
      OBVIOUS
    <3>1. Arrived(w, e)
      BY <2>1, <2>3, <2>7 DEF SeenInv
    <3> QED  BY <2>4, <3>1 DEF Arrived
  <2>8. /\ RefsInv(P!Record(gate, e), q, plan.refs) /\ StoryInv(q)
        /\ q.seen = obs.seen \/ \E x : Observes(obs, q, x) /\ (IsReference(x) => x = e)
    BY <2>2, <2>3, <2>5, <2>6, <2>7, RefsHandled
  <2>9. RefsHold'
    BY <1>1, <2>3, <2>8 DEF RefsHold
  <2>10. Arrived(wire, e)' \/ ~IsReference(e)
    <3>1. Reported(e)'
      BY <2>5, PageGoesOn DEF GoesOn, Reported
    <3> QED  BY <2>3, <2>4, <3>1 DEF Arrived
  <2>11. ASSUME NEW n \in 1..Len(o.seen), IsReference(o.seen[n])
         PROVE  Arrived(wire, o.seen[n])'
    <3>1. Arrived(wire, o.seen[n])
      BY <2>2, <2>3, <2>11 DEF SeenInv
    <3> QED  BY <2>11, <3>1, StillArrived
  <2>12. ASSUME NEW n \in 1..Len(q.seen), IsReference(q.seen[n])
         PROVE  Arrived(wire, q.seen[n])'
    <3>1. CASE q.seen = o.seen
      BY <2>11, <2>12, <3>1
    <3>2. ASSUME NEW x, Observes(o, q, x), IsReference(x) => x = e
          PROVE  Arrived(wire, q.seen[n])'
      <4>1. /\ Len(o.seen) \in Nat /\ Len(q.seen) = Len(o.seen) + 1
            /\ q.seen[Len(o.seen) + 1] = x
            /\ \A k \in 1..Len(o.seen) : q.seen[k] = o.seen[k]
        BY <2>2, <3>2, OneMoreObserved DEF RefsHold, StoryInv
      <4>2. CASE n \in 1..Len(o.seen)
        <5>1. q.seen[n] = o.seen[n]
          BY <4>1, <4>2
        <5> QED  BY <2>11, <2>12, <4>2, <5>1
      <4>3. CASE n = Len(o.seen) + 1
        BY <2>10, <2>12, <3>2, <4>1, <4>3
      <4> QED  BY <4>1, <4>2, <4>3
    <3> QED  BY <2>2, <2>8, <3>1, <3>2
  <2>13. SeenInv'
    BY <2>3, <2>12 DEF SeenInv
  <2> QED  BY <2>9, <2>13
<1> QED  BY <1>2, <1>3, <1>4, <1>5, OtherSteps, Delivered

\* They hold of every behaviour.
LEMMA ReferencesHold == StreamSpec => [](SeenInv /\ RefsHold)
<1>1. StreamInit => SeenInv /\ RefsHold
  BY RefsHoldInit
<1>2. TurnInv /\ SeenInv /\ RefsHold /\ [StreamNext]_streamVars => (SeenInv /\ RefsHold)'
  BY RefsStep DEF TurnInv
<1> QED  BY <1>1, <1>2, TurnInvariant, PTL DEF StreamSpec

\* The sources and citations reported of a turn are consistent, whether they come from
\* the stream or from the canonical message and whichever frames were lost: one source
\* for an address, a citation only of a source reported before it, a place cited once
\* (_forward_canonical_events, _consume_source, _consume_citation), for any number of
\* canonical references.
THEOREM ProvenanceIsConsistentHolds == StreamSpec => []ProvenanceIsConsistent
<1>1. SeenInv /\ RefsHold => ProvenanceIsConsistent
  BY RefsConsistent DEF RefsHold
<1> QED  BY <1>1, ReferencesHold, PTL

\* The observations of one connector activity or required action never name two
\* connectors, operations or types, and none contradicts an end already observed
\* (_consume_connector, _consume_required_action).
THEOREM OneStoryPerActivityHolds == StreamSpec => []OneStoryPerActivity
<1>1. SeenInv /\ RefsHold => OneStoryPerActivity
  BY StoryAgrees DEF RefsHold
<1> QED  BY <1>1, ReferencesHold, PTL
=============================================================================
