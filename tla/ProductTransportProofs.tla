------------------------ MODULE ProductTransportProofs ----------------------
(***************************************************************************)
(* Proofs about WriteRuntime and the ProductTransport above it, for every  *)
(* set of turns and threads. Of the runtime, whoever calls it: that a      *)
(* disposal is fenced by the newest lease, that a released lease is        *)
(* proven, and that it keeps the authority ledger, with and without the    *)
(* readback handshake. Of the transport, without callbacks that call it    *)
(* again: one turn is in flight at a time, the turns are isolated from     *)
(* each other and from earlier disposals, and the transport implements its *)
(* submission slot.                                                        *)
(***************************************************************************)
EXTENDS ProductTransport, TLAPS

-----------------------------------------------------------------------------
(* WriteRuntime: its steps *)

\* A step of the runtime on behalf of a turn, whoever may start calls.
RuntimeStep ==
  \E t \in Turns :
    \/ Refuse(t)
    \/ \E d, s \in BOOLEAN : Issue(t, d, s)
    \/ CallStep(t) \/ ReadBaseline(t) \/ PollRead(t)
    \/ TimerStep(t) \/ LaneExpires(t)

\* Every step of the specification is one of these or leaves the state alone.
LEMMA NextIsRuntimeStep == [Next]_vars => RuntimeStep \/ UNCHANGED vars
BY DEF Next, RuntimeStep, Start, AllDone

-----------------------------------------------------------------------------
(* Types *)

\* A fresh runtime has the types of TypeOK.
LEMMA TypeCorrectInit == Init => TypeOK
BY WriteRuntimeAssumption
   DEF Init, TypeOK, Lease, TurnLifecycle, LeaseStates, TurnStates, TimerStates, PCs, Acks,
       Results

\* The critical section both release points share keeps the types.
LEMMA ReleaseTypes ==
  ASSUME TypeOK, NEW t \in Turns, NEW next \in PCs, ReleaseLastLease(t, next)
  PROVE  /\ lastLease' \in [turn : Turns \union {NoTurn}, state : LeaseStates]
         /\ leaseRef' \in [Turns -> LeaseStates]
         /\ pc' \in [Turns -> PCs]
<1> USE DEF TypeOK, ReleaseLastLease, Goto, Lease, LeaseStates, PCs
<1>1. CASE lastLease.turn = t
  BY <1>1
<1>2. CASE lastLease.turn # t
  BY <1>2
<1> QED  BY <1>1, <1>2

\* Every critical section, exchange and timer step keeps the types.
LEMMA TypeCorrectStep == TypeOK /\ RuntimeStep => TypeOK'
<1> SUFFICES ASSUME TypeOK, RuntimeStep PROVE TypeOK'
  OBVIOUS
<1> USE DEF TypeOK, Goto, Lease, TurnLifecycle, lockedVars, callVars, LeaseStates,
    TurnStates, TimerStates, PCs, Acks, Results
<1>1. ASSUME NEW t \in Turns, Refuse(t) PROVE TypeOK'
  BY <1>1 DEF Refuse
<1>2. ASSUME NEW t \in Turns, NEW d \in BOOLEAN, NEW s \in BOOLEAN, Issue(t, d, s)
      PROVE  TypeOK'
  <2>1. generation + 1 \in Nat
    OBVIOUS
  <2>2. timer' \in [Turns -> TimerStates]
    BY <1>2 DEF Issue, CancelPendingTimer
  <2> QED  BY <1>2, <2>1, <2>2 DEF Issue
<1>3. ASSUME NEW t \in Turns, WriteRefused(t) \/ Delegate(t) \/ WriteFails(t)
      PROVE  TypeOK'
  BY <1>3 DEF WriteRefused, Delegate, WriteFails
<1>4. ASSUME NEW t \in Turns, RecordWrite(t) PROVE TypeOK'
  <2>1. AfterWrite(t) \in PCs
    BY DEF AfterWrite
  <2>2. CASE lastLease.turn = t
    <3>1. lastTurn' \in [turn : Turns \union {NoTurn}, state : TurnStates]
      BY <1>4, <2>2 DEF RecordWrite, CompleteLastTurn
    <3>2. turnRef' \in [Turns -> [turn : Turns \union {NoTurn}, state : TurnStates]]
      BY <1>4, <2>2, <3>1 DEF RecordWrite, CompleteLastTurn
    <3> QED  BY <1>4, <2>1, <2>2, <3>1, <3>2 DEF RecordWrite
  <2>3. CASE lastLease.turn # t
    BY <1>4, <2>1, <2>3 DEF RecordWrite
  <2> QED  BY <2>2, <2>3
<1>5. ASSUME NEW t \in Turns, ReleaseOnWrite(t) PROVE TypeOK'
  <2>1. AfterWrite(t) \in PCs
    BY DEF AfterWrite
  <2>2. CASE lastLease.turn = t
    <3>1. lastTurn' \in [turn : Turns \union {NoTurn}, state : TurnStates]
      BY <1>5, <2>2 DEF ReleaseOnWrite, CompleteLastTurn
    <3>2. turnRef' \in [Turns -> [turn : Turns \union {NoTurn}, state : TurnStates]]
      BY <1>5, <2>2, <3>1 DEF ReleaseOnWrite, CompleteLastTurn
    <3>3. /\ lastLease' \in [turn : Turns \union {NoTurn}, state : LeaseStates]
          /\ leaseRef' \in [Turns -> LeaseStates]
          /\ pc' \in [Turns -> PCs]
      BY <1>5, <2>1, ReleaseTypes DEF ReleaseOnWrite
    <3> QED  BY <1>5, <3>1, <3>2, <3>3 DEF ReleaseOnWrite
  <2>3. CASE lastLease.turn # t
    BY <1>5, <2>1, <2>3 DEF ReleaseOnWrite, ReleaseLastLease
  <2> QED  BY <2>2, <2>3
<1>6. ASSUME NEW t \in Turns,
             \/ ReadBaseline(t) \/ PollRead(t) \/ ReadFinal(t)
             \/ ReadFails(t) \/ CallbackRaises(t)
      PROVE  TypeOK'
  BY <1>6 DEF ReadBaseline, PollRead, ReadFinal, ReadFails, CallbackRaises, LaneAfterRead
<1>7. ASSUME NEW t \in Turns, NEW outcome \in Outcomes,
             AcknowledgeFinal(t, outcome) \/ AcknowledgeFailed(t, outcome)
               \/ AcknowledgeAtLast(t, outcome)
      PROVE  TypeOK'
  <2>1. ASSUME Acknowledge(t, outcome)
        PROVE  lane' \in Turns \union {NoTurn} /\ ack' \in [Turns -> Acks]
    BY <2>1 DEF Acknowledge, Completes
  <2> QED
    BY <1>7, <2>1 DEF AcknowledgeFinal, AcknowledgeFailed, AcknowledgeAtLast, EndCall
<1>8. ASSUME NEW t \in Turns, ReleaseAfterReadback(t) PROVE TypeOK'
  <2>1. AfterRelease(t) \in PCs
    BY DEF AfterRelease, AfterWrite
  <2>2. /\ lastLease' \in [turn : Turns \union {NoTurn}, state : LeaseStates]
        /\ leaseRef' \in [Turns -> LeaseStates]
        /\ pc' \in [Turns -> PCs]
    BY <1>8, <2>1, ReleaseTypes DEF ReleaseAfterReadback
  <2> QED  BY <1>8, <2>2 DEF ReleaseAfterReadback
<1>9. ASSUME NEW t \in Turns, StoreTimer(t) \/ StartTimer(t) PROVE TypeOK'
  <2>1. CASE StoreTimer(t)
    BY <2>1 DEF StoreTimer
  <2>2. CASE StartTimer(t)
    <3>1. AfterRelease(t) \in PCs
      BY DEF AfterRelease, AfterWrite
    <3> HIDE DEF AfterRelease
    <3> QED  BY <2>2, <3>1 DEF StartTimer
  <2> QED  BY <1>9, <2>1, <2>2
<1>10. ASSUME NEW t \in Turns, FinalizeTurn(t) \/ FailTurn(t) PROVE TypeOK'
  <2>1. CurrentTurn(t) \in [turn : Turns \union {NoTurn}, state : TurnStates]
    BY DEF CurrentTurn
  <2>2. lastTurn' \in [turn : Turns \union {NoTurn}, state : TurnStates]
    BY <1>10, <2>1 DEF FinalizeTurn, FailTurn, Failures, Terminal
  <2>3. turnRef' \in [Turns -> [turn : Turns \union {NoTurn}, state : TurnStates]]
    BY <1>10, <2>2 DEF FinalizeTurn, FailTurn
  <2>4. CASE FinalizeTurn(t)
    <3>1. pc' \in [Turns -> PCs] /\ result' \in [Turns -> Results]
      BY <2>4 DEF FinalizeTurn
    <3> QED  BY <2>2, <2>3, <2>4, <3>1 DEF FinalizeTurn
  <2>5. CASE FailTurn(t)
    BY <2>2, <2>3, <2>5 DEF FailTurn
  <2> QED  BY <1>10, <2>4, <2>5
<1>11. ASSUME NEW t \in Turns,
              SettleUnacknowledged(t) \/ MarkReleaseUnknown(t) \/ CloseCall(t)
       PROVE  TypeOK'
  <2>1. CASE SettleUnacknowledged(t)
    BY <2>1 DEF SettleUnacknowledged
  <2>2. CASE CloseCall(t)
    BY <2>2 DEF CloseCall, EndCall
  <2>3. CASE MarkReleaseUnknown(t)
    <3>1. /\ lastLease' \in [turn : Turns \union {NoTurn}, state : LeaseStates]
          /\ leaseRef' \in [Turns -> LeaseStates]
      BY <2>3 DEF MarkReleaseUnknown
    <3> QED  BY <2>3, <3>1 DEF MarkReleaseUnknown
  <2> QED  BY <1>11, <2>1, <2>2, <2>3
<1>12. ASSUME NEW t \in Turns, TimerStep(t) \/ LaneExpires(t) PROVE TypeOK'
  BY <1>12 DEF TimerStep, TimerFires, BeginDisposal, DisposalRefused, DisposalForwarded,
     DisposalAnswered, DisposalEnds, LaneExpires
<1>13. ASSUME NEW t \in Turns, CallStep(t) PROVE TypeOK'
  BY ONLY <1>3, <1>4, <1>5, <1>6, <1>7, <1>8, <1>9, <1>10, <1>11, <1>13
     DEF CallStep, WriteStep, ReadStep, EndStep
<1> QED
  BY ONLY RuntimeStep, <1>1, <1>2, <1>6, <1>12, <1>13 DEF RuntimeStep

\* The types hold in every state of every behaviour (send_text and the
\* disposal timers).
THEOREM TypeCorrect == Spec => []TypeOK
<1>1. TypeOK /\ UNCHANGED vars => TypeOK'
  BY DEF TypeOK, vars, lockedVars, callVars
<1> QED
  BY <1>1, TypeCorrectInit, TypeCorrectStep, NextIsRuntimeStep, PTL DEF Spec
-----------------------------------------------------------------------------
(* The fence around a disposal *)

\* The positions of a call at which its lease's timer cannot exist yet.
BeforeTimer ==
  IF client = "native"
  THEN {"idle", "write", "forwarded", "submitted", "read", "ack", "fail", "settle",
        "release", "store"}
  ELSE {"idle", "write", "forwarded", "store"}

\* The newest lease is the one its call knows, and the newest generation.
LeaseInv ==
  \A t \in Turns :
    /\ gen[t] <= generation
    /\ lastLease.turn = t => leaseRef[t] = lastLease.state

\* A timer belongs to a released disposable lease, and a call stores one timer.
CallInv ==
  \A t \in Turns :
    /\ pc[t] = "idle" => leaseRef[t] = "none"
    /\ pc[t] \in {"store", "start"} => leaseRef[t] = "RELEASED" /\ disposable[t]
    /\ pc[t] \in {"ack", "release"} => client = "native"
    /\ timer[t] # "none" => leaseRef[t] = "RELEASED" /\ disposable[t]
    /\ pc[t] \in BeforeTimer => timer[t] = "none"

\* The authority lock is held by exactly the disposal under way, whose lease
\* stays the newest one and released.  DisposalIsFenced needs it to rule out an
\* issue, a release or a second disposal during the exchange.
LockInv ==
  \A t \in Turns :
    /\ authorityLock = t => Disposing(t)
    /\ Disposing(t) =>
         authorityLock = t /\ lastLease = Lease(t, "RELEASED") /\ gen[t] = generation

FenceInv == TypeOK /\ LeaseInv /\ CallInv /\ LockInv

\* Nothing is disposed of in a fresh runtime.
LEMMA FenceInit == Init => FenceInv
<1> SUFFICES ASSUME Init PROVE LeaseInv /\ CallInv /\ LockInv
  BY TypeCorrectInit DEF FenceInv
<1> QED
  BY WriteRuntimeAssumption DEF Init, LeaseInv, CallInv, LockInv, Disposing, Lease

\* The fence holds after every step: the critical sections are excluded by the
\* lock while a disposal runs, and no other step touches the newest lease.
LEMMA FenceStep == FenceInv /\ RuntimeStep => FenceInv'
<1> SUFFICES ASSUME FenceInv, RuntimeStep PROVE LeaseInv' /\ CallInv' /\ LockInv'
  BY TypeCorrectStep DEF FenceInv
<1> USE WriteRuntimeAssumption
    DEF FenceInv, TypeOK, LeaseInv, CallInv, LockInv, Disposing, BeforeTimer, Goto, Lease,
        LockFree, lockedVars, callVars
<1>1. ASSUME NEW t \in Turns, Refuse(t) PROVE LeaseInv' /\ CallInv' /\ LockInv'
  BY <1>1 DEF Refuse
<1>2. ASSUME NEW t \in Turns, NEW d \in BOOLEAN, NEW s \in BOOLEAN, Issue(t, d, s)
      PROVE  LeaseInv' /\ CallInv' /\ LockInv'
  <2>1. \A u \in Turns : timer[u] = "none" <=> timer'[u] = "none"
    BY <1>2 DEF Issue, CancelPendingTimer
  <2>2. LeaseInv'
    BY <1>2 DEF Issue
  <2>3. CallInv'
    BY <1>2, <2>1 DEF Issue
  <2>4. \A u \in Turns : ~Disposing(u) /\ ~Disposing(u)'
    BY <1>2 DEF Issue, CancelPendingTimer
  <2>5. authorityLock' = NoTurn
    BY <1>2 DEF Issue
  <2> QED  BY <2>2, <2>3, <2>4, <2>5
<1>3. ASSUME NEW t \in Turns, WriteRefused(t) \/ Delegate(t) \/ WriteFails(t)
      PROVE  LeaseInv' /\ CallInv' /\ LockInv'
  <2>1. /\ UNCHANGED <<lockedVars, timer, client, disposable, gen, leaseRef>>
        /\ pc' = [pc EXCEPT ![t] = pc'[t]]
        /\ \/ pc[t] = "write" /\ pc'[t] \in {"forwarded", "fail"}
           \/ pc[t] = "forwarded" /\ pc'[t] = "fail"
    BY <1>3 DEF WriteRefused, Delegate, WriteFails
  <2>2. LeaseInv' /\ LockInv'
    BY <2>1
  <2>3. CallInv'
    BY <2>1
  <2> QED  BY <2>2, <2>3
<1>4. ASSUME NEW t \in Turns, RecordWrite(t) PROVE LeaseInv' /\ CallInv' /\ LockInv'
  <2>1. leaseRef' = leaseRef
    BY <1>4 DEF RecordWrite
  <2>2. pc'[t] \in {"submitted", "read"} /\ \A u \in Turns \ {t} : pc'[u] = pc[u]
    BY <1>4 DEF RecordWrite, AfterWrite
  <2>3. UNCHANGED <<timer, client, disposable, gen, generation, lastLease, authorityLock>>
    BY <1>4 DEF RecordWrite
  <2>4. pc[t] = "forwarded" /\ client = "native"
    BY <1>4 DEF RecordWrite
  <2>5. LeaseInv' /\ LockInv'
    BY <2>1, <2>3
  <2>6. CallInv'
    BY <2>1, <2>2, <2>3, <2>4
  <2> QED  BY <2>5, <2>6
<1>5. ASSUME NEW t \in Turns, ReleaseOnWrite(t) PROVE LeaseInv' /\ CallInv' /\ LockInv'
  <2>1. /\ pc[t] = "forwarded" /\ client # "native"
        /\ pc' = [pc EXCEPT ![t] = pc'[t]]
        /\ UNCHANGED <<timer, client, disposable, gen, generation, authorityLock>>
    BY <1>5 DEF ReleaseOnWrite, ReleaseLastLease
  <2>2. authorityLock = NoTurn
    BY <1>5 DEF ReleaseOnWrite, ReleaseLastLease
  <2>3. \A u \in Turns : ~Disposing(u)
    BY <2>2
  <2>4. LockInv'
    BY <2>1, <2>2, <2>3
  <2>5. AfterWrite(t) \in {"submitted", "read"}
    BY DEF AfterWrite
  <2>6. CASE lastLease.turn = t
    <3>1. /\ lastLease' = [turn |-> t, state |-> leaseRef'[t]]
          /\ leaseRef' = [leaseRef EXCEPT ![t] = leaseRef'[t]]
      BY <1>5, <2>6 DEF ReleaseOnWrite, ReleaseLastLease
    <3>2. \/ pc'[t] \in {"submitted", "read"}
          \/ pc'[t] = "store" /\ leaseRef'[t] = "RELEASED" /\ disposable[t]
      BY <1>5, <2>5, <2>6 DEF ReleaseOnWrite, ReleaseLastLease
    <3>3. LeaseInv'
      BY <2>1, <3>1
    <3>4. CallInv'
      BY <2>1, <3>1, <3>2
    <3> QED  BY <2>4, <3>3, <3>4
  <2>7. CASE lastLease.turn # t
    <3>1. UNCHANGED <<lastLease, leaseRef>> /\ pc'[t] \in {"submitted", "read"}
      BY <1>5, <2>5, <2>7 DEF ReleaseOnWrite, ReleaseLastLease
    <3> QED  BY <2>1, <2>4, <3>1
  <2> QED  BY <2>6, <2>7
<1>6. ASSUME NEW t \in Turns,
             \/ ReadBaseline(t) \/ PollRead(t) \/ ReadFinal(t)
             \/ ReadFails(t) \/ CallbackRaises(t)
      PROVE  LeaseInv' /\ CallInv' /\ LockInv'
  <2>1. UNCHANGED <<lockedVars, timer, client, disposable, gen, leaseRef>>
    BY <1>6 DEF ReadBaseline, PollRead, ReadFinal, ReadFails, CallbackRaises
  <2>2. LeaseInv' /\ LockInv'
    BY <2>1
  <2>3. CASE UNCHANGED pc
    BY <2>1, <2>2, <2>3
  <2>4. CASE /\ pc[t] = "read" /\ pc' = [pc EXCEPT ![t] = pc'[t]]
             /\ pc'[t] \in {"ack", "finalize", "fail", "close"}
             /\ pc'[t] = "ack" => client = "native"
    BY <2>1, <2>2, <2>4
  <2> QED
    BY <1>6, <2>3, <2>4 DEF ReadBaseline, PollRead, ReadFinal, ReadFails, CallbackRaises
<1>7. ASSUME NEW t \in Turns, NEW outcome \in Outcomes,
             AcknowledgeFinal(t, outcome) \/ AcknowledgeFailed(t, outcome)
               \/ AcknowledgeAtLast(t, outcome)
      PROVE  LeaseInv' /\ CallInv' /\ LockInv'
  <2>1. UNCHANGED <<lockedVars, timer, client, disposable, gen, leaseRef>>
    BY <1>7 DEF AcknowledgeFinal, AcknowledgeFailed, AcknowledgeAtLast
  <2>2. LeaseInv' /\ LockInv'
    BY <2>1
  <2>3. /\ pc' = [pc EXCEPT ![t] = pc'[t]]
        /\ \/ pc[t] = "ack" /\ pc'[t] \in {"release", "fail"}
           \/ /\ pc[t] = "settle" /\ client = "native"
              /\ pc'[t] \in {"close", "release", "unknown"}
           \/ pc'[t] = "done"
    BY <1>7 DEF AcknowledgeFinal, AcknowledgeFailed, AcknowledgeAtLast, EndCall
  <2> QED  BY <2>1, <2>2, <2>3
<1>8. ASSUME NEW t \in Turns, ReleaseAfterReadback(t)
      PROVE  LeaseInv' /\ CallInv' /\ LockInv'
  <2>1. /\ pc[t] = "release" /\ client = "native"
        /\ pc' = [pc EXCEPT ![t] = pc'[t]]
        /\ UNCHANGED <<timer, client, disposable, gen, generation, authorityLock>>
    BY <1>8 DEF ReleaseAfterReadback, ReleaseLastLease
  <2>2. authorityLock = NoTurn
    BY <1>8 DEF ReleaseAfterReadback, ReleaseLastLease
  <2>3. \A u \in Turns : ~Disposing(u)
    BY <2>2
  <2>4. LockInv'
    BY <2>1, <2>2, <2>3
  <2>5. AfterRelease(t) \in {"close", "finalize"}
    BY <2>1 DEF AfterRelease
  <2>6. CASE lastLease.turn = t
    <3>1. /\ lastLease' = [turn |-> t, state |-> leaseRef'[t]]
          /\ leaseRef' = [leaseRef EXCEPT ![t] = leaseRef'[t]]
          /\ leaseRef'[t] = leaseRef[t] \/ leaseRef[t] = "ACTIVE"
      BY <1>8, <2>6 DEF ReleaseAfterReadback, ReleaseLastLease
    <3>2. \/ pc'[t] \in {"close", "finalize"}
          \/ pc'[t] = "store" /\ leaseRef'[t] = "RELEASED" /\ disposable[t]
      BY <1>8, <2>5, <2>6 DEF ReleaseAfterReadback, ReleaseLastLease
    <3>3. LeaseInv'
      BY <2>1, <3>1
    <3>4. CallInv'
      BY <2>1, <3>1, <3>2
    <3> QED  BY <2>4, <3>3, <3>4
  <2>7. CASE lastLease.turn # t
    <3>1. UNCHANGED <<lastLease, leaseRef>> /\ pc'[t] \in {"close", "finalize"}
      BY <1>8, <2>5, <2>7 DEF ReleaseAfterReadback, ReleaseLastLease
    <3> QED  BY <2>1, <2>4, <3>1
  <2> QED  BY <2>6, <2>7
<1>9. ASSUME NEW t \in Turns, StoreTimer(t) \/ StartTimer(t)
      PROVE  LeaseInv' /\ CallInv' /\ LockInv'
  <2>1. /\ UNCHANGED <<client, disposable, gen, leaseRef, generation, lastLease,
                       authorityLock>>
        /\ pc' = [pc EXCEPT ![t] = pc'[t]]
        /\ timer' = [timer EXCEPT ![t] = timer'[t]]
    BY <1>9 DEF StoreTimer, StartTimer
  <2>2. leaseRef[t] = "RELEASED" /\ disposable[t]
    BY <1>9 DEF StoreTimer, StartTimer
  <2>3. pc'[t] \notin BeforeTimer \union {"idle", "ack", "release", "store"}
    BY <1>9 DEF StoreTimer, StartTimer, AfterRelease, AfterWrite
  <2>4. \/ timer'[t] = timer[t]
        \/ ~Disposing(t) /\ timer'[t] \notin {"rpc", "closing"}
    BY <1>9 DEF StoreTimer, StartTimer
  <2>5. \A u \in Turns : Disposing(u)' <=> Disposing(u)
    BY <2>1, <2>4
  <2>6. LockInv'
    BY <2>1, <2>5
  <2>7. LeaseInv' /\ CallInv'
    BY <2>1, <2>2, <2>3
  <2> QED  BY <2>6, <2>7
<1>10. ASSUME NEW t \in Turns, FinalizeTurn(t) \/ FailTurn(t)
       PROVE  LeaseInv' /\ CallInv' /\ LockInv'
  <2>1. UNCHANGED <<timer, client, disposable, gen, leaseRef, generation, lastLease,
                    authorityLock>>
    BY <1>10 DEF FinalizeTurn, FailTurn
  <2>2. LeaseInv' /\ LockInv'
    BY <2>1
  <2>3. /\ pc' = [pc EXCEPT ![t] = pc'[t]]
        /\ \/ pc[t] = "fail" /\ pc'[t] = "settle"
           \/ pc'[t] \in {"return", "unknown", "close"}
    BY <1>10 DEF FinalizeTurn, FailTurn
  <2>4. pc[t] = "fail" /\ pc'[t] = "settle" => timer[t] = "none" \/ client # "native"
    OBVIOUS
  <2> QED  BY <2>1, <2>2, <2>3, <2>4
<1>11. ASSUME NEW t \in Turns,
              SettleUnacknowledged(t) \/ MarkReleaseUnknown(t) \/ CloseCall(t)
       PROVE  LeaseInv' /\ CallInv' /\ LockInv'
  <2>1. /\ UNCHANGED <<timer, client, disposable, gen, generation, authorityLock>>
        /\ pc' = [pc EXCEPT ![t] = pc'[t]]
        /\ pc'[t] \in {"unknown", "close", "done"}
    BY <1>11 DEF SettleUnacknowledged, MarkReleaseUnknown, CloseCall, EndCall
  <2>2. CASE UNCHANGED <<lastLease, leaseRef>>
    BY <2>1, <2>2
  <2>3. CASE /\ leaseRef[t] = "ACTIVE" /\ authorityLock = NoTurn /\ pc[t] = "unknown"
             /\ leaseRef' = [leaseRef EXCEPT ![t] = "RELEASE_UNKNOWN"]
             /\ lastLease' = IF lastLease.turn = t THEN Lease(t, "RELEASE_UNKNOWN")
                             ELSE lastLease
    <3>1. \A u \in Turns : ~Disposing(u)
      BY <2>3
    <3>2. LockInv'
      BY <2>1, <2>3, <3>1
    <3>3. LeaseInv'
      BY <2>1, <2>3
    <3>4. CallInv'
      BY <2>1, <2>3
    <3> QED  BY <3>2, <3>3, <3>4
  <2> QED
    BY <1>11, <2>2, <2>3 DEF SettleUnacknowledged, MarkReleaseUnknown, CloseCall, EndCall
<1>12. ASSUME NEW t \in Turns, TimerStep(t) \/ LaneExpires(t)
       PROVE  LeaseInv' /\ CallInv' /\ LockInv'
  <2>1. /\ UNCHANGED <<pc, client, disposable, gen, leaseRef, generation, lastLease>>
        /\ timer' = [timer EXCEPT ![t] = timer'[t]]
        /\ timer'[t] # timer[t] => timer[t] # "none" /\ timer'[t] # "none"
    BY <1>12 DEF TimerStep, TimerFires, BeginDisposal, DisposalRefused, DisposalForwarded,
       DisposalAnswered, DisposalEnds, LaneExpires
  <2>2. LeaseInv' /\ CallInv'
    BY <2>1
  <2>3. ASSUME TimerFires(t) \/ LaneExpires(t) \/ DisposalForwarded(t) PROVE LockInv'
    BY <2>1, <2>3 DEF TimerFires, LaneExpires, DisposalForwarded
  <2>4. ASSUME BeginDisposal(t) PROVE LockInv'
    <3>1. \A u \in Turns : ~Disposing(u)
      BY <2>4 DEF BeginDisposal
    <3>2. CASE StillCurrent(t)
      <4>1. /\ authorityLock' = t /\ timer' = [timer EXCEPT ![t] = "rpc"]
            /\ lastLease = Lease(t, "RELEASED") /\ gen[t] = generation
        BY <2>4, <3>2 DEF BeginDisposal, StillCurrent
      <4>2. \A u \in Turns : Disposing(u)' <=> u = t
        BY <3>1, <4>1
      <4> QED  BY <2>1, <4>1, <4>2
    <3>3. CASE ~StillCurrent(t)
      BY <2>1, <2>4, <3>1, <3>3 DEF BeginDisposal
    <3> QED  BY <3>2, <3>3
  <2>5. ASSUME DisposalRefused(t) \/ DisposalAnswered(t) PROVE LockInv'
    <3>1. \A u \in Turns \ {t} : ~Disposing(u)
      BY <2>5 DEF DisposalRefused, DisposalAnswered
    <3>2. authorityLock' = NoTurn /\ timer' = [timer EXCEPT ![t] = "ended"]
      BY <2>5 DEF DisposalRefused, DisposalAnswered, DisposalEnds
    <3> QED  BY <3>1, <3>2
  <2> QED  BY <1>12, <2>2, <2>3, <2>4, <2>5 DEF TimerStep
<1>13. ASSUME NEW t \in Turns, CallStep(t) PROVE LeaseInv' /\ CallInv' /\ LockInv'
  BY ONLY <1>3, <1>4, <1>5, <1>6, <1>7, <1>8, <1>9, <1>10, <1>11, <1>13
     DEF CallStep, WriteStep, ReadStep, EndStep
<1> QED
  BY ONLY RuntimeStep, <1>1, <1>2, <1>6, <1>12, <1>13 DEF RuntimeStep

\* A step that leaves the runtime alone leaves the fence alone.
LEMMA FenceStutter == FenceInv /\ UNCHANGED vars => FenceInv'
BY DEF FenceInv, TypeOK, LeaseInv, CallInv, LockInv, Disposing, BeforeTimer, vars,
       lockedVars, callVars

\* The inductive invariant holds throughout (_issue_authority,
\* _schedule_disposal and the release points).
THEOREM FenceHolds == Spec => []FenceInv
BY FenceInit, FenceStep, FenceStutter, NextIsRuntimeStep, PTL DEF Spec

\* However many calls, threads and timers there are, a tab is closed only on
\* the newest lease, released, with no lease issued before the exchange ends
\* (dispose_if_still_current against _issue_authority).
THEOREM DisposalIsFencedHolds == Spec => []DisposalIsFenced
<1>1. FenceInv => DisposalIsFenced
  BY DEF FenceInv, LeaseInv, CallInv, LockInv, DisposalIsFenced, Disposing
<1> QED  BY <1>1, FenceHolds, PTL
-----------------------------------------------------------------------------
(* A released lease is proven *)

\* A call between its issue and its return has its lease set on its thread.
LeasePresent ==
  \A t \in Turns : pc[t] \notin {"idle", "done", "submitted"} => HasLease(t)

\* What a call knows of its write, its readback and the lane at each position.
ProvenCall(t) ==
  /\ pc[t] \in {"submitted", "read", "ack", "release", "store", "start", "finalize",
                "return"} => observed[t]
  /\ pc[t] = "release" => ack[t] = "ok"
  /\ ack[t] = "ok" => pc[t] \in {"release", "store", "start", "finalize", "return",
                                 "unknown", "close", "done"}
  /\ leaseRef[t] = "RELEASED" => observed[t] /\ ack[t] = "ok"
  /\ ack[t] = "ok" /\ lane = t => timer[t] \in {"closing", "ended"}

ProvenInv == client = "native" => \A t \in Turns : ProvenCall(t)

\* Nothing is released in a fresh runtime.
LEMMA ProvenInit == Init => LeasePresent /\ ProvenInv
BY WriteRuntimeAssumption DEF Init, LeasePresent, ProvenInv, ProvenCall

\* Every call keeps its lease on its thread until its finally block: a thread
\* makes one call at a time.
LEMMA LeaseStep == TypeOK /\ LeasePresent /\ Next => LeasePresent'
<1> SUFFICES ASSUME TypeOK, LeasePresent, Next PROVE LeasePresent'
  OBVIOUS
<1> USE WriteRuntimeAssumption DEF TypeOK, LeasePresent, HasLease, Goto, lockedVars, callVars
<1>1. ASSUME NEW t \in Turns, Refuse(t) PROVE LeasePresent'
  BY <1>1 DEF Refuse
<1>2. ASSUME NEW t \in Turns, NEW d \in BOOLEAN, ThreadIdle(t), Issue(t, d, FALSE)
      PROVE  LeasePresent'
  <2>1. /\ thread' = thread /\ leaseContext' = [leaseContext EXCEPT ![thread[t]] = t]
        /\ pc' = [pc EXCEPT ![t] = "write"]
    BY <1>2 DEF Issue
  <2> QED  BY <1>2, <2>1 DEF ThreadIdle
<1>3. ASSUME NEW t \in Turns, pc[t] \notin {"idle", "done", "submitted"},
             UNCHANGED <<thread, leaseContext>>, pc' = [pc EXCEPT ![t] = pc'[t]]
      PROVE  LeasePresent'
  BY <1>3
<1>4. ASSUME NEW t \in Turns, pc[t] \notin {"idle", "done", "submitted"},
             UNCHANGED thread, EndCall(t)
      PROVE  LeasePresent'
  <2>1. \A u \in Turns \ {t} : pc[u] \notin {"idle", "done", "submitted"}
                                 => thread[u] # thread[t]
    BY <1>4
  <2> QED  BY <1>4, <2>1 DEF EndCall
<1>5. ASSUME NEW t \in Turns, WriteStep(t) PROVE LeasePresent'
  BY <1>5, <1>3 DEF WriteStep, WriteRefused, Delegate, WriteFails, RecordWrite, ReleaseOnWrite,
     ReleaseLastLease
<1>6. ASSUME NEW t \in Turns, ReadStep(t) PROVE LeasePresent'
  BY <1>6, <1>3 DEF ReadStep, ReadFinal, ReadFails, CallbackRaises, AcknowledgeFinal
<1>7. ASSUME NEW t \in Turns, EndStep(t) PROVE LeasePresent'
  <2>1. CASE ReleaseAfterReadback(t) \/ StoreTimer(t) \/ StartTimer(t)
    BY <2>1, <1>3 DEF ReleaseAfterReadback, ReleaseLastLease, StoreTimer, StartTimer
  <2>2. CASE \/ FinalizeTurn(t) \/ FailTurn(t)
             \/ SettleUnacknowledged(t) \/ MarkReleaseUnknown(t)
    BY <2>2, <1>3 DEF FinalizeTurn, FailTurn, SettleUnacknowledged, MarkReleaseUnknown
  <2>3. CASE \E outcome \in Outcomes : AcknowledgeFailed(t, outcome)
    BY <2>3, <1>3 DEF AcknowledgeFailed
  <2>4. CASE (\E outcome \in Outcomes : AcknowledgeAtLast(t, outcome)) \/ CloseCall(t)
    BY <2>4, <1>4 DEF AcknowledgeAtLast, CloseCall
  <2> QED  BY <1>7, <2>1, <2>2, <2>3, <2>4 DEF EndStep
<1>8. ASSUME NEW t \in Turns,
             ReadBaseline(t) \/ PollRead(t) \/ TimerStep(t) \/ LaneExpires(t)
      PROVE  LeasePresent'
  <2>1. UNCHANGED callVars
    BY <1>8 DEF ReadBaseline, PollRead, TimerStep, TimerFires, BeginDisposal,
       DisposalRefused, DisposalForwarded, DisposalAnswered, DisposalEnds, LaneExpires
  <2> QED  BY <2>1
<1>9. CASE AllDone
  BY <1>9 DEF AllDone, vars
<1> QED
  BY ONLY Next, <1>1, <1>2, <1>5, <1>6, <1>7, <1>8, <1>9 DEF Next, Start, CallStep

\* A step of turn t keeps ProvenCall of every other turn: it leaves the other
\* call alone and the lane to nobody but t.
LEMMA ProvenOthers ==
  ASSUME NEW t \in Turns, NEW u \in Turns \ {t}, ProvenCall(u),
         pc'[u] = pc[u], observed'[u] = observed[u], ack'[u] = ack[u],
         leaseRef'[u] = leaseRef[u], lane' \in {lane, NoTurn, t},
         timer'[u] = timer[u] \/ timer[u] \in {"created", "armed"}
  PROVE  ProvenCall(u)'
BY WriteRuntimeAssumption DEF ProvenCall

\* No step gives the runtime another client.
LEMMA ClientIsKept == RuntimeStep => UNCHANGED client
BY DEF RuntimeStep, Refuse, Issue, CallStep, WriteStep, ReadStep, EndStep, ReadBaseline,
       WriteRefused, Delegate, WriteFails, RecordWrite, ReleaseOnWrite, PollRead, ReadFinal,
       ReadFails, CallbackRaises, AcknowledgeFinal, AcknowledgeFailed, AcknowledgeAtLast,
       ReleaseAfterReadback, StoreTimer, StartTimer, FinalizeTurn, FailTurn,
       SettleUnacknowledged, MarkReleaseUnknown, CloseCall, TimerStep, TimerFires,
       BeginDisposal, DisposalRefused, DisposalForwarded, DisposalAnswered, DisposalEnds,
       LaneExpires, callVars

\* Acknowledgement comes before release, release before disposal, at every
\* interleaving of calls and timers.
LEMMA ProvenStep == FenceInv /\ LeasePresent /\ ProvenInv /\ RuntimeStep => ProvenInv'
<1> SUFFICES ASSUME FenceInv, LeasePresent, RuntimeStep, client = "native",
                    \A t \in Turns : ProvenCall(t)
             PROVE  \A t \in Turns : ProvenCall(t)'
  BY ClientIsKept DEF ProvenInv
<1> USE WriteRuntimeAssumption DEF TypeOK, Goto, lockedVars, callVars
<1> TypeOK
  BY DEF FenceInv
<1>1. ASSUME NEW t \in Turns, NEW u \in Turns \ {t},
             \/ Refuse(t) \/ \E d, s \in BOOLEAN : Issue(t, d, s)
             \/ CallStep(t) \/ ReadBaseline(t) \/ PollRead(t)
             \/ TimerStep(t) \/ LaneExpires(t)
      PROVE  ProvenCall(u)'
  <2>1. timer'[u] = timer[u] \/ timer[u] \in {"created", "armed"}
    <3>1. CASE \E d, s \in BOOLEAN : Issue(t, d, s)
      BY <3>1 DEF Issue, CancelPendingTimer
    <3>2. CASE Refuse(t) \/ CallStep(t) \/ ReadBaseline(t) \/ PollRead(t) \/ LaneExpires(t)
      BY <3>2 DEF Refuse, CallStep, WriteStep, ReadStep, EndStep, WriteRefused, Delegate,
         WriteFails, RecordWrite, ReleaseOnWrite, ReadBaseline, PollRead, ReadFinal,
         ReadFails, CallbackRaises, AcknowledgeFinal, ReleaseAfterReadback, StoreTimer,
         StartTimer, FinalizeTurn, FailTurn, AcknowledgeFailed, SettleUnacknowledged,
         MarkReleaseUnknown, AcknowledgeAtLast, CloseCall, LaneExpires
    <3>3. CASE TimerStep(t)
      BY <3>3 DEF TimerStep, TimerFires, BeginDisposal, DisposalRefused, DisposalForwarded,
         DisposalAnswered, DisposalEnds
    <3> QED  BY <1>1, <3>1, <3>2, <3>3
  <2>2. /\ pc'[u] = pc[u] /\ observed'[u] = observed[u] /\ ack'[u] = ack[u]
        /\ leaseRef'[u] = leaseRef[u] /\ lane' \in {lane, NoTurn, t}
    <3>1. CASE Refuse(t) \/ \E d, s \in BOOLEAN : Issue(t, d, s)
      BY <3>1 DEF Refuse, Issue
    <3>2. CASE WriteStep(t)
      BY <3>2 DEF WriteStep, WriteRefused, Delegate, WriteFails, RecordWrite, ReleaseOnWrite,
         ReleaseLastLease
    <3>3. CASE ReadBaseline(t) \/ PollRead(t) \/ LaneExpires(t) \/ TimerStep(t)
      BY <3>3 DEF ReadBaseline, PollRead, LaneExpires, LaneAfterRead, TimerStep, TimerFires,
         BeginDisposal, DisposalRefused, DisposalForwarded, DisposalAnswered, DisposalEnds
    <3>4. CASE ReadStep(t)
      BY <3>4 DEF ReadStep, ReadFinal, ReadFails, CallbackRaises, LaneAfterRead,
         AcknowledgeFinal, Acknowledge, Completes
    <3>5. CASE EndStep(t)
      BY <3>5 DEF EndStep, ReleaseAfterReadback, ReleaseLastLease, StoreTimer, StartTimer,
         FinalizeTurn, FailTurn, AcknowledgeFailed, SettleUnacknowledged,
         MarkReleaseUnknown, AcknowledgeAtLast, CloseCall, EndCall, Acknowledge, Completes
    <3> QED  BY <1>1, <3>1, <3>2, <3>3, <3>4, <3>5 DEF CallStep
  <2> QED  BY <2>1, <2>2, ProvenOthers
<1> USE DEF ProvenCall
<1>2. ASSUME NEW t \in Turns, Refuse(t) PROVE ProvenCall(t)'
  BY <1>2 DEF Refuse
<1>3. ASSUME NEW t \in Turns, NEW d \in BOOLEAN, NEW s \in BOOLEAN, Issue(t, d, s)
      PROVE  ProvenCall(t)'
  <2>1. pc'[t] = "write" /\ leaseRef'[t] = "ACTIVE" /\ ack'[t] = ack[t]
    BY <1>3 DEF Issue
  <2>2. ack[t] # "ok"
    BY <1>3 DEF Issue
  <2> QED  BY <2>1, <2>2
<1>4. ASSUME NEW t \in Turns, WriteStep(t) PROVE ProvenCall(t)'
  <2>1. pc[t] \in {"write", "forwarded"}
    BY <1>4 DEF WriteStep, WriteRefused, Delegate, WriteFails, RecordWrite, ReleaseOnWrite
  <2>2. ack[t] # "ok" /\ leaseRef[t] # "RELEASED"
    BY <2>1
  <2>3. ack' = ack /\ leaseRef' = leaseRef
    BY <1>4 DEF WriteStep, WriteRefused, Delegate, WriteFails, RecordWrite, ReleaseOnWrite,
       FenceInv, LeaseInv
  <2>4. pc'[t] \in {"forwarded", "fail"} \/ (observed'[t] /\ pc'[t] \in {"submitted", "read"})
    BY <1>4 DEF WriteStep, WriteRefused, Delegate, WriteFails, RecordWrite, ReleaseOnWrite,
       AfterWrite
  <2> QED  BY <2>2, <2>3, <2>4
<1>5. ASSUME NEW t \in Turns, ReadBaseline(t) \/ PollRead(t) PROVE ProvenCall(t)'
  BY <1>5 DEF ReadBaseline, PollRead
<1>6. ASSUME NEW t \in Turns, ReadFinal(t) \/ ReadFails(t) \/ CallbackRaises(t)
      PROVE  ProvenCall(t)'
  BY <1>6 DEF ReadFinal, ReadFails, CallbackRaises
<1>7. ASSUME NEW t \in Turns, NEW outcome \in Outcomes,
             \/ AcknowledgeFinal(t, outcome) \/ AcknowledgeFailed(t, outcome)
             \/ AcknowledgeAtLast(t, outcome)
      PROVE  ProvenCall(t)'
  <2>1. HasLease(t)
    BY <1>7 DEF AcknowledgeFinal, AcknowledgeFailed, AcknowledgeAtLast, LeasePresent
  <2>2. /\ ack[t] = "none"
        /\ ack'[t] \in {"ok", "failed"}
        /\ ack'[t] = "ok" => outcome = "ok" /\ lane' = NoTurn
    BY <1>7, <2>1 DEF AcknowledgeFinal, AcknowledgeFailed, AcknowledgeAtLast, Acknowledge,
       Completes, Acknowledges
  <2>3. leaseRef' = leaseRef /\ observed' = observed /\ leaseRef[t] # "RELEASED"
    BY <1>7, <2>2 DEF AcknowledgeFinal, AcknowledgeFailed, AcknowledgeAtLast
  <2>4. CASE AcknowledgeFinal(t, outcome)
    <3>1. pc[t] = "ack" /\ pc'[t] = IF outcome = "ok" THEN "release" ELSE "fail"
      BY <2>4 DEF AcknowledgeFinal, Acknowledges
    <3>2. ack'[t] = "ok" <=> outcome = "ok"
      BY <2>2, <2>4 DEF AcknowledgeFinal, Acknowledge, Acknowledges
    <3> QED  BY <2>2, <2>3, <3>1, <3>2
  <2>5. CASE AcknowledgeFailed(t, outcome)
    <3>1. /\ observed[t]
          /\ pc'[t] = IF outcome = "raises" THEN "close"
                      ELSE IF outcome = "ok" THEN "release" ELSE "unknown"
      BY <2>5 DEF AcknowledgeFailed, Acknowledges
    <3>2. ack'[t] = "ok" <=> outcome = "ok"
      BY <2>2, <2>5 DEF AcknowledgeFailed, Acknowledge, Acknowledges
    <3> QED  BY <2>2, <2>3, <3>1, <3>2
  <2>6. CASE AcknowledgeAtLast(t, outcome)
    <3>1. pc'[t] = "done"
      BY <2>6 DEF AcknowledgeAtLast, EndCall
    <3> QED  BY <2>2, <2>3, <3>1
  <2> QED  BY <1>7, <2>4, <2>5, <2>6
<1>8. ASSUME NEW t \in Turns, ReleaseAfterReadback(t) PROVE ProvenCall(t)'
  <2>1. pc[t] = "release" /\ observed[t] /\ ack[t] = "ok"
    BY <1>8 DEF ReleaseAfterReadback
  <2>2. UNCHANGED <<observed, ack, lane, timer>>
    BY <1>8 DEF ReleaseAfterReadback
  <2>3. AfterRelease(t) \in {"close", "finalize"}
    BY DEF AfterRelease
  <2>4. pc'[t] \in {"store", "close", "finalize"}
    BY <1>8, <2>3 DEF ReleaseAfterReadback, ReleaseLastLease
  <2> QED  BY <2>1, <2>2, <2>4
<1>9. ASSUME NEW t \in Turns, StoreTimer(t) \/ StartTimer(t) PROVE ProvenCall(t)'
  <2>1. /\ pc[t] \in {"store", "start"}
        /\ UNCHANGED <<observed, ack, lane, leaseRef>>
    BY <1>9 DEF StoreTimer, StartTimer
  <2>2. pc'[t] \in {"start", "close", "finalize"}
    BY <1>9 DEF StoreTimer, StartTimer, AfterRelease
  <2>3. observed[t] /\ ack[t] = "ok"
    BY <2>1 DEF FenceInv, CallInv
  <2>4. lane = t => timer'[t] \in {"closing", "ended"}
    <3>1. CASE StoreTimer(t)
      BY <2>3, <3>1 DEF StoreTimer, FenceInv, CallInv, BeforeTimer
    <3>2. CASE StartTimer(t)
      BY <2>3, <3>2 DEF StartTimer
    <3> QED  BY <1>9, <3>1, <3>2
  <2> QED  BY <2>1, <2>2, <2>3, <2>4
<1>10. ASSUME NEW t \in Turns, FinalizeTurn(t) \/ FailTurn(t) PROVE ProvenCall(t)'
  BY <1>10 DEF FinalizeTurn, FailTurn
<1>11. ASSUME NEW t \in Turns, SettleUnacknowledged(t) \/ CloseCall(t) PROVE ProvenCall(t)'
  BY <1>11 DEF SettleUnacknowledged, CloseCall, EndCall
<1>12. ASSUME NEW t \in Turns, MarkReleaseUnknown(t) PROVE ProvenCall(t)'
  <2>1. leaseRef'[t] = "RELEASED" => leaseRef[t] = "RELEASED"
    BY <1>12 DEF MarkReleaseUnknown, FenceInv, LeaseInv, Lease
  <2>2. pc[t] = "unknown" /\ pc'[t] = "close" /\ UNCHANGED <<observed, ack, lane, timer>>
    BY <1>12 DEF MarkReleaseUnknown
  <2> QED  BY <2>1, <2>2
<1>13. ASSUME NEW t \in Turns, TimerStep(t) \/ LaneExpires(t) PROVE ProvenCall(t)'
  BY <1>13 DEF TimerStep, TimerFires, BeginDisposal, DisposalRefused, DisposalForwarded,
     DisposalAnswered, DisposalEnds, LaneExpires
<1>14. ASSUME NEW t \in Turns, CallStep(t) PROVE ProvenCall(t)'
  BY ONLY <1>4, <1>6, <1>7, <1>8, <1>9, <1>10, <1>11, <1>12, <1>14
     DEF CallStep, ReadStep, EndStep
<1>15. ASSUME NEW t \in Turns,
              \/ Refuse(t) \/ \E d, s \in BOOLEAN : Issue(t, d, s)
              \/ CallStep(t) \/ ReadBaseline(t) \/ PollRead(t)
              \/ TimerStep(t) \/ LaneExpires(t)
       PROVE  ProvenCall(t)'
  BY ONLY <1>2, <1>3, <1>5, <1>13, <1>14, <1>15
<1> QED
  BY ONLY RuntimeStep, <1>1, <1>15 DEF RuntimeStep

\* Leaving the runtime alone leaves what is proven alone.
LEMMA ProvenStutter == LeasePresent /\ ProvenInv /\ UNCHANGED vars => LeasePresent' /\ ProvenInv'
BY DEF LeasePresent, HasLease, ProvenInv, ProvenCall, vars, lockedVars, callVars

\* Whatever the bridge answers or loses, a call's lease is RELEASED only after
\* its write was accepted and its readback acknowledged, and from then on the
\* lane is taken for it by its own disposal alone (send_text,
\* _release_authority_after_readback).
THEOREM ReleaseIsProvenHolds == Spec => []ReleaseIsProven
<1>1. Init => FenceInv /\ LeasePresent /\ ProvenInv
  BY FenceInit, ProvenInit
<1>2. FenceInv /\ LeasePresent /\ ProvenInv /\ [Next]_vars
        => FenceInv' /\ LeasePresent' /\ ProvenInv'
  <2>1. CASE UNCHANGED vars
    BY <2>1, FenceStutter, ProvenStutter
  <2>2. CASE Next
    <3> SUFFICES ASSUME FenceInv, LeasePresent, ProvenInv
                 PROVE  FenceInv' /\ LeasePresent' /\ ProvenInv'
      BY <2>2
    <3>1. LeasePresent'
      BY <2>2, LeaseStep DEF FenceInv
    <3>2. CASE RuntimeStep
      BY <3>1, <3>2, FenceStep, ProvenStep
    <3>3. CASE UNCHANGED vars
      BY <3>1, <3>3, FenceStutter, ProvenStutter
    <3> QED  BY <2>2, <3>2, <3>3, NextIsRuntimeStep
  <2> QED  BY <2>1, <2>2
<1>3. ProvenInv => ReleaseIsProven
  BY DEF ProvenInv, ProvenCall, ReleaseIsProven
<1> QED
  BY <1>1, <1>2, <1>3, PTL DEF Spec
\* Authority is given up on proof only, and no tab is closed on authority that
\* was not, or that a newer call has taken over.
THEOREM AuthorityIsSafeHolds == Spec => []AuthorityIsSafe
BY DisposalIsFencedHolds, ReleaseIsProvenHolds, PTL DEF AuthorityIsSafe
-----------------------------------------------------------------------------
(* The runtime keeps the authority ledger *)

\* A fresh runtime is a fresh ledger.
LEMMA LedgerInit == Init => Ledger!Init
BY DEF Init, Ledger!Init, Disposing, Lease

\* A step that changes no lease, no newest lease and no disposal is none of the
\* ledger's.
LEMMA LedgerStutter ==
  ASSUME UNCHANGED <<lastLease, leaseRef>>,
         \A t \in Turns : Disposing(t)' <=> Disposing(t)
  PROVE  UNCHANGED Ledger!ledgerVars
<1>1. {t \in Turns : Disposing(t)}' = {t \in Turns : Disposing(t)}
  OBVIOUS
<1> QED  BY <1>1 DEF Ledger!ledgerVars

\* Every step of the runtime is an issue, a release, a giving up or an end of
\* the ledger's, or does not touch it.
LEMMA LedgerStep == FenceInv /\ RuntimeStep => Ledger!Next \/ UNCHANGED Ledger!ledgerVars
<1> SUFFICES ASSUME FenceInv, RuntimeStep
             PROVE  Ledger!Next \/ UNCHANGED Ledger!ledgerVars
  OBVIOUS
<1> USE WriteRuntimeAssumption
    DEF FenceInv, TypeOK, LeaseInv, CallInv, LockInv, Disposing, Goto, Lease, LockFree,
        lockedVars, callVars
<1> DEFINE Keeps == Ledger!Next \/ UNCHANGED Ledger!ledgerVars
<1>1. ASSUME NEW t \in Turns, NEW d \in BOOLEAN, NEW s \in BOOLEAN, Issue(t, d, s)
      PROVE  Keeps
  <2>1. \A u \in Turns : ~Disposing(u) /\ ~Disposing(u)'
    BY <1>1 DEF Issue, CancelPendingTimer
  <2>2. lastLease'.turn = t /\ leaseRef' = [leaseRef EXCEPT ![t] = "ACTIVE"]
    BY <1>1 DEF Issue
  <2>3. leaseRef[t] = "none"
    BY <1>1 DEF Issue
  <2>4. Ledger!Issue(t)
    BY <2>1, <2>2, <2>3 DEF Ledger!Issue
  <2> QED  BY <2>4 DEF Ledger!Next
<1>2. ASSUME NEW t \in Turns, NEW otherwise, ReleaseLastLease(t, otherwise),
             UNCHANGED timer
      PROVE  Keeps
  <2>1. \A u \in Turns : ~Disposing(u) /\ ~Disposing(u)'
    BY <1>2 DEF ReleaseLastLease
  <2>2. CASE lastLease.turn = t /\ lastLease.state = "ACTIVE"
    <3>1. lastLease'.turn = t /\ leaseRef' = [leaseRef EXCEPT ![t] = "RELEASED"]
      BY <1>2, <2>2 DEF ReleaseLastLease
    <3>2. leaseRef[t] = "ACTIVE"
      BY <2>2
    <3>3. Ledger!Release(t)
      BY <2>1, <2>2, <3>1, <3>2 DEF Ledger!Release
    <3> QED  BY <3>3 DEF Ledger!Next
  <2>3. CASE ~(lastLease.turn = t /\ lastLease.state = "ACTIVE")
    <3>1. UNCHANGED <<lastLease, leaseRef>>
      BY <1>2, <2>3 DEF ReleaseLastLease
    <3> QED  BY <2>1, <3>1, LedgerStutter
  <2> QED  BY <2>2, <2>3
<1>3. ASSUME NEW t \in Turns, MarkReleaseUnknown(t) PROVE Keeps
  <2>1. \A u \in Turns : ~Disposing(u) /\ ~Disposing(u)'
    BY <1>3 DEF MarkReleaseUnknown
  <2>2. CASE leaseRef[t] = "ACTIVE"
    <3>1. /\ lastLease'.turn = lastLease.turn
          /\ leaseRef' = [leaseRef EXCEPT ![t] = "RELEASE_UNKNOWN"]
      BY <1>3, <2>2 DEF MarkReleaseUnknown
    <3>2. Ledger!GiveUp(t)
      BY <2>1, <2>2, <3>1 DEF Ledger!GiveUp
    <3> QED  BY <3>2 DEF Ledger!Next
  <2>3. CASE leaseRef[t] # "ACTIVE"
    <3>1. UNCHANGED <<lastLease, leaseRef>>
      BY <1>3, <2>3 DEF MarkReleaseUnknown
    <3> QED  BY <2>1, <3>1, LedgerStutter
  <2> QED  BY <2>2, <2>3
<1>4. ASSUME NEW t \in Turns, BeginDisposal(t) PROVE Keeps
  <2>1. \A u \in Turns : ~Disposing(u)
    BY <1>4 DEF BeginDisposal
  <2>2. CASE StillCurrent(t)
    <3>1. /\ timer' = [timer EXCEPT ![t] = "rpc"] /\ UNCHANGED <<lastLease, leaseRef>>
          /\ lastLease = Lease(t, "RELEASED")
      BY <1>4, <2>2 DEF BeginDisposal, StillCurrent
    <3>2. {u \in Turns : Disposing(u)}' = {t}
      BY <2>1, <3>1
    <3>3. leaseRef[t] = "RELEASED" /\ lastLease.turn = t
      BY <3>1
    <3>4. Ledger!BeginClose(t)
      BY <2>1, <3>1, <3>2, <3>3 DEF Ledger!BeginClose
    <3> QED  BY <3>4 DEF Ledger!Next
  <2>3. CASE ~StillCurrent(t)
    <3>1. /\ timer' = [timer EXCEPT ![t] = "ended"] /\ UNCHANGED <<lastLease, leaseRef>>
      BY <1>4, <2>3 DEF BeginDisposal
    <3>2. \A u \in Turns : ~Disposing(u)'
      BY <2>1, <3>1
    <3> QED  BY <2>1, <3>1, <3>2, LedgerStutter
  <2> QED  BY <2>2, <2>3
<1>5. ASSUME NEW t \in Turns, DisposalRefused(t) \/ DisposalAnswered(t) PROVE Keeps
  <2>1. /\ Disposing(t) /\ timer' = [timer EXCEPT ![t] = "ended"]
        /\ UNCHANGED <<lastLease, leaseRef>>
    BY <1>5 DEF DisposalRefused, DisposalAnswered, DisposalEnds
  <2>2. \A u \in Turns \ {t} : ~Disposing(u)
    BY <2>1
  <2>3. {u \in Turns : Disposing(u)} # {} /\ {u \in Turns : Disposing(u)}' = {}
    BY <2>1, <2>2
  <2>4. Ledger!EndClose
    BY <2>1, <2>3 DEF Ledger!EndClose
  <2> QED  BY <2>4 DEF Ledger!Next
<1>6. ASSUME NEW t \in Turns, TimerFires(t) \/ DisposalForwarded(t) \/ LaneExpires(t)
      PROVE  Keeps
  <2>1. UNCHANGED <<lastLease, leaseRef>>
    BY <1>6 DEF TimerFires, DisposalForwarded, LaneExpires
  <2>2. \A u \in Turns : Disposing(u)' <=> Disposing(u)
    BY <1>6 DEF TimerFires, DisposalForwarded, LaneExpires
  <2> QED  BY <2>1, <2>2, LedgerStutter
<1>7. ASSUME NEW t \in Turns, StoreTimer(t) \/ StartTimer(t) PROVE Keeps
  <2>1. UNCHANGED <<lastLease, leaseRef>>
    BY <1>7 DEF StoreTimer, StartTimer
  <2>2. \A u \in Turns : Disposing(u)' <=> Disposing(u)
    BY <1>7 DEF StoreTimer, StartTimer, BeforeTimer
  <2> QED  BY <2>1, <2>2, LedgerStutter
<1>8. ASSUME NEW t \in Turns, RecordWrite(t) PROVE Keeps
  <2>1. UNCHANGED <<lastLease, leaseRef, timer>>
    BY <1>8 DEF RecordWrite
  <2> QED  BY <2>1, LedgerStutter
<1>9. ASSUME UNCHANGED <<lastLease, leaseRef, timer>> PROVE Keeps
  BY <1>9, LedgerStutter
<1>10. ASSUME NEW t \in Turns, WriteStep(t) PROVE Keeps
  <2>1. CASE WriteRefused(t) \/ Delegate(t) \/ WriteFails(t)
    BY <2>1, <1>9 DEF WriteRefused, Delegate, WriteFails
  <2>2. CASE ReleaseOnWrite(t)
    BY <2>2, <1>2 DEF ReleaseOnWrite
  <2> QED  BY <1>10, <2>1, <2>2, <1>8 DEF WriteStep
<1>11. ASSUME NEW t \in Turns, ReadStep(t) \/ ReadBaseline(t) \/ PollRead(t) \/ Refuse(t)
       PROVE  Keeps
  BY <1>11, <1>9 DEF ReadStep, ReadFinal, ReadFails, CallbackRaises, AcknowledgeFinal,
     ReadBaseline, PollRead, Refuse
<1>12. ASSUME NEW t \in Turns, EndStep(t) PROVE Keeps
  <2>1. CASE ReleaseAfterReadback(t)
    BY <2>1, <1>2 DEF ReleaseAfterReadback
  <2>2. CASE FinalizeTurn(t) \/ FailTurn(t) \/ SettleUnacknowledged(t) \/ CloseCall(t)
    BY <2>2, <1>9 DEF FinalizeTurn, FailTurn, SettleUnacknowledged, CloseCall
  <2>3. CASE \E outcome \in Outcomes : AcknowledgeFailed(t, outcome) \/ AcknowledgeAtLast(t, outcome)
    BY <2>3, <1>9 DEF AcknowledgeFailed, AcknowledgeAtLast
  <2> QED  BY <1>12, <2>1, <2>2, <2>3, <1>3, <1>7 DEF EndStep
<1> HIDE DEF Keeps
<1>13. Keeps
  BY ONLY RuntimeStep, <1>1, <1>4, <1>5, <1>6, <1>10, <1>11, <1>12
     DEF RuntimeStep, CallStep, TimerStep
<1> QED  BY <1>13 DEF Keeps

\* For every number of turns and threads the runtime issues, releases and gives
\* up leases, and closes the tab, as the ledger allows (_issue_authority, the
\* release points, _mark_release_unknown and dispose_if_still_current).
THEOREM RuntimeKeepsLedger == Spec => ImplementsAuthorityLedger
<1>1. FenceInv /\ [Next]_vars => [Ledger!Next]_(Ledger!ledgerVars)
  <2> SUFFICES ASSUME FenceInv, [Next]_vars
               PROVE  [Ledger!Next]_(Ledger!ledgerVars)
    OBVIOUS
  <2>1. CASE RuntimeStep
    BY <2>1, LedgerStep
  <2>2. CASE UNCHANGED vars
    BY <2>2, LedgerStutter DEF vars, lockedVars, callVars, Disposing
  <2> QED  BY <2>1, <2>2, NextIsRuntimeStep
<1> QED
  BY <1>1, LedgerInit, FenceHolds, PTL DEF Spec, ImplementsAuthorityLedger, Ledger!Spec

-----------------------------------------------------------------------------
(* ProductTransport: its steps *)

\* A step of one turn's call inside the runtime, under the dispatch lock.
CallMoves(t) ==
  \/ Refuse(t)
  \/ \E d, s \in BOOLEAN : Issue(t, d, s)
  \/ CallStep(t) \/ ReadBaseline(t) \/ PollRead(t)

\* A step of a disposal timer, or of the broker.
TimerMoves(t) == TimerStep(t) \/ LaneExpires(t)

-----------------------------------------------------------------------------
(* The inductive invariant *)

TransportTypes ==
  /\ TypeOK
  /\ dispatchLock \in Threads \union {NoThread}
  /\ pending \in Turns \union {NoTurn}
  /\ reserved \in BOOLEAN
  /\ op \in [Turns -> Operations]
  /\ caller \in [Turns -> Turns \union {NoTurn}]

\* The dispatch lock is held over a call, and over one call only.
DispatchInv ==
  /\ \A t \in Turns : caller[t] = NoTurn
  /\ \A t \in Turns : Running(t) => dispatchLock # NoThread
  /\ \A t, u \in Turns : Running(t) /\ Running(u) => t = u

\* A turn in flight is inside a call or is the pending submission, and no call
\* runs beside the submission another turn left behind.
SlotInv ==
  \A t \in Turns :
    /\ InFlight(t) => Running(t) \/ pending = t
    /\ Running(t) => pending \in {NoTurn, t}
    /\ op[t] = "await" => pending = t
    /\ op[t] = "send" => pending # t
    /\ pending = t => pc[t] # "idle"
    /\ pending = t /\ op[t] # "await" => pc[t] = "submitted"

\* The turn in flight holds the newest lease and the newest lifecycle, and its
\* thread holds its lease.
NewestInv ==
  /\ lastTurn.turn = lastLease.turn
  /\ \A t \in Turns :
       /\ InFlight(t) => lastLease.turn = t /\ leaseRef[t] # "none"
       /\ turnRef[t].turn = t
       /\ pc[t] \notin {"idle", "submitted", "done"} => HasLease(t)
       /\ pc[t] = "unknown" => timer[t] = "none"

TransportInv == TransportTypes /\ FenceInv /\ DispatchInv /\ SlotInv /\ NewestInv

\* The conjuncts of NewestInv that are about one turn.
NewestCall(t) ==
  /\ InFlight(t) => lastLease.turn = t /\ leaseRef[t] # "none"
  /\ turnRef[t].turn = t
  /\ pc[t] \notin {"idle", "submitted", "done"} => HasLease(t)
  /\ pc[t] = "unknown" => timer[t] = "none"

-----------------------------------------------------------------------------
(* The steps of the runtime *)

\* What a call does inside the runtime is a step of the runtime.
LEMMA CallMovesRuntime ==
  ASSUME NEW t \in Turns, CallMoves(t) \/ TimerMoves(t)
  PROVE  RuntimeStep
BY DEF CallMoves, TimerMoves, RuntimeStep

\* A call moves its own turn alone, never one that has ended or waits to be
\* awaited, and never back to the beginning.
LEMMA CallPositions ==
  ASSUME TypeOK, NEW t \in Turns, CallMoves(t)
  PROVE  /\ pc[t] \notin {"submitted", "done"}
         /\ pc' = [pc EXCEPT ![t] = pc'[t]]
         /\ pc'[t] \in PCs \ {"idle"}
         /\ UNCHANGED thread
<1>1. pc'[t] \in PCs
  BY TypeCorrectStep, CallMovesRuntime DEF TypeOK
<1>2. CASE Refuse(t) \/ \E d, s \in BOOLEAN : Issue(t, d, s)
  BY <1>1, <1>2 DEF Refuse, Issue, Goto, TypeOK
<1>3. CASE WriteStep(t)
  BY <1>1, <1>3 DEF WriteStep, WriteRefused, Delegate, WriteFails, RecordWrite,
     ReleaseOnWrite, ReleaseLastLease, AfterWrite, Goto, TypeOK
<1>4. CASE ReadStep(t) \/ ReadBaseline(t) \/ PollRead(t)
  BY <1>1, <1>4 DEF ReadStep, ReadBaseline, PollRead, ReadFinal, ReadFails, CallbackRaises,
     AcknowledgeFinal, Goto, callVars, TypeOK
<1>5. CASE EndStep(t)
  <2>1. AfterRelease(t) # "idle"
    BY DEF AfterRelease, AfterWrite
  <2> HIDE DEF AfterRelease
  <2>2. CASE ReleaseAfterReadback(t) \/ StoreTimer(t) \/ StartTimer(t)
    BY <1>1, <2>1, <2>2 DEF ReleaseAfterReadback, ReleaseLastLease, StoreTimer, StartTimer,
       Goto, TypeOK
  <2>3. CASE FinalizeTurn(t) \/ FailTurn(t) \/ SettleUnacknowledged(t) \/ MarkReleaseUnknown(t)
    BY <1>1, <2>3 DEF FinalizeTurn, FailTurn, SettleUnacknowledged, MarkReleaseUnknown,
       Goto, TypeOK
  <2>4. CASE \/ \E outcome \in Outcomes :
                  AcknowledgeFailed(t, outcome) \/ AcknowledgeAtLast(t, outcome)
             \/ CloseCall(t)
    BY <1>1, <2>4 DEF AcknowledgeFailed, AcknowledgeAtLast, CloseCall, EndCall, Goto, TypeOK
  <2> QED  BY ONLY <1>5, <2>2, <2>3, <2>4 DEF EndStep
<1> QED
  BY ONLY CallMoves(t), <1>2, <1>3, <1>4, <1>5 DEF CallMoves, CallStep

\* A timer or the broker leaves the calls, the newest lease and the newest
\* lifecycle alone, and begins no timer.
LEMMA TimerLeaves ==
  ASSUME TypeOK, NEW t \in Turns, TimerMoves(t)
  PROVE  /\ UNCHANGED <<callVars, generation, lastLease, lastTurn>>
         /\ \A u \in Turns : timer'[u] = "none" <=> timer[u] = "none"
BY DEF TimerMoves, TimerStep, TimerFires, BeginDisposal, DisposalRefused, DisposalForwarded,
   DisposalAnswered, DisposalEnds, LaneExpires, TypeOK, TimerStates, lockedVars

\* If no other turn is in flight, a call's step keeps the newest lease and the
\* newest lifecycle its own: only a call without a newer rival reads or closes
\* what _last_turn_lifecycle and _last_browser_authority_lease name.
LEMMA NewestMove ==
  ASSUME TypeOK, LeaseInv, CallInv, NewestInv, NEW t \in Turns, CallMoves(t)
  PROVE  /\ lastTurn'.turn = lastLease'.turn
         /\ turnRef' = [turnRef EXCEPT ![t] = turnRef'[t]]
         /\ NewestCall(t)'
<1> USE DEF TypeOK, LeaseInv, CallInv, NewestInv, NewestCall, InFlight, HasLease, Goto, Lease,
    TurnLifecycle, lockedVars, callVars
<1> DEFINE Newest == /\ lastTurn'.turn = lastLease'.turn
                     /\ turnRef' = [turnRef EXCEPT ![t] = turnRef'[t]]
                     /\ NewestCall(t)'
<1>1. CASE Refuse(t)
  BY <1>1 DEF Refuse
<1>2. CASE \E d, s \in BOOLEAN : Issue(t, d, s)
  BY <1>2 DEF Issue
<1>3. CASE WriteRefused(t) \/ Delegate(t) \/ WriteFails(t)
  BY <1>3 DEF WriteRefused, Delegate, WriteFails
<1>4. CASE RecordWrite(t)
  <2>1. pc[t] = "forwarded" /\ pc'[t] \in {"submitted", "read"}
    BY <1>4 DEF RecordWrite, AfterWrite
  <2>2. lastLease' = lastLease /\ leaseRef' = leaseRef
    BY <1>4 DEF RecordWrite
  <2>3. lastTurn'.turn = lastTurn.turn /\ lastTurn.turn = t
    <3>1. lastLease.turn = t /\ lastTurn.turn = t
      BY <2>1
    <3>2. CompleteLastTurn(t)
      BY <1>4, <3>1 DEF RecordWrite
    <3>3. lastTurn'.turn = lastTurn.turn
      BY <3>2 DEF CompleteLastTurn
    <3> QED  BY <3>1, <3>3
  <2>4. turnRef' = [turnRef EXCEPT ![t] = lastTurn']
    BY <1>4, <2>1 DEF RecordWrite, CompleteLastTurn
  <2>5. UNCHANGED <<thread, leaseContext>>
    BY <1>4 DEF RecordWrite
  <2> QED  BY <2>1, <2>2, <2>3, <2>4, <2>5
<1>5. CASE ReleaseOnWrite(t)
  <2>1. pc[t] = "forwarded" /\ lastLease.turn = t
    BY <1>5 DEF ReleaseOnWrite
  <2>2. pc'[t] \in {"store", "submitted", "read"}
    BY <1>5 DEF ReleaseOnWrite, ReleaseLastLease, AfterWrite
  <2>3. lastLease'.turn = t /\ leaseRef'[t] # "none"
    BY <1>5, <2>1 DEF ReleaseOnWrite, ReleaseLastLease
  <2>4. lastTurn'.turn = t /\ turnRef' = [turnRef EXCEPT ![t] = lastTurn']
    BY <1>5, <2>1 DEF ReleaseOnWrite, CompleteLastTurn
  <2>5. UNCHANGED <<thread, leaseContext>>
    BY <1>5 DEF ReleaseOnWrite
  <2> QED  BY <2>1, <2>2, <2>3, <2>4, <2>5
<1>6. CASE ReadStep(t) \/ ReadBaseline(t) \/ PollRead(t)
  BY <1>6 DEF ReadStep, ReadBaseline, PollRead, ReadFinal, ReadFails, CallbackRaises,
     AcknowledgeFinal
<1>7. CASE ReleaseAfterReadback(t)
  <2>1. pc[t] = "release" /\ lastLease.turn = t
    BY <1>7 DEF ReleaseAfterReadback
  <2>2. pc'[t] \in {"store", "submitted", "read", "close", "finalize"}
    BY <1>7 DEF ReleaseAfterReadback, ReleaseLastLease, AfterRelease, AfterWrite
  <2>3. lastLease'.turn = t /\ leaseRef'[t] # "none"
    BY <1>7, <2>1 DEF ReleaseAfterReadback, ReleaseLastLease
  <2>4. UNCHANGED <<thread, leaseContext, lastTurn, turnRef>>
    BY <1>7 DEF ReleaseAfterReadback
  <2> QED  BY <2>1, <2>2, <2>3, <2>4
<1>8. CASE StoreTimer(t) \/ StartTimer(t)
  BY <1>8 DEF StoreTimer, StartTimer, AfterRelease, AfterWrite
<1>9. CASE FinalizeTurn(t) \/ FailTurn(t)
  <2>1. pc[t] \in {"finalize", "return", "fail"} /\ pc'[t] \notin {"idle", "submitted", "done"}
    BY <1>9 DEF FinalizeTurn, FailTurn
  <2>2. lastLease.turn = t /\ leaseRef[t] # "none" /\ CurrentTurn(t).turn = t
    BY <2>1 DEF CurrentTurn
  <2>3. lastTurn'.turn = t /\ turnRef' = [turnRef EXCEPT ![t] = lastTurn']
    BY <1>9, <2>2 DEF FinalizeTurn, FailTurn
  <2>4. UNCHANGED <<thread, leaseContext, lastLease, leaseRef, timer>>
    BY <1>9 DEF FinalizeTurn, FailTurn
  <2>5. pc'[t] = "unknown" => leaseRef[t] = "ACTIVE"
    BY <1>9, <2>1 DEF FinalizeTurn, FailTurn
  <2> QED  BY <2>1, <2>2, <2>3, <2>4, <2>5
<1>10. CASE SettleUnacknowledged(t) \/ CloseCall(t)
  BY <1>10 DEF SettleUnacknowledged, CloseCall, EndCall
<1>11. CASE MarkReleaseUnknown(t)
  BY <1>11 DEF MarkReleaseUnknown
<1>12. CASE \E outcome \in Outcomes :
              AcknowledgeFailed(t, outcome) \/ AcknowledgeAtLast(t, outcome)
  BY <1>12 DEF AcknowledgeFailed, AcknowledgeAtLast, EndCall, BeforeTimer
<1> QED
  BY ONLY CallMoves(t), <1>1, <1>2, <1>3, <1>4, <1>5, <1>6, <1>7, <1>8, <1>9, <1>10, <1>11,
     <1>12 DEF CallMoves, CallStep, WriteStep, EndStep

-----------------------------------------------------------------------------
(* The steps of the transport, without re-entrant calls *)

\* A fresh transport has no turn in flight.
LEMMA TransportInvInit == TransportInit => TransportInv
<1> SUFFICES ASSUME TransportInit PROVE TransportInv
  OBVIOUS
<1>1. TypeOK /\ FenceInv
  BY TypeCorrectInit, FenceInit DEF TransportInit
<1>2. TransportTypes /\ DispatchInv /\ SlotInv /\ NewestInv
  BY <1>1, TransportAssumption, WriteRuntimeAssumption
     DEF TransportInit, Init, TransportTypes, DispatchInv, SlotInv, NewestInv, Running,
         InFlight, Operations, Lease, TurnLifecycle
<1> QED  BY <1>1, <1>2 DEF TransportInv

\* While a call runs, its turn is the only one that may be in flight.
LEMMA AloneInFlight ==
  ASSUME TransportInv, NEW t \in Turns, Running(t)
  PROVE  \A u \in Turns \ {t} : ~InFlight(u) /\ ~Running(u) /\ pending # u
BY WriteRuntimeAssumption DEF TransportInv, DispatchInv, SlotInv

\* With the lock free no call runs.
LEMMA NobodyRuns ==
  ASSUME TransportInv, ~Reentrant, NEW t \in Turns, NEW operation, NEW h, NEW c,
         Enter(t, operation, h, c)
  PROVE  /\ \A u \in Turns : ~Running(u)
         /\ c = NoTurn /\ dispatchLock' = h
         /\ op' = [op EXCEPT ![t] = operation]
         /\ caller' = [caller EXCEPT ![t] = NoTurn]
BY DEF TransportInv, DispatchInv, Enter, DispatchLockFree

\* A step of the running call inside the runtime keeps the invariant.
LEMMA InvCall ==
  ASSUME TransportInv, NEW t \in Turns, CallMoves(t), Running(t), UNCHANGED transportVars
  PROVE  TransportInv'
<1>1. TypeOK' /\ FenceInv'
  BY TypeCorrectStep, FenceStep, CallMovesRuntime DEF TransportInv, FenceInv
<1>2. TransportTypes' /\ DispatchInv'
  BY <1>1 DEF TransportInv, TransportTypes, DispatchInv, transportVars, Running
<1>3. /\ pc[t] \notin {"submitted", "done"}
      /\ \A u \in Turns \ {t} : pc'[u] = pc[u]
      /\ pc'[t] # "idle"
      /\ UNCHANGED thread
  BY CallPositions DEF TransportInv, TransportTypes, TypeOK
<1>4. SlotInv'
  <2> SUFFICES ASSUME NEW u \in Turns
               PROVE  /\ InFlight(u)' => Running(u)' \/ pending' = u
                      /\ Running(u)' => pending' \in {NoTurn, u}
                      /\ op'[u] = "await" => pending' = u
                      /\ op'[u] = "send" => pending' # u
                      /\ pending' = u => pc'[u] # "idle"
                      /\ pending' = u /\ op'[u] # "await" => pc'[u] = "submitted"
    BY DEF SlotInv
  <2>1. CASE u = t
    BY <1>3, <2>1 DEF TransportInv, SlotInv, transportVars, Running
  <2>2. CASE u # t
    BY <1>3, <2>2 DEF TransportInv, SlotInv, transportVars, Running, InFlight
  <2> QED  BY <2>1, <2>2
<1>5. NewestInv'
  <2>1. /\ lastTurn'.turn = lastLease'.turn
        /\ turnRef' = [turnRef EXCEPT ![t] = turnRef'[t]]
        /\ NewestCall(t)'
    BY NewestMove DEF TransportInv, FenceInv
  <2>2. ASSUME NEW u \in Turns \ {t} PROVE NewestCall(u)'
    <3>1. pc'[u] \in {"idle", "done"}
      BY <1>3, AloneInFlight DEF InFlight
    <3>2. turnRef'[u].turn = u
      BY <2>1 DEF TransportInv, NewestInv, TransportTypes, TypeOK
    <3> QED  BY <3>1, <3>2 DEF NewestCall, InFlight
  <2> QED  BY <2>1, <2>2 DEF NewestInv, NewestCall
<1> QED  BY <1>1, <1>2, <1>4, <1>5 DEF TransportInv

\* So does the refusal of a call that finds the slot taken ...
LEMMA InvRefusal ==
  ASSUME TransportInv, NEW t \in Turns, Refuse(t), ~Running(t), UNCHANGED transportVars
  PROVE  TransportInv'
<1>1. TypeOK' /\ FenceInv'
  BY TypeCorrectStep, FenceStep DEF TransportInv, FenceInv, RuntimeStep
<1>2. TransportTypes' /\ DispatchInv'
  BY <1>1 DEF TransportInv, TransportTypes, DispatchInv, transportVars, Running
<1>3. SlotInv' /\ NewestInv'
  BY DEF Refuse, Goto, TransportInv, TransportTypes, TypeOK, SlotInv, NewestInv, InFlight,
     HasLease, Running, transportVars, lockedVars
<1> QED  BY <1>1, <1>2, <1>3 DEF TransportInv

\* ... and a step of a timer or of the broker.
LEMMA InvTimer ==
  ASSUME TransportInv, NEW t \in Turns, TimerMoves(t), UNCHANGED transportVars
  PROVE  TransportInv'
<1>1. TypeOK' /\ FenceInv'
  BY TypeCorrectStep, FenceStep, CallMovesRuntime DEF TransportInv, FenceInv
<1>2. TransportTypes' /\ DispatchInv'
  BY <1>1 DEF TransportInv, TransportTypes, DispatchInv, transportVars, Running
<1>3. /\ UNCHANGED <<callVars, generation, lastLease, lastTurn>>
      /\ \A u \in Turns : timer'[u] = "none" <=> timer[u] = "none"
  BY TimerLeaves DEF TransportInv, TransportTypes
<1>4. SlotInv'
  BY <1>3 DEF TransportInv, SlotInv, InFlight, Running, transportVars, callVars
<1>5. NewestInv'
  BY <1>3 DEF TransportInv, NewestInv, InFlight, HasLease, callVars
<1> QED  BY <1>1, <1>2, <1>4, <1>5 DEF TransportInv

\* A send or a submit that begins keeps it: no turn was in flight.
LEMMA InvBegin ==
  ASSUME TransportInv, ~Reentrant, NEW t \in Turns, NEW c,
         BeginSend(t, c) \/ BeginSubmit(t, c)
  PROVE  TransportInv'
<1>1. PICK operation \in {"send", "submit"} :
        /\ Enter(t, operation, thread[t], c)
        /\ pc[t] = "idle" /\ pending = NoTurn
        /\ UNCHANGED <<vars, pending>> /\ reserved' \in BOOLEAN
  BY DEF BeginSend, BeginSubmit, SlotIsTaken, TransportInv, TransportTypes
<1>2. /\ \A u \in Turns : ~Running(u)
      /\ dispatchLock' = thread[t]
      /\ op' = [op EXCEPT ![t] = operation]
      /\ caller' = [caller EXCEPT ![t] = NoTurn]
  BY <1>1, NobodyRuns
<1>3. TypeOK' /\ FenceInv' /\ NewestInv'
  <2>1. TypeOK' /\ FenceInv'
    BY <1>1, FenceStutter DEF TransportInv, FenceInv
  <2>2. NewestInv'
    BY <1>1 DEF TransportInv, NewestInv, InFlight, HasLease, vars, lockedVars, callVars
  <2> QED  BY <2>1, <2>2
<1>4. thread[t] \in Threads
  BY DEF TransportInv, TransportTypes, TypeOK
<1>5. TransportTypes'
  BY <1>1, <1>2, <1>3, <1>4 DEF TransportInv, TransportTypes, Operations
<1>6. DispatchInv'
  BY <1>1, <1>2, <1>4, TransportAssumption
     DEF TransportInv, TransportTypes, DispatchInv, Running, Operations
<1>7. SlotInv'
  BY <1>1, <1>2, WriteRuntimeAssumption
     DEF TransportInv, TransportTypes, SlotInv, Running, InFlight, Operations, vars, callVars
<1> QED  BY <1>3, <1>5, <1>6, <1>7 DEF TransportInv

\* So does an await: it takes the pending submission up, on any thread.
LEMMA InvAwait ==
  ASSUME TransportInv, ~Reentrant, NEW t \in Turns, NEW h \in Threads, BeginAwait(t, h)
  PROVE  TransportInv'
<1>1. /\ pc[t] = "submitted" /\ pending = t /\ pending' = t
      /\ Enter(t, "await", h, NoTurn)
      /\ pc' = [pc EXCEPT ![t] = "read"]
      /\ thread' = [thread EXCEPT ![t] = h]
      /\ leaseContext' = [leaseContext EXCEPT ![h] = t]
      /\ UNCHANGED <<lockedVars, timer, client, split, disposable, gen, leaseRef, turnRef,
                     observed, ack, result, lane, reserved>>
  BY DEF BeginAwait, Goto
<1>2. /\ \A u \in Turns : ~Running(u)
      /\ dispatchLock' = h
      /\ op' = [op EXCEPT ![t] = "await"]
      /\ caller' = [caller EXCEPT ![t] = NoTurn]
  BY <1>1, NobodyRuns
<1>3. \A u \in Turns \ {t} : ~InFlight(u)
  BY <1>1, <1>2 DEF TransportInv, SlotInv
<1>4. TypeOK'
  BY <1>1 DEF TransportInv, TransportTypes, TypeOK, PCs, lockedVars
<1>5. LeaseInv' /\ LockInv'
  BY <1>1 DEF TransportInv, FenceInv, LeaseInv, LockInv, Disposing, lockedVars
<1>6. CallInv'
  BY <1>1 DEF TransportInv, TransportTypes, TypeOK, FenceInv, CallInv, BeforeTimer
<1>7. TransportTypes'
  BY <1>1, <1>2, <1>4 DEF TransportInv, TransportTypes, Operations
<1>8. DispatchInv'
  BY <1>1, <1>2, TransportAssumption DEF TransportInv, TransportTypes, DispatchInv, Running
<1>9. SlotInv'
  BY <1>1, <1>2, <1>3, WriteRuntimeAssumption
     DEF TransportInv, TransportTypes, TypeOK, SlotInv, Running, InFlight, Operations
<1>10. NewestInv'
  <2>1. lastTurn'.turn = lastLease'.turn
    BY <1>1 DEF TransportInv, NewestInv, lockedVars
  <2>2. NewestCall(t)'
    BY <1>1 DEF TransportInv, TransportTypes, TypeOK, NewestInv, NewestCall, InFlight,
       HasLease, lockedVars
  <2>3. ASSUME NEW u \in Turns \ {t} PROVE NewestCall(u)'
    BY <1>1, <1>3 DEF TransportInv, TransportTypes, TypeOK, NewestInv, NewestCall, InFlight
  <2> QED  BY <2>1, <2>2, <2>3 DEF NewestInv, NewestCall
<1> QED  BY <1>4, <1>5, <1>6, <1>7, <1>8, <1>9, <1>10 DEF TransportInv, FenceInv

\* So does the publication of the accepted submission.
LEMMA InvPublish ==
  ASSUME TransportInv, NEW t \in Turns, Publish(t)
  PROVE  TransportInv'
<1>1. /\ op[t] = "submit" /\ pc[t] = "submitted" /\ pending' = t
      /\ leaseContext' = [leaseContext EXCEPT ![thread[t]] = NoTurn]
      /\ UNCHANGED <<lockedVars, timer, pc, client, thread, split, disposable, gen, leaseRef,
                     turnRef, observed, ack, result, lane, dispatchLock, reserved, op,
                     caller>>
  BY DEF Publish
<1>2. \A u \in Turns \ {t} : ~InFlight(u) /\ ~Running(u)
  BY <1>1, AloneInFlight DEF Running
<1>3. TypeOK'
  BY <1>1 DEF TransportInv, TransportTypes, TypeOK, lockedVars
<1>4. LeaseInv' /\ LockInv' /\ CallInv'
  BY <1>1 DEF TransportInv, FenceInv, LeaseInv, LockInv, CallInv, BeforeTimer, Disposing,
     lockedVars
<1>5. TransportTypes' /\ DispatchInv'
  BY <1>1, <1>3 DEF TransportInv, TransportTypes, DispatchInv, Running
<1>6. SlotInv'
  BY <1>1, <1>2 DEF TransportInv, SlotInv, InFlight, Running
<1>7. NewestInv'
  BY <1>1, <1>2 DEF TransportInv, NewestInv, InFlight, HasLease, lockedVars
<1> QED  BY <1>3, <1>4, <1>5, <1>6, <1>7 DEF TransportInv, FenceInv

\* So does the return of a call.
LEMMA InvReturn ==
  ASSUME TransportInv, NEW t \in Turns, Return(t)
  PROVE  TransportInv'
<1>1. /\ Running(t)
      /\ pc[t] = "done" \/ (op[t] = "submit" /\ pending = t)
      /\ pending' = IF op[t] = "await" THEN NoTurn ELSE pending
      /\ op' = [op EXCEPT ![t] = "none"]
      /\ caller' = [caller EXCEPT ![t] = NoTurn]
      /\ dispatchLock' = NoThread
      /\ reserved' \in BOOLEAN
      /\ UNCHANGED vars
  BY DEF Return, Innermost, PendingAfter, TransportInv, TransportTypes, DispatchInv
<1>2. \A u \in Turns \ {t} : ~InFlight(u) /\ ~Running(u) /\ pending # u
  BY <1>1, AloneInFlight
<1>3. TypeOK' /\ FenceInv' /\ NewestInv'
  <2>1. TypeOK' /\ FenceInv'
    BY <1>1, FenceStutter DEF TransportInv, FenceInv
  <2>2. NewestInv'
    BY <1>1 DEF TransportInv, NewestInv, InFlight, HasLease, vars, lockedVars, callVars
  <2> QED  BY <2>1, <2>2
<1>4. TransportTypes'
  BY <1>1, <1>3 DEF TransportInv, TransportTypes, Operations
<1>5. \A u \in Turns : ~Running(u)'
  BY <1>1, <1>2 DEF TransportInv, TransportTypes, Running
<1>6. DispatchInv'
  BY <1>1, <1>5 DEF TransportInv, TransportTypes, DispatchInv
<1>7. UNCHANGED pc
  BY <1>1 DEF vars, callVars
<1>8. SlotInv'
  <2>1. CASE op[t] = "await"
    BY <1>1, <1>2, <1>5, <1>7, <2>1, WriteRuntimeAssumption
       DEF TransportInv, SlotInv, InFlight, Running
  <2>2. CASE op[t] # "await"
    BY <1>1, <1>2, <1>5, <1>7, <2>2 DEF TransportInv, SlotInv, InFlight, Running
  <2> QED  BY <2>1, <2>2
<1> QED  BY <1>3, <1>4, <1>6, <1>8 DEF TransportInv

\* Leaving everything alone leaves the invariant alone.
LEMMA InvStutter == TransportInv /\ UNCHANGED allVars => TransportInv'
<1> SUFFICES ASSUME TransportInv, UNCHANGED allVars PROVE TransportInv'
  OBVIOUS
<1>1. UNCHANGED vars /\ UNCHANGED transportVars
  BY DEF allVars
<1>2. TypeOK' /\ FenceInv'
  BY <1>1, FenceStutter DEF TransportInv, FenceInv
<1>3. TransportTypes' /\ DispatchInv'
  BY <1>1, <1>2 DEF TransportInv, TransportTypes, DispatchInv, Running, transportVars
<1>4. SlotInv' /\ NewestInv'
  BY <1>1 DEF TransportInv, SlotInv, NewestInv, InFlight, Running, HasLease, transportVars,
     vars, lockedVars, callVars
<1> QED  BY <1>2, <1>3, <1>4 DEF TransportInv

\* Every step of the transport is one of the above.
LEMMA TransportStep ==
  ASSUME TransportInv, ~Reentrant, [TransportNext]_allVars
  PROVE  TransportInv'
<1>1. CASE UNCHANGED allVars
  BY <1>1, InvStutter
<1>2. ASSUME NEW t \in Turns, Begin(t) PROVE TransportInv'
  BY <1>2, InvBegin, InvAwait DEF Begin
<1>3. ASSUME NEW t \in Turns, Reject(t) PROVE TransportInv'
  BY <1>3, InvRefusal DEF Reject, RejectPending
<1>4. ASSUME NEW t \in Turns, Prepare(t) \/ Proceed(t) \/ Read(t) PROVE TransportInv'
  <2>1. CallMoves(t) /\ Running(t) /\ UNCHANGED transportVars
    BY <1>4 DEF Prepare, Proceed, Read, CallMoves, Innermost
  <2> QED  BY <2>1, InvCall
<1>5. ASSUME NEW t \in Turns, Background(t) PROVE TransportInv'
  BY <1>5, InvTimer DEF Background, TimerMoves
<1>6. CASE Settled
  BY <1>6, <1>1 DEF Settled
<1> QED
  BY ONLY [TransportNext]_allVars, TransportInv, <1>1, <1>2, <1>3, <1>4, <1>5, <1>6,
     InvPublish, InvReturn DEF TransportNext

\* The inductive invariant holds in every state, whatever the clients are.
LEMMA TransportInvHolds ==
  ASSUME ~Reentrant PROVE TransportSpec => []TransportInv
<1>1. TransportInv /\ [TransportNext]_allVars => TransportInv'
  BY TransportStep
<1> QED  BY <1>1, TransportInvInit, PTL DEF TransportSpec

-----------------------------------------------------------------------------
(* The theorems *)

\* Unless a callback calls the transport again, its calls are one turn at a
\* time: "Serialize every browser-owned write/finality operation on one
\* transport." (_serialize_submission_operation).
THEOREM OneTurnInFlightHolds ==
  ASSUME ~Reentrant PROVE TransportSpec => []OneTurnInFlight
<1>1. TransportInv => OneTurnInFlight
  BY DEF TransportInv, NewestInv, OneTurnInFlight
<1> QED  BY <1>1, TransportInvHolds, PTL

\* A disposal's turn is past its reading, and nobody else needs the browser.
LEMMA NoCloseFromInv ==
  ASSUME TransportInv, client = "native" PROVE NoCloseDuringTurn
<1> SUFFICES ASSUME NEW t \in Turns, Disposing(t)
             PROVE  /\ \A u \in Turns \ {t} : ~InFlight(u)
                    /\ pc[t] \in {"start", "finalize", "return", "close", "done"}
  BY DEF NoCloseDuringTurn
<1>1. lastLease.turn = t
  BY DEF TransportInv, FenceInv, LockInv, Lease
<1>2. \A u \in Turns \ {t} : ~InFlight(u)
  BY <1>1 DEF TransportInv, NewestInv
<1>3. timer[t] # "none"
  BY DEF Disposing
<1>4. pc[t] \in PCs /\ pc[t] \notin BeforeTimer \union {"unknown"}
  BY <1>3 DEF TransportInv, TransportTypes, TypeOK, FenceInv, CallInv, NewestInv
<1> QED  BY <1>2, <1>4 DEF BeforeTimer, PCs

\* With the client that has the readback handshake, no disposal closes the tab
\* under a turn, every answer is read under its own lease on whichever thread
\* awaits it, and every call reports its own lifecycle (dispose_if_still_current,
\* await_final, _record_write_completion).
THEOREM TurnsAreIsolatedHolds ==
  ASSUME ~Reentrant PROVE TransportSpec => [](client = "native" => TurnsAreIsolated)
<1>1. TransportInv /\ client = "native" => TurnsAreIsolated
  <2> SUFFICES ASSUME TransportInv, client = "native" PROVE TurnsAreIsolated
    OBVIOUS
  <2>1. ReadsUnderOwnLease /\ OwnLifecycle
    BY DEF TransportInv, NewestInv, ReadsUnderOwnLease, OwnLifecycle
  <2> QED  BY <2>1, NoCloseFromInv DEF TurnsAreIsolated
<1> QED  BY <1>1, TransportInvHolds, PTL

-----------------------------------------------------------------------------
(* The transport implements its slot *)

\* The phase and the turns written, as ImplementsSubmissionSlot maps them.
SlotPhase ==
  IF pending # NoTurn
  THEN IF op[pending] = "await" THEN "reading" ELSE "pending"
  ELSE IF Holder # NoTurn THEN "writing" ELSE "free"

Written == {t \in Turns : leaseRef[t] # "none"}

\* The running call holds the slot.
LEMMA HolderRuns ==
  ASSUME TransportInv, NEW t \in Turns, Running(t)
  PROVE  Holder = t
<1>1. \A u \in Turns : Running(u) => u = t
  BY DEF TransportInv, DispatchInv
<1>2. (CHOOSE u \in Turns : Running(u)) = t
  BY <1>1
<1>3. pending \in {NoTurn, t}
  BY DEF TransportInv, SlotInv
<1> QED  BY <1>2, <1>3 DEF Holder

\* Without a running call the pending submission does, or nobody.
LEMMA HolderRests ==
  ASSUME \A t \in Turns : ~Running(t)
  PROVE  Holder = pending
BY DEF Holder

\* A step that leaves the transport's own variables alone and issues no authority
\* is none of the slot's.
LEMMA SlotStutter ==
  ASSUME UNCHANGED transportVars, \A u \in Turns : leaseRef'[u] = "none" <=> leaseRef[u] = "none"
  PROVE  UNCHANGED Slot!slotVars
<1>1. Holder' = Holder
  BY DEF Holder, Running, transportVars
<1>2. Written' = Written
  BY DEF Written
<1>3. SlotPhase' = SlotPhase
  BY <1>1 DEF SlotPhase, transportVars
<1> QED  BY <1>1, <1>2, <1>3 DEF Slot!slotVars, SlotPhase, Written

\* Authority, once issued, is never un-issued, and only Issue issues it.
LEMMA IssueAlone ==
  ASSUME TypeOK, LeaseInv, NEW t \in Turns,
         Refuse(t) \/ CallStep(t) \/ ReadBaseline(t) \/ PollRead(t) \/ TimerMoves(t)
  PROVE  \A u \in Turns : leaseRef'[u] = "none" <=> leaseRef[u] = "none"
<1> USE DEF TypeOK, LeaseInv, Lease
<1>1. CASE Refuse(t) \/ ReadBaseline(t) \/ PollRead(t)
  BY <1>1 DEF Refuse, ReadBaseline, PollRead, callVars
<1>2. CASE TimerMoves(t)
  BY <1>2, TimerLeaves DEF callVars
<1>3. ASSUME NEW otherwise, ReleaseLastLease(t, otherwise)
      PROVE  \A u \in Turns : leaseRef'[u] = "none" <=> leaseRef[u] = "none"
  BY <1>3 DEF ReleaseLastLease
<1>4. CASE WriteStep(t)
  BY <1>3, <1>4 DEF WriteStep, WriteRefused, Delegate, WriteFails, RecordWrite, ReleaseOnWrite
<1>5. CASE ReadStep(t)
  BY <1>5 DEF ReadStep, ReadFinal, ReadFails, CallbackRaises, AcknowledgeFinal
<1>6. CASE EndStep(t)
  <2>1. CASE MarkReleaseUnknown(t)
    BY <2>1 DEF MarkReleaseUnknown
  <2>2. CASE ReleaseAfterReadback(t)
    BY <2>2, <1>3 DEF ReleaseAfterReadback
  <2>3. CASE leaseRef' = leaseRef
    BY <2>3
  <2> QED
    BY <1>6, <2>1, <2>2, <2>3 DEF EndStep, StoreTimer, StartTimer, FinalizeTurn, FailTurn,
       AcknowledgeFailed, SettleUnacknowledged, AcknowledgeAtLast, CloseCall
<1> QED  BY <1>1, <1>2, <1>4, <1>5, <1>6 DEF CallStep

\* A fresh transport is a free slot.
LEMMA SlotInit == TransportInit => Slot!Init
<1> SUFFICES ASSUME TransportInit PROVE Slot!Init
  OBVIOUS
<1>1. Holder = NoTurn
  BY DEF TransportInit, Holder, Running
<1>2. SlotPhase = "free"
  BY <1>1 DEF TransportInit, SlotPhase
<1>3. Written = {}
  BY DEF TransportInit, Init, Written
<1> QED  BY <1>1, <1>2, <1>3 DEF Slot!Init, SlotPhase, Written

\* The beginning of a send or submit takes the free slot.
LEMMA SlotBegin ==
  ASSUME TransportInv, ~Reentrant, NEW t \in Turns, NEW c,
         BeginSend(t, c) \/ BeginSubmit(t, c)
  PROVE  Slot!Begin(t)
<1>1. PICK operation \in {"send", "submit"} :
        /\ Enter(t, operation, thread[t], c)
        /\ pending = NoTurn /\ UNCHANGED <<vars, pending>>
  BY DEF BeginSend, BeginSubmit, SlotIsTaken
<1>2. /\ \A u \in Turns : ~Running(u)
      /\ op' = [op EXCEPT ![t] = operation]
  BY <1>1, NobodyRuns
<1>3. SlotPhase = "free"
  BY <1>1, <1>2, HolderRests DEF SlotPhase
<1>4. TransportInv' /\ Running(t)'
  BY <1>1, <1>2, InvBegin DEF Running, TransportInv, TransportTypes
<1>5. Holder' = t
  <2>1. \A u \in Turns : Running(u)' <=> u = t
    BY <1>1, <1>2 DEF TransportInv, TransportTypes, Running
  <2>2. (CHOOSE u \in Turns : Running(u)') = t
    BY <2>1
  <2> QED  BY <1>1, <2>1, <2>2 DEF Holder
<1>6. SlotPhase' = "writing"
  BY <1>1, <1>5, WriteRuntimeAssumption DEF SlotPhase
<1>7. Written' = Written
  BY <1>1 DEF Written, vars, callVars
<1> QED  BY <1>3, <1>5, <1>6, <1>7 DEF Slot!Begin, SlotPhase, Written

\* An await goes on to read for the pending submission.
LEMMA SlotAwait ==
  ASSUME TransportInv, ~Reentrant, NEW t \in Turns, NEW h \in Threads, BeginAwait(t, h)
  PROVE  Slot!Await
<1>1. /\ pending = t /\ pending' = t /\ t # NoTurn /\ leaseRef' = leaseRef
      /\ Enter(t, "await", h, NoTurn)
  BY WriteRuntimeAssumption DEF BeginAwait
<1>2. op' = [op EXCEPT ![t] = "await"] /\ op[t] = "none"
  BY <1>1, NobodyRuns DEF Running
<1>3. SlotPhase = "pending" /\ SlotPhase' = "reading"
  BY <1>1, <1>2 DEF SlotPhase, TransportInv, TransportTypes
<1>4. Holder = t /\ Holder' = t
  BY <1>1 DEF Holder
<1>5. Written' = Written
  BY <1>1 DEF Written
<1> QED  BY <1>3, <1>4, <1>5 DEF Slot!Await, SlotPhase, Written

\* Authority is issued for the turn that holds the slot, once.
LEMMA SlotWrite ==
  ASSUME TransportInv, NEW t \in Turns, NEW d, NEW s, Issue(t, d, s), Running(t),
         UNCHANGED transportVars
  PROVE  Slot!Write
<1>1. pc[t] = "idle" /\ leaseRef[t] = "none" /\ leaseRef' = [leaseRef EXCEPT ![t] = "ACTIVE"]
  BY DEF Issue, TransportInv, FenceInv, CallInv
<1>2. pending = NoTurn
  BY <1>1 DEF TransportInv, SlotInv
<1>3. Holder = t /\ Holder' = Holder
  BY HolderRuns DEF Holder, Running, transportVars
<1>4. SlotPhase = "writing" /\ SlotPhase' = SlotPhase
  BY <1>2, <1>3, WriteRuntimeAssumption DEF SlotPhase, transportVars
<1>5. Holder \notin Written /\ Written' = Written \union {t}
  BY <1>1, <1>3 DEF Written, TransportInv, TransportTypes, TypeOK
<1> QED  BY <1>3, <1>4, <1>5 DEF Slot!Write, SlotPhase, Written

\* A published submission has been written, and keeps the slot.
LEMMA SlotAcknowledge ==
  ASSUME TransportInv, NEW t \in Turns, Publish(t)
  PROVE  Slot!Acknowledge
<1>1. /\ Running(t) /\ op[t] = "submit" /\ pc[t] = "submitted"
      /\ pending = NoTurn /\ pending' = t /\ t # NoTurn
      /\ UNCHANGED <<op, leaseRef>>
  BY WriteRuntimeAssumption DEF Publish, Running
<1>2. Holder = t /\ Holder' = t
  BY <1>1, HolderRuns DEF Holder
<1>3. SlotPhase = "writing" /\ SlotPhase' = "pending"
  BY <1>1, <1>2 DEF SlotPhase
<1>4. Holder \in Written /\ Written' = Written
  BY <1>1, <1>2 DEF Written, TransportInv, NewestInv, InFlight
<1> QED  BY <1>2, <1>3, <1>4 DEF Slot!Acknowledge, SlotPhase, Written

\* A call that returns gives the slot up, unless it leaves a submission in it.
LEMMA SlotReturn ==
  ASSUME TransportInv, NEW t \in Turns, Return(t)
  PROVE  Slot!Finish \/ UNCHANGED Slot!slotVars
<1>1. /\ Running(t)
      /\ pc[t] = "done" \/ (op[t] = "submit" /\ pending = t)
      /\ pending' = IF op[t] = "await" THEN NoTurn ELSE pending
      /\ op' = [op EXCEPT ![t] = "none"]
      /\ leaseRef' = leaseRef
  BY DEF Return, Innermost, PendingAfter, vars, callVars
<1>2. \A u \in Turns : ~Running(u)'
  <2>1. \A u \in Turns \ {t} : ~Running(u)
    BY <1>1, AloneInFlight
  <2> QED  BY <1>1, <2>1 DEF Running, TransportInv, TransportTypes
<1>3. Holder = t /\ Holder' = pending'
  BY <1>1, <1>2, HolderRuns DEF Holder
<1>4. Written' = Written
  BY <1>1 DEF Written
<1>5. t # NoTurn /\ op[t] # "none"
  BY <1>1, WriteRuntimeAssumption DEF Running
<1>6. CASE op[t] = "submit" /\ pending = t
  <2>1. SlotPhase = "pending" /\ SlotPhase' = "pending"
    BY <1>1, <1>5, <1>6 DEF SlotPhase, TransportInv, TransportTypes
  <2>2. Holder' = t
    BY <1>1, <1>3, <1>6
  <2> QED  BY <1>3, <1>4, <2>1, <2>2 DEF Slot!slotVars, SlotPhase, Written
<1>7. CASE ~(op[t] = "submit" /\ pending = t)
  <2>1. pending' = NoTurn
    <3>1. pending \in {NoTurn, t} /\ pc[t] = "done"
      BY <1>1, <1>7 DEF TransportInv, SlotInv
    <3>2. op[t] = "await" \/ pending # t
      BY <1>5, <1>7, <3>1 DEF TransportInv, SlotInv
    <3> QED  BY <1>1, <3>1, <3>2
  <2>2. Holder' = NoTurn /\ SlotPhase' = "free"
    BY <1>3, <2>1 DEF SlotPhase
  <2>3. SlotPhase \in {"writing", "reading"}
    <3>1. CASE pending = NoTurn
      BY <1>3, <1>5, <3>1 DEF SlotPhase
    <3>2. CASE pending # NoTurn
      <4>1. pending = t /\ op[t] = "await"
        BY <1>1, <1>5, <1>7, <3>2 DEF TransportInv, SlotInv
      <4> QED  BY <3>2, <4>1 DEF SlotPhase
    <3> QED  BY <3>1, <3>2
  <2> QED  BY <1>4, <2>2, <2>3 DEF Slot!Finish, SlotPhase, Written
<1> QED  BY <1>6, <1>7

\* Every step of the transport is one of its slot's, or does not touch it.
LEMMA SlotStep ==
  ASSUME TransportInv, ~Reentrant, [TransportNext]_allVars
  PROVE  Slot!Next \/ UNCHANGED Slot!slotVars
<1> DEFINE Keeps == Slot!Next \/ UNCHANGED Slot!slotVars
<1>1. CASE UNCHANGED allVars
  BY <1>1, SlotStutter DEF allVars, vars, callVars
<1>2. ASSUME NEW t \in Turns, Begin(t) PROVE Keeps
  BY <1>2, SlotBegin, SlotAwait DEF Begin, Slot!Next
<1>3. ASSUME NEW t \in Turns, Reject(t) PROVE Keeps
  <2>1. Refuse(t) /\ UNCHANGED transportVars
    BY <1>3 DEF Reject, RejectPending
  <2> QED  BY <2>1, IssueAlone, SlotStutter DEF TransportInv, FenceInv
<1>4. ASSUME NEW t \in Turns, Prepare(t) \/ Proceed(t) \/ Read(t) PROVE Keeps
  <2>1. Running(t) /\ UNCHANGED transportVars
    BY <1>4 DEF Prepare, Proceed, Read, Innermost
  <2>2. CASE Refuse(t) \/ CallStep(t) \/ ReadBaseline(t) \/ PollRead(t)
    BY <2>1, <2>2, IssueAlone, SlotStutter DEF TransportInv, FenceInv
  <2>3. CASE \E d \in BOOLEAN : Issue(t, d, op[t] = "submit")
    BY <2>1, <2>3, SlotWrite DEF Slot!Next
  <2> QED  BY <1>4, <2>2, <2>3 DEF Prepare, Proceed, Read
<1>5. ASSUME NEW t \in Turns, Background(t) PROVE Keeps
  <2>1. TimerMoves(t) /\ UNCHANGED transportVars
    BY <1>5 DEF Background, TimerMoves
  <2> QED  BY <2>1, IssueAlone, SlotStutter DEF TransportInv, FenceInv
<1>6. ASSUME NEW t \in Turns, Publish(t) PROVE Keeps
  BY <1>6, SlotAcknowledge DEF Slot!Next
<1>7. ASSUME NEW t \in Turns, Return(t) PROVE Keeps
  BY <1>7, SlotReturn DEF Slot!Next
<1>8. CASE Settled
  BY <1>1, <1>8 DEF Settled
<1> HIDE DEF Keeps
<1>9. Keeps
  BY ONLY [TransportNext]_allVars, <1>1, <1>2, <1>3, <1>4, <1>5, <1>6, <1>7, <1>8
     DEF TransportNext, Keeps
<1> QED  BY <1>9 DEF Keeps

\* For every set of turns and threads the transport "allows at most one pending or
\* in-flight split submission", writes each turn once and gives the slot up only
\* when its turn has ended (send_text, submit_text and await_final).
THEOREM TransportKeepsSlot ==
  ASSUME ~Reentrant PROVE TransportSpec => ImplementsSubmissionSlot
<1>1. TransportInv /\ [TransportNext]_allVars => [Slot!Next]_(Slot!slotVars)
  BY SlotStep
<1> QED
  BY <1>1, SlotInit, TransportInvHolds, PTL
     DEF TransportSpec, ImplementsSubmissionSlot, Slot!Spec
=============================================================================
