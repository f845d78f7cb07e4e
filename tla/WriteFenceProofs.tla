--------------------------- MODULE WriteFenceProofs -------------------------
(***************************************************************************)
(* Proofs about WriteFence: its types, how calls nest, that the lock of a  *)
(* client is held once for each call past it, that nobody waits for a lock *)
(* while holding another one, that one call makes one write, and that the  *)
(* conversations never branch, for every set of threads and clients and    *)
(* any number of calls.                                                    *)
(***************************************************************************)
EXTENDS WriteFence, SequenceTheorems, FiniteSetTheorems, TLAPS

\* What a call may have done at its place: it writes once, after it has read its
\* parent; a decorator may use its predecessor as long as it has not written; an
\* entry that delegates never runs a callback itself.
FrameOK(f) ==
  /\ f.writes <= 1
  /\ f.pc \in {"lock", "refresh", "prepare", "delegate", "read"} => f.writes = 0
  /\ f.pc = "decorator" /\ f.bypass => f.writes = 0
  /\ f.pc \in {"lock", "refresh", "prepare", "stream"} => ~f.bypass
  /\ f.pc = "delegate" => f.surface = "send_to_conversation"
  /\ f.surface = "send_to_conversation" => f.pc \in {"lock", "refresh", "delegate", "exit"}

\* The authority stack of a thread: one call, or a call that has delegated and the
\* send of the same client it has delegated to.
StackOK(stk) ==
  /\ stk \in Seq(Frames)
  /\ Len(stk) <= 2
  /\ \A i \in 1 .. Len(stk) : FrameOK(stk[i])
  /\ Len(stk) = 2 => /\ stk[1].surface = "send_to_conversation"
                     /\ stk[1].pc = "exit"
                     /\ stk[2].client = stk[1].client
                     /\ stk[2].surface \in {"send", "decorated"}

\* A thread with calls under way has one or two.
LEMMA OneOrTwo ==
  ASSUME NEW stk, StackOK(stk), stk # <<>>
  PROVE  Len(stk) \in {1, 2} /\ stk \in Seq(Frames)
<1> DEFINE n == Len(stk)
<1>1. stk \in Seq(Frames) /\ n <= 2
  BY DEF StackOK
<1>2. n \in Nat /\ n # 0
  BY <1>1, EmptySeq
<1> HIDE DEF n
<1>3. n \in {1, 2}
  BY <1>1, <1>2
<1> QED  BY <1>1, <1>3 DEF n

\* Nothing but its frame is asked of a single call.
LEMMA ShortStack ==
  ASSUME NEW stk \in Seq(Frames), Len(stk) <= 1, \A i \in 1 .. Len(stk) : FrameOK(stk[i])
  PROVE  StackOK(stk)
<1>1. Len(stk) \in Nat
  BY LenProperties
<1>2. Len(stk) <= 2 /\ Len(stk) # 2
  BY <1>1
<1> QED  BY <1>2 DEF StackOK

\* A thread that has not called.
LEMMA NoCalls == StackOK(<<>>)
BY DEF StackOK

\* A call on its own.
LEMMA CallStarts ==
  ASSUME NEW f \in Frames, FrameOK(f), NEW new, new = Append(<<>>, f)
  PROVE  StackOK(new) /\ Len(new) = 1 /\ new[1] = f
<1>1. <<>> \in Seq(Frames) /\ Len(<<>>) = 0
  OBVIOUS
<1>2. new \in Seq(Frames) /\ Len(new) = 1 /\ new[1] = f
  BY <1>1, AppendProperties
<1> HIDE DEF FrameOK
<1>3. \A i \in 1 .. Len(new) : FrameOK(new[i])
  <2> SUFFICES ASSUME NEW i \in 1 .. Len(new)
               PROVE  FrameOK(new[i])
    OBVIOUS
  <2>1. i = 1
    BY <1>2
  <2> QED  BY <1>2, <2>1
<1>4. Len(new) <= 1
  BY <1>2
<1>5. StackOK(new)
  BY <1>2, <1>3, <1>4, ShortStack
<1> QED  BY <1>2, <1>5

\* The innermost call goes on.
LEMMA CallAdvances ==
  ASSUME NEW stk, StackOK(stk), stk # <<>>, NEW f \in Frames, FrameOK(f),
         f.client = stk[Len(stk)].client, f.surface = stk[Len(stk)].surface,
         NEW new, new = [stk EXCEPT ![Len(stk)] = f]
  PROVE  /\ StackOK(new)
         /\ Len(new) = Len(stk)
         /\ \A j \in 1 .. Len(stk) : new[j] = IF j = Len(stk) THEN f ELSE stk[j]
<1>1. Len(stk) \in {1, 2}
  BY OneOrTwo DEF StackOK
<1>2. /\ new \in Seq(Frames)
      /\ Len(new) = Len(stk)
      /\ \A j \in 1 .. Len(stk) : new[j] = IF j = Len(stk) THEN f ELSE stk[j]
  BY <1>1, ExceptSeq DEF StackOK
<1>3. \A j \in 1 .. Len(stk) : FrameOK(new[j])
  BY <1>2 DEF StackOK
<1>4. Len(stk) = 2 => /\ new[1] = stk[1]
                      /\ new[2].client = stk[2].client
                      /\ new[2].surface = stk[2].surface
  BY <1>1, <1>2
<1> HIDE DEF FrameOK
<1>5. StackOK(new)
  BY <1>1, <1>2, <1>3, <1>4 DEF StackOK
<1> QED  BY <1>2, <1>5

\* The innermost call returns.
LEMMA CallReturns ==
  ASSUME NEW stk, StackOK(stk), stk # <<>>,
         NEW new, new = SubSeq(stk, 1, Len(stk) - 1)
  PROVE  /\ StackOK(new)
         /\ Len(new) = Len(stk) - 1
         /\ \A j \in 1 .. Len(new) : new[j] = stk[j]
<1>1. Len(stk) \in {1, 2} /\ stk \in Seq(Frames)
  BY OneOrTwo
<1>2. \A i \in 1 .. Len(stk) - 1 : stk[i] \in Frames
  BY <1>1
<1> DEFINE n == Len(stk) - 1
<1>3. n \in 0 .. 1
  BY <1>1
<1> HIDE DEF n
<1>4. /\ SubSeq(stk, 1, n) \in Seq(Frames)
      /\ Len(SubSeq(stk, 1, n)) = IF 1 <= n THEN n - 1 + 1 ELSE 0
      /\ \A i \in 1 .. n - 1 + 1 : SubSeq(stk, 1, n)[i] = stk[1 + i - 1]
  BY <1>2, <1>3, SubSeqProperties DEF n
<1>5. new = SubSeq(stk, 1, n)
  BY DEF n
<1>6. /\ new \in Seq(Frames)
      /\ Len(new) = n
      /\ \A j \in 1 .. Len(new) : new[j] = stk[j]
  BY <1>3, <1>4, <1>5
<1>7. \A j \in 1 .. Len(new) : FrameOK(new[j])
  BY <1>1, <1>6 DEF n, StackOK
<1>8. Len(new) <= 1
  BY <1>3, <1>6
<1>9. StackOK(new)
  BY <1>6, <1>7, <1>8, ShortStack
<1> QED  BY <1>6, <1>9 DEF n

\* A call that has delegated, and the send of its client.
LEMMA CallDelegates ==
  ASSUME NEW rest \in Seq(Frames), Len(rest) = 0,
         NEW outer \in Frames, FrameOK(outer),
         outer.surface = "send_to_conversation", outer.pc = "exit",
         NEW f \in Frames, FrameOK(f), f.client = outer.client,
         f.surface \in {"send", "decorated"}
  PROVE  /\ StackOK(Append(Append(rest, outer), f))
         /\ Len(Append(Append(rest, outer), f)) = 2
         /\ Append(Append(rest, outer), f)[1] = outer
         /\ Append(Append(rest, outer), f)[2] = f
<1> DEFINE one == Append(rest, outer)
<1>1. one \in Seq(Frames) /\ Len(one) = 1 /\ one[1] = outer
  BY AppendProperties
<1> HIDE DEF one
<1> DEFINE two == Append(one, f)
<1>2. /\ two \in Seq(Frames)
      /\ Len(two) = 2
      /\ two[1] = outer
      /\ two[2] = f
  <2>1. one \in Seq(Frames)
    BY <1>1
  <2>2. /\ Append(one, f) \in Seq(Frames)
        /\ Len(Append(one, f)) = Len(one) + 1
        /\ \A i \in 1 .. Len(one) : Append(one, f)[i] = one[i]
        /\ Append(one, f)[Len(one) + 1] = f
    BY <2>1, AppendProperties
  <2>3. two[1] = one[1] /\ two[Len(one) + 1] = f /\ Len(two) = Len(one) + 1
    BY <1>1, <2>2
  <2> QED  BY <1>1, <2>2, <2>3
<1> HIDE DEF two
<1>3. StackOK(two)
  BY <1>2 DEF StackOK
<1> QED  BY <1>2, <1>3 DEF one, two

-----------------------------------------------------------------------------
(* The inductive invariant *)

NestingInv == \A t \in Threads : StackOK(stack[t])

\* How often t has acquired the lock of c: its calls are all of one client, and all
\* but the innermost are past the lock.
Held(t, c) ==
  IF stack[t] = <<>> \/ Top(t).client # c THEN 0
  ELSE IF Top(t).pc = "lock" THEN Len(stack[t]) - 1
  ELSE Len(stack[t])

LockInv ==
  /\ \A t \in Threads, c \in Clients : Held(t, c) = IF owner[c] = t THEN count[c] ELSE 0
  /\ \A c \in Clients : owner[c] = NoThread <=> count[c] = 0

FenceInv == TypeOK /\ NestingInv /\ LockInv

\* A call that is about to write has read the current message of its conversation,
\* unless it starts a new one.
Fresh(f) ==
  f.pc = "prepare" \/ (f.pc = "decorator" /\ f.bypass)
    => f.parent \in {NewChat, Current(f.client)}

FreshInv == \A t \in Threads : Busy(t) => Fresh(Top(t))

\* The innermost call of t, which is past the lock, goes on as f, without touching
\* any lock.
Proceeds(t, f) ==
  /\ Busy(t)
  /\ Top(t).pc # "lock" /\ f.pc # "lock"
  /\ FrameOK(f) /\ f.client = Top(t).client /\ f.surface = Top(t).surface
  /\ Advance(t, f)
  /\ UNCHANGED <<owner, count, calls, reports>>

\* The innermost call of a thread is a frame of its nest.
LEMMA TopFrame ==
  ASSUME FenceInv, NEW t \in Threads, Busy(t)
  PROVE  /\ StackOK(stack[t]) /\ stack[t] # <<>>
         /\ Len(stack[t]) \in {1, 2}
         /\ Top(t) \in Frames
         /\ FrameOK(Top(t))
<1>1. StackOK(stack[t]) /\ stack[t] # <<>>
  BY DEF FenceInv, NestingInv, Busy
<1>2. Len(stack[t]) \in {1, 2} /\ stack[t] \in Seq(Frames)
  BY <1>1, OneOrTwo
<1> QED  BY <1>1, <1>2 DEF Top, StackOK

\* What goes on in the innermost call concerns no other thread.
LEMMA AdvanceChanges ==
  ASSUME FenceInv, NEW t \in Threads, Busy(t), NEW f \in Frames, FrameOK(f),
         f.client = Top(t).client, f.surface = Top(t).surface, Advance(t, f)
  PROVE  /\ stack' \in [Threads -> Seq(Frames)]
         /\ \A s \in Threads : s # t => stack'[s] = stack[s]
         /\ StackOK(stack'[t]) /\ NestingInv'
         /\ Len(stack'[t]) = Len(stack[t])
         /\ stack'[t] # <<>>
         /\ stack'[t][Len(stack'[t])] = f
<1> DEFINE new == [stack[t] EXCEPT ![Len(stack[t])] = f]
<1>1. stack \in [Threads -> Seq(Frames)]
  BY DEF FenceInv, TypeOK
<1>2. stack' = [stack EXCEPT ![t] = new]
  BY <1>1 DEF Advance
<1>3. stack'[t] = new /\ \A s \in Threads : s # t => stack'[s] = stack[s]
  BY <1>1, <1>2
<1>4. /\ StackOK(stack[t]) /\ stack[t] # <<>>
      /\ f.client = stack[t][Len(stack[t])].client
      /\ f.surface = stack[t][Len(stack[t])].surface
      /\ Len(stack[t]) \in {1, 2}
  BY TopFrame DEF Top
<1>5. /\ StackOK(new)
      /\ Len(new) = Len(stack[t])
      /\ \A j \in 1 .. Len(stack[t]) : new[j] = IF j = Len(stack[t]) THEN f ELSE stack[t][j]
  BY <1>4, CallAdvances
<1>6. new[Len(stack[t])] = f
  BY <1>4, <1>5
<1>7. new # <<>>
  BY <1>4, <1>5
<1>8. stack' \in [Threads -> Seq(Frames)]
  <2>1. new \in Seq(Frames)
    BY <1>5 DEF StackOK
  <2> HIDE DEF new
  <2> QED  BY <1>1, <1>2, <2>1
<1> HIDE DEF new
<1>9. NestingInv'
  BY <1>3, <1>5 DEF NestingInv, FenceInv
<1> QED  BY <1>3, <1>5, <1>6, <1>7, <1>8, <1>9

\* A call that proceeds keeps the lock as it is.
LEMMA ProceedsKeepsLock ==
  ASSUME FenceInv, NEW t \in Threads, NEW f \in Frames, Proceeds(t, f)
  PROVE  /\ NestingInv' /\ LockInv'
         /\ stack' \in [Threads -> Seq(Frames)]
         /\ \A s \in Threads : s # t => stack'[s] = stack[s]
         /\ stack'[t][Len(stack'[t])] = f
<1>1. /\ stack' \in [Threads -> Seq(Frames)]
      /\ \A s \in Threads : s # t => stack'[s] = stack[s]
      /\ NestingInv'
      /\ Len(stack'[t]) = Len(stack[t])
      /\ stack'[t] # <<>> /\ stack[t] # <<>>
      /\ stack'[t][Len(stack'[t])] = f
  BY AdvanceChanges DEF Proceeds, Busy
<1>2. \A s \in Threads, c \in Clients : Held(s, c)' = Held(s, c)
  <2> SUFFICES ASSUME NEW s \in Threads, NEW c \in Clients
               PROVE  Held(s, c)' = Held(s, c)
    OBVIOUS
  <2>1. CASE s = t
    BY <1>1, <2>1 DEF Held, Top, Proceeds
  <2>2. CASE s # t
    BY <1>1, <2>2 DEF Held, Top
  <2> QED  BY <2>1, <2>2
<1>3. LockInv'
  BY <1>2 DEF Proceeds, FenceInv, LockInv
<1> QED  BY <1>1, <1>3

-----------------------------------------------------------------------------
(* The steps under the lock *)

\* A frame that fails may be left.
LEMMA RaisedFrame ==
  ASSUME NEW g \in Frames, FrameOK(g), NEW error \in Errors,
         NEW f, f = [g EXCEPT !.pc = "exit", !.error = error]
  PROVE  /\ f \in Frames /\ FrameOK(f) /\ Fresh(f)
         /\ f.pc = "exit" /\ f.client = g.client /\ f.surface = g.surface
BY DEF Frames, FrameOK, Fresh, PCs

\* A callback is refused: no entry point is a delegation of a call that can run one.
LEMMA CallbackRefused ==
  ASSUME FenceInv, NEW t \in Threads, NEW c \in Clients, NEW surface \in Surfaces,
         NEW parent \in Known(c), Nested(t, c, surface, parent)
  PROVE  \E error \in Errors : Raise(t, error)
<1>1. FrameOK(Top(t)) /\ Busy(t)
  BY TopFrame DEF Nested, AtCallback, At
<1>2. Top(t).surface # "send_to_conversation"
  BY <1>1 DEF FrameOK, Nested, AtCallback, At
<1>3. Conflict(t, c, surface)
  BY <1>1, <1>2 DEF Conflict, Delegations, AuthorityName
<1>4. Raise(t, IF surface = "browserless_request" THEN "refused" ELSE "request")
  BY <1>3 DEF Nested
<1> QED  BY <1>4 DEF Errors

\* The steps under the lock, but for the write.
Quiet(t) ==
  \/ Refresh(t) \/ ValidatePayload(t) \/ Attach(t) \/ ReadHealth(t)
  \/ CallPredecessor(t) \/ Return(t) \/ Fail(t) \/ Callback(t)

\* Under the lock a call proceeds, and gets no further than its parent allows.
LEMMA QuietSteps ==
  ASSUME FenceInv, FreshInv, NEW t \in Threads, Quiet(t)
  PROVE  \E f \in Frames : Proceeds(t, f) /\ Fresh(f) /\ UNCHANGED parents
<1>1. Busy(t) /\ Top(t).pc # "lock"
  BY DEF Quiet, Refresh, ValidatePayload, Attach, ReadHealth, CallPredecessor, Return, Fail,
         Callback, Nested, AtCallback, At
<1>2. Top(t) \in Frames /\ FrameOK(Top(t)) /\ Fresh(Top(t))
  BY <1>1, TopFrame DEF FreshInv
<1>3. Current(Top(t).client) \in Nat
  <2>1. parents[Top(t).client] \in Seq(Nat)
    BY <1>2 DEF Frames, FenceInv, TypeOK
  <2> QED  BY <2>1, LenProperties DEF Current
<1>4. ASSUME NEW error \in Errors, Raise(t, error),
             UNCHANGED <<owner, count, parents, calls, reports>>
      PROVE  \E f \in Frames : Proceeds(t, f) /\ Fresh(f) /\ UNCHANGED parents
  <2> DEFINE f == [Top(t) EXCEPT !.pc = "exit", !.error = error]
  <2>1. /\ f \in Frames /\ FrameOK(f) /\ Fresh(f)
        /\ f.pc = "exit" /\ f.client = Top(t).client /\ f.surface = Top(t).surface
    BY <1>2, RaisedFrame
  <2>2. Advance(t, f)
    BY <1>4 DEF Raise
  <2> HIDE DEF f
  <2> QED  BY <1>1, <1>4, <2>1, <2>2 DEF Proceeds
<1>5. ASSUME NEW place \in PCs, Goto(t, place), place # "lock",
             UNCHANGED <<owner, count, parents, calls, reports>>,
             FrameOK([Top(t) EXCEPT !.pc = place]), Fresh([Top(t) EXCEPT !.pc = place])
      PROVE  \E f \in Frames : Proceeds(t, f) /\ Fresh(f) /\ UNCHANGED parents
  <2> DEFINE f == [Top(t) EXCEPT !.pc = place]
  <2>1. /\ f \in Frames
        /\ f.pc = place /\ f.client = Top(t).client /\ f.surface = Top(t).surface
    BY <1>2 DEF Frames
  <2>2. Advance(t, f) /\ FrameOK(f) /\ Fresh(f)
    BY <1>5 DEF Goto
  <2> HIDE DEF f
  <2> QED  BY <1>1, <1>5, <2>1, <2>2 DEF Proceeds
<1>6. CASE Refresh(t)
  <2> DEFINE f == [Top(t) EXCEPT
               !.pc = IF Top(t).surface = "decorated" THEN "decorator" ELSE "prepare",
               !.bypass = Top(t).surface = "decorated",
               !.parent = IF Top(t).parent = NewChat THEN NewChat
                          ELSE Current(Top(t).client)]
  <2>1. /\ f \in Frames /\ FrameOK(f) /\ Fresh(f) /\ f.pc # "lock"
        /\ f.client = Top(t).client /\ f.surface = Top(t).surface
    BY <1>2, <1>3, <1>6 DEF Frames, FrameOK, Fresh, PCs, Refresh, At, NewChat, Refreshing
  <2>2. Advance(t, f) /\ UNCHANGED <<owner, count, parents, calls, reports>>
    BY <1>6 DEF Refresh
  <2> HIDE DEF f
  <2> QED  BY <1>1, <2>1, <2>2 DEF Proceeds
<1>7. CASE Attach(t)
  <2> DEFINE f == [Top(t) EXCEPT !.pc = "delegate", !.parent = Current(Top(t).client)]
  <2>1. /\ f \in Frames /\ FrameOK(f) /\ Fresh(f) /\ f.pc # "lock"
        /\ f.client = Top(t).client /\ f.surface = Top(t).surface
    BY <1>2, <1>3, <1>7 DEF Frames, FrameOK, Fresh, PCs, Attach, At
  <2>2. Advance(t, f) /\ UNCHANGED <<owner, count, parents, calls, reports>>
    BY <1>7 DEF Attach
  <2> HIDE DEF f
  <2> QED  BY <1>1, <2>1, <2>2 DEF Proceeds
<1>8. CASE CallPredecessor(t)
  <2> DEFINE f == [Top(t) EXCEPT !.pc = "prepare", !.bypass = FALSE]
  <2>1. /\ f \in Frames /\ FrameOK(f) /\ Fresh(f) /\ f.pc # "lock"
        /\ f.client = Top(t).client /\ f.surface = Top(t).surface
    BY <1>2, <1>8 DEF Frames, FrameOK, Fresh, PCs, CallPredecessor, At
  <2>2. Advance(t, f) /\ UNCHANGED <<owner, count, parents, calls, reports>>
    BY <1>8 DEF CallPredecessor
  <2> HIDE DEF f
  <2> QED  BY <1>1, <2>1, <2>2 DEF Proceeds
<1>9. CASE ValidatePayload(t)
  <2>1. CASE Top(t).parent \in {NewChat, Current(Top(t).client)}
    <3>1. FrameOK([Top(t) EXCEPT !.pc = "prepare"]) /\ Fresh([Top(t) EXCEPT !.pc = "prepare"])
      BY <1>2, <1>9, <2>1 DEF ValidatePayload, At, Frames, FrameOK, Fresh
    <3>2. Goto(t, "prepare") /\ UNCHANGED <<owner, count, parents, calls, reports>>
      BY <1>9, <2>1 DEF ValidatePayload
    <3>3. "prepare" \in PCs
      BY DEF PCs
    <3> QED  BY <1>5, <3>1, <3>2, <3>3
  <2>2. CASE Top(t).parent \notin {NewChat, Current(Top(t).client)}
    <3>1. Raise(t, "request") /\ UNCHANGED <<owner, count, parents, calls, reports>>
      BY <1>9, <2>2 DEF ValidatePayload
    <3>2. "request" \in Errors
      BY DEF Errors
    <3> QED  BY <1>4, <3>1, <3>2
  <2> QED  BY <2>1, <2>2
<1>10. CASE ReadHealth(t)
  <2>1. PICK place \in {"read", "exit"} : Goto(t, place)
    BY <1>10 DEF ReadHealth
  <2>2. FrameOK([Top(t) EXCEPT !.pc = place]) /\ Fresh([Top(t) EXCEPT !.pc = place])
    BY <1>2, <1>10 DEF ReadHealth, At, Frames, FrameOK, Fresh
  <2>3. place \in PCs /\ place # "lock"
    BY DEF PCs
  <2>4. UNCHANGED <<owner, count, parents, calls, reports>>
    BY <1>10 DEF ReadHealth
  <2> QED  BY <1>5, <2>1, <2>2, <2>3, <2>4
<1>11. CASE Return(t)
  <2>1. PICK place \in {"decorator", "exit"} :
          Goto(t, place) /\ (place = "decorator" => At(t, "stream") /\ Top(t).surface = "decorated")
    BY <1>11 DEF Return
  <2>2. FrameOK([Top(t) EXCEPT !.pc = place]) /\ Fresh([Top(t) EXCEPT !.pc = place])
    BY <1>2, <1>11, <2>1 DEF Return, At, Frames, FrameOK, Fresh
  <2>3. place \in PCs /\ place # "lock"
    BY DEF PCs
  <2>4. UNCHANGED <<owner, count, parents, calls, reports>>
    BY <1>11 DEF Return
  <2> QED  BY <1>5, <2>1, <2>2, <2>3, <2>4
<1>12. CASE Fail(t)
  <2>1. Raise(t, "request") /\ UNCHANGED <<owner, count, parents, calls, reports>>
    BY <1>12 DEF Fail
  <2>2. "request" \in Errors
    BY DEF Errors
  <2> QED  BY <1>4, <2>1, <2>2
<1>13. CASE Callback(t)
  <2>1. PICK c \in Clients, surface \in Surfaces : \E parent \in Known(c) :
          Nested(t, c, surface, parent)
    BY <1>13 DEF Callback
  <2>2. PICK parent \in Known(c) : Nested(t, c, surface, parent)
    BY <2>1
  <2>3. \E error \in Errors : Raise(t, error)
    BY <2>2, CallbackRefused
  <2>4. UNCHANGED <<owner, count, parents, calls, reports>>
    BY <2>2 DEF Nested
  <2> QED  BY <1>4, <2>3, <2>4
<1> QED  BY <1>6, <1>7, <1>8, <1>9, <1>10, <1>11, <1>12, <1>13 DEF Quiet

\* A write proceeds, and starts to stream.
LEMMA WriteSteps ==
  ASSUME FenceInv, NEW t \in Threads, Write(t)
  PROVE  \E f \in Frames : Proceeds(t, f) /\ f.pc = "stream"
<1> DEFINE f == [Top(t) EXCEPT !.pc = "stream", !.writes = Top(t).writes + 1]
<1>1. Busy(t) /\ Top(t).pc = "prepare"
  BY DEF Write, At
<1>2. Top(t) \in Frames /\ FrameOK(Top(t))
  BY <1>1, TopFrame
<1>3. /\ f \in Frames /\ FrameOK(f) /\ f.pc = "stream"
      /\ f.client = Top(t).client /\ f.surface = Top(t).surface
  <2>1. /\ Top(t).writes = 0 /\ ~Top(t).bypass
        /\ Top(t).surface # "send_to_conversation"
    BY <1>1, <1>2 DEF FrameOK
  <2>2. f \in Frames
    <3> DEFINE w == Top(t).writes + 1
    <3>1. w \in Nat /\ "stream" \in PCs
      BY <2>1 DEF PCs
    <3> HIDE DEF w
    <3>2. [Top(t) EXCEPT !.pc = "stream", !.writes = w] \in Frames
      BY <1>2, <3>1 DEF Frames
    <3> QED  BY <3>2 DEF w
  <2>3. /\ f.pc = "stream" /\ f.writes = Top(t).writes + 1 /\ f.bypass = Top(t).bypass
        /\ f.client = Top(t).client /\ f.surface = Top(t).surface
    BY <1>2 DEF Frames
  <2> HIDE DEF f
  <2>4. f.writes = 1
    BY <2>1, <2>3
  <2> QED  BY <2>1, <2>2, <2>3, <2>4 DEF FrameOK
<1>4. Advance(t, f) /\ UNCHANGED <<owner, count, calls, reports>>
  BY DEF Write
<1> HIDE DEF f
<1> QED  BY <1>1, <1>3, <1>4 DEF Proceeds

-----------------------------------------------------------------------------
(* The steps that start and end a call, take and release the lock *)

\* The calls of other threads hold what they held.
LEMMA OthersHold ==
  ASSUME NEW s \in Threads, NEW c \in Clients, stack'[s] = stack[s]
  PROVE  Held(s, c)' = Held(s, c)
BY DEF Held, Top

\* A thread's call starts without a lock.
LEMMA CallKeeps ==
  ASSUME FenceInv, NEW t \in Threads, NEW c \in Clients, NEW surface \in Surfaces,
         NEW parent \in Known(c), Call(t, c, surface, parent)
  PROVE  /\ TypeOK' /\ NestingInv' /\ LockInv'
         /\ \A s \in Threads : s # t => stack'[s] = stack[s]
         /\ stack'[t][Len(stack'[t])].pc = "lock"
<1> DEFINE f == Frame(c, surface, parent)
<1>1. parent \in Nat
  <2>1. parents[c] \in Seq(Nat)
    BY DEF FenceInv, TypeOK
  <2> QED  BY <2>1, LenProperties DEF Known, Current, NewChat
<1>2. f \in Frames /\ FrameOK(f) /\ f.pc = "lock" /\ f.client = c
  BY <1>1 DEF Frame, Frames, FrameOK, PCs, Errors
<1> HIDE DEF f
<1>3. stack[t] = <<>> /\ stack \in [Threads -> Seq(Frames)]
  BY DEF Call, Busy, FenceInv, TypeOK
<1>4. /\ stack'[t] = Append(<<>>, f)
      /\ \A s \in Threads : s # t => stack'[s] = stack[s]
      /\ stack' = [stack EXCEPT ![t] = Append(<<>>, f)]
  BY <1>3 DEF Call, Push, f
<1>5. StackOK(stack'[t]) /\ Len(stack'[t]) = 1 /\ stack'[t][1] = f
  BY <1>2, <1>4, CallStarts
<1>6. stack' \in [Threads -> Seq(Frames)]
  <2>1. Append(<<>>, f) \in Seq(Frames)
    BY <1>4, <1>5 DEF StackOK
  <2> QED  BY <1>3, <1>4, <2>1
<1>7. TypeOK'
  <2>1. calls' \in [Threads -> 0 .. MaxCalls]
    BY WriteFenceAssumption DEF Call, FenceInv, TypeOK
  <2> QED  BY <1>6, <2>1 DEF Call, FenceInv, TypeOK
<1>8. NestingInv'
  BY <1>4, <1>5 DEF FenceInv, NestingInv
<1>9. \A s \in Threads, d \in Clients : Held(s, d)' = Held(s, d)
  <2>1. \A d \in Clients : Held(t, d) = 0
    BY <1>3 DEF Held
  <2>2. stack'[t][Len(stack'[t])] = f
    BY <1>5
  <2>3. \A d \in Clients : Held(t, d)' = 0
    BY <1>2, <1>5, <2>2 DEF Held, Top
  <2> QED  BY <1>4, <2>1, <2>3, OthersHold
<1>10. LockInv'
  BY <1>9 DEF Call, FenceInv, LockInv
<1>11. stack'[t][Len(stack'[t])].pc = "lock"
  BY <1>2, <1>5
<1> QED  BY <1>4, <1>7, <1>8, <1>10, <1>11

\* A call that delegates keeps its lock, and its send starts at the lock.
LEMMA DelegateKeeps ==
  ASSUME FenceInv, NEW t \in Threads, Delegate(t)
  PROVE  /\ TypeOK' /\ NestingInv' /\ LockInv'
         /\ \A s \in Threads : s # t => stack'[s] = stack[s]
         /\ stack'[t][Len(stack'[t])].pc = "lock"
<1> DEFINE outer == [Top(t) EXCEPT !.pc = "exit"]
<1>1. Busy(t) /\ Top(t).pc = "delegate"
  BY DEF Delegate, At
<1>2. /\ StackOK(stack[t]) /\ stack[t] # <<>>
      /\ Top(t) \in Frames
      /\ Top(t).surface = "send_to_conversation"
  BY <1>1, TopFrame DEF FrameOK
<1>3. PICK surface \in {"send", "decorated"} :
        stack' = [stack EXCEPT ![t] =
                    Append(Append(Pop(t), outer), Frame(outer.client, surface, outer.parent))]
  BY DEF Delegate
<1> DEFINE f == Frame(outer.client, surface, outer.parent)
<1>4. /\ f \in Frames /\ FrameOK(f) /\ f.pc = "lock"
      /\ f.client = Top(t).client /\ f.surface \in {"send", "decorated"}
  BY <1>2 DEF Frame, Frames, FrameOK, PCs, Errors, Surfaces
<1> HIDE DEF f
<1>5. stack \in [Threads -> Seq(Frames)]
  BY DEF FenceInv, TypeOK
<1> DEFINE new == Append(Append(Pop(t), outer), f)
<1>6. stack' = [stack EXCEPT ![t] = new]
  BY <1>3 DEF f
<1>7. /\ StackOK(new)
      /\ Len(stack[t]) = 1
      /\ Len(new) = 2
      /\ new[1] = outer
      /\ new[2] = f
  <2>1. Len(stack[t]) \in {1, 2}
    BY <1>2, OneOrTwo
  <2>2. Len(stack[t]) # 2
    BY <1>1, <1>2 DEF StackOK, Top
  <2>3. Len(stack[t]) = 1
    BY <2>1, <2>2
  <2>4. StackOK(Pop(t)) /\ Len(Pop(t)) = Len(stack[t]) - 1
    BY <1>2, CallReturns DEF Pop
  <2>5. Pop(t) \in Seq(Frames) /\ Len(Pop(t)) = 0
    BY <2>3, <2>4 DEF StackOK
  <2>6. /\ outer \in Frames
        /\ outer.surface = "send_to_conversation" /\ outer.pc = "exit"
        /\ outer.client = f.client
        /\ outer.writes = Top(t).writes
    BY <1>2, <1>4 DEF Frames, PCs
  <2> HIDE DEF outer
  <2>7. FrameOK(outer)
    BY <1>1, <1>2, <2>6, TopFrame DEF FrameOK
  <2> QED  BY <1>4, <2>3, <2>5, <2>6, <2>7, CallDelegates
<1> HIDE DEF new
<1>8. stack'[t] = new /\ \A s \in Threads : s # t => stack'[s] = stack[s]
  BY <1>5, <1>6
<1>9. stack' \in [Threads -> Seq(Frames)]
  BY <1>5, <1>6, <1>7 DEF StackOK
<1>10. UNCHANGED <<owner, count, parents, calls, reports>>
  BY DEF Delegate
<1>11. TypeOK'
  BY <1>9, <1>10 DEF FenceInv, TypeOK
<1>12. NestingInv'
  BY <1>7, <1>8 DEF FenceInv, NestingInv
<1>13. stack'[t][Len(stack'[t])] = f /\ Len(stack'[t]) = 2 /\ stack'[t] # <<>>
  BY <1>7, <1>8
<1>14. \A s \in Threads, d \in Clients : Held(s, d)' = Held(s, d)
  <2>1. \A d \in Clients : Held(t, d) = IF Top(t).client = d THEN 1 ELSE 0
    BY <1>1, <1>2, <1>7 DEF Held
  <2>2. \A d \in Clients : Held(t, d)' = IF Top(t).client = d THEN 1 ELSE 0
    BY <1>4, <1>13 DEF Held, Top
  <2> QED  BY <1>8, <2>1, <2>2, OthersHold
<1>15. LockInv'
  BY <1>10, <1>14 DEF FenceInv, LockInv
<1>16. stack'[t][Len(stack'[t])].pc = "lock"
  BY <1>4, <1>13
<1> QED  BY <1>8, <1>11, <1>12, <1>15, <1>16

\* A call takes the lock of its client once more.
LEMMA AcquireKeeps ==
  ASSUME FenceInv, NEW t \in Threads, Acquire(t)
  PROVE  /\ TypeOK' /\ NestingInv' /\ LockInv'
         /\ \A s \in Threads : s # t => stack'[s] = stack[s]
         /\ stack'[t][Len(stack'[t])].pc = "refresh"
<1> DEFINE f == [Top(t) EXCEPT !.pc = "refresh"]
<1>1. Busy(t) /\ Top(t).pc = "lock"
  BY DEF Acquire, At
<1>2. /\ StackOK(stack[t]) /\ stack[t] # <<>>
      /\ Len(stack[t]) \in {1, 2}
      /\ Top(t) \in Frames /\ FrameOK(Top(t))
  BY <1>1, TopFrame
<1>3. /\ f \in Frames /\ FrameOK(f) /\ f.pc = "refresh"
      /\ f.client = Top(t).client /\ f.surface = Top(t).surface
  BY <1>1, <1>2 DEF Frames, FrameOK, PCs
<1>4. Advance(t, f)
  BY DEF Acquire, Goto
<1> HIDE DEF f
<1>5. /\ stack' \in [Threads -> Seq(Frames)]
      /\ \A s \in Threads : s # t => stack'[s] = stack[s]
      /\ NestingInv'
      /\ Len(stack'[t]) = Len(stack[t])
      /\ stack'[t] # <<>>
      /\ stack'[t][Len(stack'[t])] = f
  BY <1>1, <1>3, <1>4, AdvanceChanges
<1> PICK c \in Clients : c = Top(t).client
  BY <1>2 DEF Frames
<1>6. /\ owner[c] \in {NoThread, t}
      /\ owner' = [owner EXCEPT ![c] = t]
      /\ count' = [count EXCEPT ![c] = count[c] + 1]
      /\ UNCHANGED <<parents, calls, reports>>
  BY DEF Acquire
<1>7. /\ owner \in [Clients -> Threads \union {NoThread}]
      /\ count \in [Clients -> Nat]
  BY DEF FenceInv, TypeOK
<1>8. TypeOK'
  BY <1>5, <1>6, <1>7 DEF FenceInv, TypeOK
<1>9. /\ Held(t, c) = Len(stack[t]) - 1
      /\ Held(t, c)' = Len(stack[t])
      /\ \A d \in Clients : d # c => Held(t, d)' = 0 /\ Held(t, d) = 0
  BY <1>1, <1>2, <1>3, <1>5 DEF Held, Top
<1>10. /\ \A s \in Threads, d \in Clients : Held(s, d) = IF owner[d] = s THEN count[d] ELSE 0
       /\ \A d \in Clients : owner[d] = NoThread <=> count[d] = 0
  BY DEF FenceInv, LockInv
<1>11. count[c] = Len(stack[t]) - 1
  BY <1>6, <1>9, <1>10
<1>12. ASSUME NEW s \in Threads, NEW d \in Clients
       PROVE  Held(s, d)' = IF owner'[d] = s THEN count'[d] ELSE 0
  <2>1. CASE s = t /\ d = c
    <3>1. owner'[c] = t /\ count'[c] = count[c] + 1
      BY <1>6, <1>7
    <3>2. count'[c] = Len(stack[t])
      BY <1>2, <1>11, <3>1
    <3> QED  BY <1>9, <2>1, <3>1, <3>2
  <2>2. CASE s = t /\ d # c
    BY <1>6, <1>7, <1>9, <1>10, <2>2
  <2>3. CASE s # t
    <3>1. Held(s, d)' = Held(s, d)
      BY <1>5, <2>3, OthersHold
    <3>2. CASE d = c
      BY <1>6, <1>7, <1>10, <2>3, <3>1, <3>2, WriteFenceAssumption
    <3>3. CASE d # c
      BY <1>6, <1>7, <1>10, <3>1, <3>3
    <3> QED  BY <3>2, <3>3
  <2> QED  BY <2>1, <2>2, <2>3
<1>13. \A d \in Clients : owner'[d] = NoThread <=> count'[d] = 0
  BY <1>6, <1>7, <1>10, WriteFenceAssumption
<1>14. LockInv'
  BY <1>12, <1>13 DEF LockInv
<1> QED  BY <1>3, <1>5, <1>8, <1>14

\* What is left of a thread's calls when the innermost one returns.
LEMMA PopChanges ==
  ASSUME FenceInv, NEW t \in Threads, Busy(t), stack' = [stack EXCEPT ![t] = Pop(t)]
  PROVE  /\ stack' \in [Threads -> Seq(Frames)] /\ NestingInv'
         /\ \A s \in Threads : s # t => stack'[s] = stack[s]
         /\ Len(stack[t]) = 1 => stack'[t] = <<>>
         /\ Len(stack[t]) = 2 => /\ stack'[t] # <<>>
                                 /\ Len(stack'[t]) = 1
                                 /\ Top(t)' = stack[t][1]
<1>1. stack \in [Threads -> Seq(Frames)]
  BY DEF FenceInv, TypeOK
<1>2. StackOK(stack[t]) /\ stack[t] # <<>> /\ Len(stack[t]) \in {1, 2}
  BY TopFrame
<1> DEFINE new == Pop(t)
<1>3. /\ StackOK(new)
      /\ Len(new) = Len(stack[t]) - 1
      /\ \A j \in 1 .. Len(new) : new[j] = stack[t][j]
  BY <1>2, CallReturns DEF Pop
<1>4. stack' = [stack EXCEPT ![t] = new]
  OBVIOUS
<1> HIDE DEF new
<1>5. new \in Seq(Frames)
  BY <1>3 DEF StackOK
<1>6. /\ stack' \in [Threads -> Seq(Frames)]
      /\ stack'[t] = new
      /\ \A s \in Threads : s # t => stack'[s] = stack[s]
  BY <1>1, <1>4, <1>5
<1>7. NestingInv'
  BY <1>3, <1>6 DEF FenceInv, NestingInv
<1>8. (Len(new) = 0 => new = <<>>) /\ (Len(new) = 1 => new # <<>>)
  BY <1>5, EmptySeq
<1>9. CASE Len(stack[t]) = 1
  BY <1>3, <1>6, <1>7, <1>8, <1>9
<1>10. CASE Len(stack[t]) = 2
  <2>1. Len(new) = 1 /\ new[1] = stack[t][1]
    BY <1>3, <1>10
  <2>2. Top(t)' = stack[t][1]
    BY <1>6, <2>1 DEF Top
  <2> QED  BY <1>6, <1>7, <1>8, <1>10, <2>1, <2>2
<1> QED  BY <1>2, <1>9, <1>10

\* A request that has waited too long has no lock to release.
LEMMA QueueTimeoutKeeps ==
  ASSUME FenceInv, NEW t \in Threads, QueueTimeout(t)
  PROVE  /\ TypeOK' /\ NestingInv' /\ LockInv'
         /\ \A s \in Threads : s # t => stack'[s] = stack[s]
         /\ stack'[t] = <<>>
<1>1. Busy(t) /\ Top(t).pc = "lock" /\ Top(t).surface = "browserless_request"
  BY DEF QueueTimeout, At
<1>2. Len(stack[t]) = 1
  BY <1>1, TopFrame DEF StackOK, Top
<1>3. /\ stack' \in [Threads -> Seq(Frames)] /\ NestingInv'
      /\ \A s \in Threads : s # t => stack'[s] = stack[s]
      /\ stack'[t] = <<>>
  BY <1>1, <1>2, PopChanges DEF QueueTimeout
<1>4. UNCHANGED <<owner, count, parents, calls>>
  BY DEF QueueTimeout
<1>5. TypeOK'
  <2>1. [outcome |-> "not_submitted", writes |-> 0] \in [outcome : Outcomes, writes : Nat]
    BY DEF Outcomes
  <2> QED  BY <1>3, <1>4, <2>1 DEF QueueTimeout, FenceInv, TypeOK
<1>6. \A s \in Threads, d \in Clients : Held(s, d)' = Held(s, d)
  <2>1. \A d \in Clients : Held(t, d) = 0 /\ Held(t, d)' = 0
    BY <1>1, <1>2, <1>3 DEF Held
  <2> QED  BY <1>3, <2>1, OthersHold
<1>7. LockInv'
  BY <1>4, <1>6 DEF FenceInv, LockInv
<1> QED  BY <1>3, <1>5, <1>7

\* A call that returns gives up what it acquired.
LEMMA ExitKeeps ==
  ASSUME FenceInv, NEW t \in Threads, Exit(t)
  PROVE  /\ TypeOK' /\ NestingInv' /\ LockInv'
         /\ \A s \in Threads : s # t => stack'[s] = stack[s]
         /\ stack'[t] # <<>> => Top(t)'.pc = "exit"
<1>1. Busy(t) /\ Top(t).pc = "exit"
  BY DEF Exit, At
<1>2. /\ StackOK(stack[t]) /\ stack[t] # <<>>
      /\ Len(stack[t]) \in {1, 2}
      /\ Top(t) \in Frames
  BY <1>1, TopFrame
<1> PICK c \in Clients : c = Top(t).client
  BY <1>2 DEF Frames
<1>3. /\ count' = [count EXCEPT ![c] = count[c] - 1]
      /\ owner' = [owner EXCEPT ![c] = IF count[c] = 1 THEN NoThread ELSE t]
      /\ stack' = [stack EXCEPT ![t] = Pop(t)]
      /\ reports' = ReportsAfter(Top(t))
      /\ UNCHANGED <<parents, calls>>
  BY DEF Exit
<1>4. /\ stack' \in [Threads -> Seq(Frames)] /\ NestingInv'
      /\ \A s \in Threads : s # t => stack'[s] = stack[s]
      /\ Len(stack[t]) = 1 => stack'[t] = <<>>
      /\ Len(stack[t]) = 2 => /\ stack'[t] # <<>>
                              /\ Len(stack'[t]) = 1
                              /\ Top(t)' = stack[t][1]
  BY <1>1, <1>3, PopChanges
<1>5. Len(stack[t]) = 2 => stack[t][1].pc = "exit" /\ stack[t][1].client = c
  BY <1>2 DEF StackOK, Top
<1>6. /\ owner \in [Clients -> Threads \union {NoThread}]
      /\ count \in [Clients -> Nat]
  BY DEF FenceInv, TypeOK
<1>7. /\ \A s \in Threads, d \in Clients : Held(s, d) = IF owner[d] = s THEN count[d] ELSE 0
      /\ \A d \in Clients : owner[d] = NoThread <=> count[d] = 0
  BY DEF FenceInv, LockInv
<1>8. /\ Held(t, c) = Len(stack[t])
      /\ \A d \in Clients : d # c => Held(t, d) = 0
  BY <1>1, <1>2 DEF Held
<1>9. owner[c] = t /\ count[c] = Len(stack[t])
  BY <1>2, <1>7, <1>8
<1>10. /\ owner'[c] = IF Len(stack[t]) = 1 THEN NoThread ELSE t
       /\ count'[c] = Len(stack[t]) - 1
       /\ \A d \in Clients : d # c => owner'[d] = owner[d] /\ count'[d] = count[d]
  BY <1>3, <1>6, <1>9
<1>11. /\ Held(t, c)' = Len(stack[t]) - 1
       /\ \A d \in Clients : d # c => Held(t, d)' = 0
  <2>1. CASE Len(stack[t]) = 1
    BY <1>4, <2>1 DEF Held
  <2>2. CASE Len(stack[t]) = 2
    BY <1>4, <1>5, <2>2 DEF Held
  <2> QED  BY <1>2, <2>1, <2>2
<1>12. TypeOK'
  <2>1. count' \in [Clients -> Nat]
    <3>1. count[c] - 1 \in Nat
      BY <1>2, <1>9
    <3> QED  BY <1>3, <1>6, <3>1
  <2>2. owner' \in [Clients -> Threads \union {NoThread}]
    BY <1>3, <1>6
  <2>3. reports' \subseteq [outcome : Outcomes, writes : Nat]
    <3>1. Outcome(Top(t)) \in Outcomes
      BY DEF Outcome, Outcomes
    <3>2. Top(t).writes \in Nat
      BY <1>2 DEF Frames
    <3> QED  BY <1>3, <3>1, <3>2 DEF ReportsAfter, FenceInv, TypeOK
  <2> QED  BY <1>3, <1>4, <2>1, <2>2, <2>3 DEF FenceInv, TypeOK
<1>13. ASSUME NEW s \in Threads, NEW d \in Clients
       PROVE  Held(s, d)' = IF owner'[d] = s THEN count'[d] ELSE 0
  <2>1. CASE s = t /\ d = c
    <3>1. CASE Len(stack[t]) = 1
      BY <1>10, <1>11, <2>1, <3>1, WriteFenceAssumption
    <3>2. CASE Len(stack[t]) = 2
      BY <1>10, <1>11, <2>1, <3>2
    <3> QED  BY <1>2, <3>1, <3>2
  <2>2. CASE s = t /\ d # c
    BY <1>7, <1>8, <1>10, <1>11, <2>2
  <2>3. CASE s # t
    <3>1. Held(s, d)' = Held(s, d)
      BY <1>4, <2>3, OthersHold
    <3>2. CASE d = c
      BY <1>7, <1>9, <1>10, <2>3, <3>1, <3>2, WriteFenceAssumption
    <3>3. CASE d # c
      BY <1>7, <1>10, <3>1, <3>3
    <3> QED  BY <3>2, <3>3
  <2> QED  BY <2>1, <2>2, <2>3
<1>14. \A d \in Clients : owner'[d] = NoThread <=> count'[d] = 0
  <2>1. owner'[c] = NoThread <=> count'[c] = 0
    BY <1>2, <1>10, WriteFenceAssumption
  <2> QED  BY <1>7, <1>10, <2>1
<1>15. LockInv'
  BY <1>13, <1>14 DEF LockInv
<1>16. stack'[t] # <<>> => Top(t)'.pc = "exit"
  BY <1>2, <1>4, <1>5
<1> QED  BY <1>4, <1>12, <1>15, <1>16

-----------------------------------------------------------------------------
(* The invariant holds *)

LinearInv == FenceInv /\ FreshInv /\ ConversationIsLinear

LEMMA LinearInit == Init => LinearInv
<1> SUFFICES ASSUME Init
             PROVE  LinearInv
  OBVIOUS
<1> USE DEF Init
<1>1. TypeOK
  <2>1. <<>> \in Seq(Frames) /\ <<0>> \in Seq(Nat)
    OBVIOUS
  <2>2. 0 \in 0 .. MaxCalls
    BY WriteFenceAssumption
  <2> QED  BY <2>1, <2>2 DEF TypeOK
<1>2. NestingInv
  BY NoCalls DEF NestingInv
<1>3. LockInv
  BY WriteFenceAssumption DEF LockInv, Held
<1>4. FreshInv
  BY DEF FreshInv, Busy
<1>5. ConversationIsLinear
  BY DEF ConversationIsLinear
<1> QED  BY <1>1, <1>2, <1>3, <1>4, <1>5 DEF LinearInv, FenceInv

\* Nobody's parent grows stale as long as nobody writes.
LEMMA FreshKept ==
  ASSUME FreshInv, NEW t \in Threads, UNCHANGED parents,
         \A s \in Threads : s # t => stack'[s] = stack[s],
         stack'[t] # <<>> => Fresh(Top(t))'
  PROVE  FreshInv'
<1> SUFFICES ASSUME NEW s \in Threads, Busy(s)'
             PROVE  Fresh(Top(s))'
  BY DEF FreshInv
<1>1. CASE s = t
  BY <1>1 DEF Busy
<1>2. CASE s # t
  <2>1. stack'[s] = stack[s]
    BY <1>2
  <2>2. Busy(s) /\ Top(s)' = Top(s)
    BY <2>1 DEF Busy, Top
  <2> QED  BY <2>1, <2>2 DEF FreshInv, Fresh, Current, Top
<1> QED  BY <1>1, <1>2

\* A call under the lock has it alone.
LEMMA LockExcludes ==
  ASSUME FenceInv, NEW t \in Threads, NEW s \in Threads, s # t, Busy(t), Busy(s),
         Top(t).pc # "lock", Top(s).pc # "lock"
  PROVE  Top(s).client # Top(t).client
<1> SUFFICES ASSUME Top(s).client = Top(t).client
             PROVE  FALSE
  OBVIOUS
<1>1. Top(t) \in Frames /\ Len(stack[t]) \in {1, 2} /\ Len(stack[s]) \in {1, 2}
  BY TopFrame
<1> PICK c \in Clients : c = Top(t).client
  BY <1>1 DEF Frames
<1>2. Held(t, c) # 0 /\ Held(s, c) # 0
  BY <1>1 DEF Held, Busy
<1>3. owner[c] = t /\ owner[c] = s
  BY <1>2 DEF FenceInv, LockInv
<1> QED  BY <1>3

\* The write answers the current message, and nobody else was about to answer it.
LEMMA WriteKeeps ==
  ASSUME LinearInv, NEW t \in Threads, Write(t)
  PROVE  LinearInv'
<1>1. FenceInv /\ FreshInv /\ ConversationIsLinear /\ TypeOK
  BY DEF LinearInv, FenceInv
<1>2. PICK f \in Frames : Proceeds(t, f) /\ f.pc = "stream"
  BY <1>1, WriteSteps
<1>3. /\ NestingInv' /\ LockInv'
      /\ stack' \in [Threads -> Seq(Frames)]
      /\ \A s \in Threads : s # t => stack'[s] = stack[s]
      /\ stack'[t][Len(stack'[t])] = f
  BY <1>1, <1>2, ProceedsKeepsLock
<1>4. Busy(t) /\ Top(t).pc = "prepare"
  BY DEF Write, At
<1>5. Top(t) \in Frames /\ Fresh(Top(t))
  BY <1>1, <1>4, TopFrame DEF FreshInv
<1> PICK c \in Clients : c = Top(t).client
  BY <1>5 DEF Frames
<1>6. parents[c] \in Seq(Nat) /\ Current(c) = Len(parents[c]) /\ Len(parents[c]) \in Nat
  <2>1. parents[c] \in Seq(Nat)
    BY <1>1 DEF TypeOK
  <2> QED  BY <2>1, LenProperties DEF Current
<1>7. \/ UNCHANGED parents
      \/ parents' = [parents EXCEPT ![c] = Append(parents[c], Len(parents[c]))]
  <2>1. CASE UNCHANGED parents
    BY <2>1
  <2>2. CASE /\ Top(t).parent # NewChat
             /\ parents' = [parents EXCEPT ![c] = Append(@, Top(t).parent)]
    <3>1. Top(t).parent = Len(parents[c])
      BY <1>4, <1>5, <1>6, <2>2 DEF Fresh
    <3> QED  BY <2>2, <3>1
  <2> QED  BY <2>1, <2>2 DEF Write
<1>8. /\ Append(parents[c], Len(parents[c])) \in Seq(Nat)
      /\ Len(Append(parents[c], Len(parents[c]))) = Len(parents[c]) + 1
      /\ \A i \in 1 .. Len(parents[c]) :
           Append(parents[c], Len(parents[c]))[i] = parents[c][i]
      /\ Append(parents[c], Len(parents[c]))[Len(parents[c]) + 1] = Len(parents[c])
  BY <1>6, AppendProperties
<1>9. /\ parents' \in [Clients -> Seq(Nat)]
      /\ \A d \in Clients : d # c => parents'[d] = parents[d]
  <2>1. parents \in [Clients -> Seq(Nat)]
    BY <1>1 DEF TypeOK
  <2> DEFINE longer == Append(parents[c], Len(parents[c]))
  <2>2. longer \in Seq(Nat)
    BY <1>8
  <2> HIDE DEF longer
  <2>3. UNCHANGED parents \/ parents' = [parents EXCEPT ![c] = longer]
    BY <1>7 DEF longer
  <2> QED  BY <2>1, <2>2, <2>3
<1>10. TypeOK'
  BY <1>1, <1>2, <1>3, <1>9 DEF Proceeds, TypeOK
<1>11. ConversationIsLinear'
  <2> SUFFICES ASSUME NEW d \in Clients, NEW i \in DOMAIN parents'[d]
               PROVE  parents'[d][i] = i - 1
    BY DEF ConversationIsLinear
  <2>1. CASE parents'[d] = parents[d]
    BY <1>1, <2>1 DEF ConversationIsLinear
  <2>2. CASE parents'[d] # parents[d]
    <3>1. d = c /\ parents'[d] = Append(parents[c], Len(parents[c]))
      BY <1>1, <1>7, <1>9, <2>2 DEF TypeOK
    <3> DEFINE new == Append(parents[c], Len(parents[c]))
               n == Len(parents[c])
    <3>2. /\ n \in Nat /\ new \in Seq(Nat) /\ Len(new) = n + 1
          /\ \A j \in 1 .. n : new[j] = parents[c][j]
          /\ new[n + 1] = n
      BY <1>6, <1>8
    <3> HIDE DEF new
    <3>3. i \in 1 .. n + 1
      BY <3>1, <3>2, LenProperties DEF new
    <3>4. \A j \in 1 .. n : parents[c][j] = j - 1
      BY <1>1, <1>6, LenProperties DEF ConversationIsLinear
    <3>5. parents'[d] = new
      BY <3>1 DEF new
    <3> HIDE DEF n
    <3> QED  BY <3>2, <3>3, <3>4, <3>5
  <2> QED  BY <2>1, <2>2
<1>12. FreshInv'
  <2> SUFFICES ASSUME NEW s \in Threads, Busy(s)'
               PROVE  Fresh(Top(s))'
    BY DEF FreshInv
  <2>1. CASE s = t
    BY <1>2, <1>3, <2>1 DEF Fresh, Top
  <2>2. CASE s # t
    <3>1. stack'[s] = stack[s] /\ Top(s)' = Top(s) /\ Busy(s)
      BY <1>3, <2>2 DEF Top, Busy
    <3>2. Fresh(Top(s)) /\ Top(s) \in Frames
      BY <1>1, <3>1, TopFrame DEF FreshInv
    <3>3. CASE Top(s).pc \in {"prepare", "decorator"}
      <4>1. Top(s).client # c
        BY <1>1, <1>4, <2>2, <3>1, <3>3, LockExcludes
      <4>2. Current(Top(s).client)' = Current(Top(s).client)
        BY <1>9, <3>1, <3>2, <4>1 DEF Current, Frames
      <4> QED  BY <3>1, <3>2, <4>2 DEF Fresh
    <3>4. CASE Top(s).pc \notin {"prepare", "decorator"}
      BY <3>1, <3>4 DEF Fresh
    <3> QED  BY <3>3, <3>4
  <2> QED  BY <2>1, <2>2
<1> QED  BY <1>3, <1>10, <1>11, <1>12 DEF LinearInv, FenceInv

\* Any step that leaves the conversations alone keeps them linear.
LEMMA NoWriteKeeps ==
  ASSUME LinearInv, FenceInv', FreshInv', UNCHANGED parents
  PROVE  LinearInv'
BY DEF LinearInv, ConversationIsLinear

LEMMA StepKeeps ==
  ASSUME LinearInv, NEW t \in Threads, Begin(t) \/ Step(t) \/ Callback(t)
  PROVE  LinearInv'
<1>1. FenceInv /\ FreshInv /\ TypeOK
  BY DEF LinearInv, FenceInv
<1>2. CASE Begin(t)
  <2>1. PICK c \in Clients, surface \in Surfaces : \E parent \in Known(c) :
          Call(t, c, surface, parent)
    BY <1>2 DEF Begin
  <2>2. PICK parent \in Known(c) : Call(t, c, surface, parent)
    BY <2>1
  <2>3. /\ FenceInv'
        /\ \A s \in Threads : s # t => stack'[s] = stack[s]
        /\ stack'[t][Len(stack'[t])].pc = "lock"
    BY <1>1, <2>2, CallKeeps DEF FenceInv
  <2>4. UNCHANGED parents /\ Fresh(Top(t))'
    BY <2>2, <2>3 DEF Call, Fresh, Top
  <2>5. FreshInv'
    BY <1>1, <2>3, <2>4, FreshKept
  <2> QED  BY <2>3, <2>4, <2>5, NoWriteKeeps
<1>3. CASE Delegate(t)
  <2>1. /\ FenceInv'
        /\ \A s \in Threads : s # t => stack'[s] = stack[s]
        /\ stack'[t][Len(stack'[t])].pc = "lock"
    BY <1>1, <1>3, DelegateKeeps DEF FenceInv
  <2>2. UNCHANGED parents /\ Fresh(Top(t))'
    BY <1>3, <2>1 DEF Delegate, Fresh, Top
  <2>3. FreshInv'
    BY <1>1, <2>1, <2>2, FreshKept
  <2> QED  BY <2>1, <2>2, <2>3, NoWriteKeeps
<1>4. CASE Acquire(t)
  <2>1. /\ FenceInv'
        /\ \A s \in Threads : s # t => stack'[s] = stack[s]
        /\ stack'[t][Len(stack'[t])].pc = "refresh"
    BY <1>1, <1>4, AcquireKeeps DEF FenceInv
  <2>2. UNCHANGED parents /\ Fresh(Top(t))'
    BY <1>4, <2>1 DEF Acquire, Fresh, Top
  <2>3. FreshInv'
    BY <1>1, <2>1, <2>2, FreshKept
  <2> QED  BY <2>1, <2>2, <2>3, NoWriteKeeps
<1>5. CASE QueueTimeout(t)
  <2>1. /\ FenceInv'
        /\ \A s \in Threads : s # t => stack'[s] = stack[s]
        /\ stack'[t] = <<>>
    BY <1>1, <1>5, QueueTimeoutKeeps DEF FenceInv
  <2>2. UNCHANGED parents
    BY <1>5 DEF QueueTimeout
  <2>3. FreshInv'
    BY <1>1, <2>1, <2>2, FreshKept
  <2> QED  BY <2>1, <2>2, <2>3, NoWriteKeeps
<1>6. CASE Exit(t)
  <2>1. /\ FenceInv'
        /\ \A s \in Threads : s # t => stack'[s] = stack[s]
        /\ stack'[t] # <<>> => Top(t)'.pc = "exit"
    BY <1>1, <1>6, ExitKeeps DEF FenceInv
  <2>2. UNCHANGED parents
    BY <1>6 DEF Exit
  <2>3. stack'[t] # <<>> => Fresh(Top(t))'
    BY <2>1 DEF Fresh
  <2>4. FreshInv'
    BY <1>1, <2>1, <2>2, <2>3, FreshKept
  <2> QED  BY <2>1, <2>2, <2>4, NoWriteKeeps
<1>7. CASE Write(t)
  BY <1>7, WriteKeeps
<1>8. CASE Quiet(t)
  <2>1. PICK f \in Frames : Proceeds(t, f) /\ Fresh(f) /\ UNCHANGED parents
    BY <1>1, <1>8, QuietSteps
  <2>2. /\ NestingInv' /\ LockInv'
        /\ stack' \in [Threads -> Seq(Frames)]
        /\ \A s \in Threads : s # t => stack'[s] = stack[s]
        /\ stack'[t][Len(stack'[t])] = f
    BY <1>1, <2>1, ProceedsKeepsLock
  <2>3. FenceInv'
    BY <1>1, <2>1, <2>2 DEF Proceeds, FenceInv, TypeOK
  <2>4. Fresh(Top(t))'
    BY <2>1, <2>2 DEF Fresh, Top, Current
  <2>5. FreshInv'
    BY <1>1, <2>1, <2>2, <2>4, FreshKept
  <2> QED  BY <2>1, <2>3, <2>5, NoWriteKeeps
<1> QED  BY <1>2, <1>3, <1>4, <1>5, <1>6, <1>7, <1>8 DEF Step, Quiet

LEMMA LinearStep == LinearInv /\ [Next]_vars => LinearInv'
<1> SUFFICES ASSUME LinearInv, [Next]_vars
             PROVE  LinearInv'
  OBVIOUS
<1>1. CASE \E t \in Threads : Begin(t) \/ Step(t) \/ Callback(t)
  BY <1>1, StepKeeps
<1>2. CASE UNCHANGED vars
  BY <1>2 DEF vars, LinearInv, FenceInv, TypeOK, NestingInv, LockInv, FreshInv, Fresh,
       ConversationIsLinear, Held, Top, Busy, Current
<1> QED  BY <1>1, <1>2 DEF Next, AllDone

LEMMA LinearAlways == Spec => []LinearInv
BY LinearInit, LinearStep, PTL DEF Spec

-----------------------------------------------------------------------------
(* What follows *)

\* The state of the fence is of its types, with any number of threads and clients.
THEOREM TypeCorrect == Spec => []TypeOK
<1>1. LinearInv => TypeOK
  BY DEF LinearInv, FenceInv
<1> QED  BY <1>1, LinearAlways, PTL

\* No conversation ever branches, however the calls interleave
\* (_refresh_mutation_call under the client's lock).
THEOREM ConversationIsLinearHolds == Spec => []ConversationIsLinear
<1>1. LinearInv => ConversationIsLinear
  BY DEF LinearInv
<1> QED  BY <1>1, LinearAlways, PTL

\* A thread that waits for a client's lock holds no other one (_fence_callable).
THEOREM NoHoldAndWaitHolds == Spec => []NoHoldAndWait
<1>1. LinearInv => NoHoldAndWait
  <2> SUFFICES ASSUME LinearInv, NEW t \in Threads, At(t, "lock"),
                      NEW c \in Clients, owner[c] = t
               PROVE  c = Top(t).client
    BY DEF NoHoldAndWait
  <2>1. Held(t, c) = count[c] /\ count[c] # 0
    BY WriteFenceAssumption DEF LinearInv, FenceInv, LockInv
  <2> QED  BY <2>1 DEF Held
<1> QED  BY <1>1, LinearAlways, PTL

\* A client's lock is held once for each call past it, by their thread alone
\* (the RLock of _client_write_lock under _fence_callable).
THEOREM LockMatchesCallsHolds == Spec => []LockMatchesCalls
<1>1. LinearInv => LockMatchesCalls
  <2> SUFFICES ASSUME LinearInv, NEW t \in Threads, NEW c \in Clients
               PROVE  Cardinality(Past(t, c)) = IF owner[c] = t THEN count[c] ELSE 0
    BY DEF LockMatchesCalls
  <2>1. FenceInv /\ Held(t, c) = IF owner[c] = t THEN count[c] ELSE 0
    BY DEF LinearInv, FenceInv, LockInv
  <2>2. stack[t] \in Seq(Frames) /\ DOMAIN stack[t] = 1 .. Len(stack[t])
    <3>1. stack[t] \in Seq(Frames)
      BY <2>1 DEF FenceInv, TypeOK
    <3> QED  BY <3>1, LenProperties
  <2>3. Cardinality({}) = 0
    BY FS_EmptySet
  <2>4. \A i : Cardinality({i}) = 1
    BY FS_Singleton
  <2>5. Cardinality({1, 2}) = 2
    <3>1. IsFiniteSet({1}) /\ Cardinality({1}) = 1
      BY FS_Singleton
    <3>2. Cardinality({1} \union {2}) = Cardinality({1}) + 1
      BY <3>1, FS_AddElement
    <3>3. {1} \union {2} = {1, 2}
      OBVIOUS
    <3> QED  BY <3>1, <3>2, <3>3
  <2>6. CASE stack[t] = <<>>
    <3>1. Past(t, c) = {}
      BY <2>2, <2>6, EmptySeq DEF Past
    <3>2. Held(t, c) = 0
      BY <2>6 DEF Held
    <3> QED  BY <2>1, <2>3, <3>1, <3>2
  <2>7. CASE Busy(t) /\ Len(stack[t]) = 1
    <3>1. CASE Top(t).client = c /\ Top(t).pc # "lock"
      <4>1. Past(t, c) = {1}
        BY <2>2, <2>7, <3>1 DEF Past, Top
      <4>2. Held(t, c) = 1
        BY <2>7, <3>1 DEF Held, Busy
      <4> QED  BY <2>1, <2>4, <4>1, <4>2
    <3>2. CASE ~(Top(t).client = c /\ Top(t).pc # "lock")
      <4>1. Past(t, c) = {}
        BY <2>2, <2>7, <3>2 DEF Past, Top
      <4>2. Held(t, c) = 0
        BY <2>7, <3>2 DEF Held, Busy
      <4> QED  BY <2>1, <2>3, <4>1, <4>2
    <3> QED  BY <3>1, <3>2
  <2>8. CASE Busy(t) /\ Len(stack[t]) = 2
    <3>1. stack[t][1].pc = "exit" /\ stack[t][1].client = Top(t).client
      BY <2>1, <2>8, TopFrame DEF StackOK, Top
    <3>2. DOMAIN stack[t] = {1, 2} /\ Top(t) = stack[t][2]
      BY <2>2, <2>8 DEF Top
    <3>3. CASE Top(t).client # c
      <4>1. Past(t, c) = {}
        BY <3>1, <3>2, <3>3 DEF Past
      <4>2. Held(t, c) = 0
        BY <3>3 DEF Held
      <4> QED  BY <2>1, <2>3, <4>1, <4>2
    <3>4. CASE Top(t).client = c /\ Top(t).pc = "lock"
      <4>1. Past(t, c) = {1}
        BY <3>1, <3>2, <3>4 DEF Past
      <4>2. Held(t, c) = 1
        BY <2>8, <3>4 DEF Held, Busy
      <4> QED  BY <2>1, <2>4, <4>1, <4>2
    <3>5. CASE Top(t).client = c /\ Top(t).pc # "lock"
      <4>1. Past(t, c) = {1, 2}
        BY <3>1, <3>2, <3>5 DEF Past
      <4>2. Held(t, c) = 2
        BY <2>8, <3>5 DEF Held, Busy
      <4> QED  BY <2>1, <2>5, <4>1, <4>2
    <3> QED  BY <3>3, <3>4, <3>5
  <2> QED  BY <2>1, <2>6, <2>7, <2>8, TopFrame DEF Busy
<1> QED  BY <1>1, LinearAlways, PTL

\* A decorator's call writes at most once (_consume_allowed_fence_predecessor).
THEOREM OneWritePerCallHolds == Spec => []OneWritePerCall
<1>1. LinearInv => OneWritePerCall
  <2> SUFFICES ASSUME LinearInv, NEW t \in Threads, NEW i \in DOMAIN stack[t]
               PROVE  stack[t][i].writes <= 1
    BY DEF OneWritePerCall
  <2>1. StackOK(stack[t])
    BY DEF LinearInv, FenceInv, NestingInv
  <2>2. i \in 1 .. Len(stack[t])
    BY <2>1, LenProperties DEF StackOK
  <2> QED  BY <2>1, <2>2 DEF StackOK, FrameOK
<1> QED  BY <1>1, LinearAlways, PTL
=============================================================================
