------------------------ MODULE BrowserlessTurnProofs -----------------------
(***************************************************************************)
(* Proofs about BrowserlessTurn: its types, that what the caller is told   *)
(* of the write is true and keeps the contract of a turn, that a turn is   *)
(* answered with a complete message that belongs to it if the stream has   *)
(* named it, and that the dispatchers on the client are put back, for      *)
(* every set of turns and any number of messages of others.                *)
(***************************************************************************)
EXTENDS BrowserlessTurn, SequenceTheorems, TLAPS

\* The steps one turn takes, or time takes for it.
OwnStep(t) == Start(t) \/ Expire(t) \/ Step(t)

LEMMA NextIsStep ==
  ASSUME [Next]_vars
  PROVE  (\E t \in Turns : OwnStep(t)) \/ Server \/ CallerPatches \/ UNCHANGED vars
BY DEF Next, OwnStep, Environment, AllEnded

-----------------------------------------------------------------------------
(* The conversations: exchanges are added and completed, never changed *)

TreeTyped == tree \in [Conversations -> Seq(Exchanges)]

TreeKept ==
  \A c \in Conversations :
    /\ Len(tree[c]) <= Len(tree'[c])
    /\ \A i \in 1 .. Len(tree[c]) :
         /\ tree'[c][i].author = tree[c][i].author
         /\ tree[c][i].done => tree'[c][i].done

LEMMA AddedExchange ==
  ASSUME TreeTyped, NEW c \in Conversations, NEW e \in Exchanges,
         tree' = [tree EXCEPT ![c] = Append(@, e)]
  PROVE  /\ TreeTyped' /\ TreeKept
         /\ Len(tree'[c]) = Len(tree[c]) + 1
         /\ tree'[c][Len(tree'[c])] = e
<1>1. tree[c] \in Seq(Exchanges)
  BY DEF TreeTyped
<1>2. /\ Append(tree[c], e) \in Seq(Exchanges)
      /\ Len(Append(tree[c], e)) = Len(tree[c]) + 1
      /\ \A i \in 1 .. Len(tree[c]) : Append(tree[c], e)[i] = tree[c][i]
      /\ Append(tree[c], e)[Len(tree[c]) + 1] = e
  BY <1>1, AppendProperties
<1>3. \A d \in Conversations : Len(tree[d]) \in Nat
  BY LenProperties DEF TreeTyped
<1>4. \A d \in Conversations : tree'[d] = IF d = c THEN Append(tree[c], e) ELSE tree[d]
  BY DEF TreeTyped
<1>5. TreeTyped'
  BY <1>2 DEF TreeTyped
<1>6. TreeKept
  BY <1>2, <1>3, <1>4 DEF TreeKept
<1> QED  BY <1>2, <1>4, <1>5, <1>6

LEMMA CompletedExchange ==
  ASSUME TreeTyped, NEW c \in Conversations, NEW i \in 1 .. Size(c), Complete(c, i)
  PROVE  TreeTyped' /\ TreeKept
<1> DEFINE e == [tree[c][i] EXCEPT !.done = TRUE]
           new == [tree[c] EXCEPT ![i] = e]
<1>1. tree[c] \in Seq(Exchanges) /\ i \in 1 .. Len(tree[c]) /\ tree[c][i] \in Exchanges
  BY ElementOfSeq DEF TreeTyped, Size
<1>2. /\ e \in Exchanges /\ e.author = tree[c][i].author /\ e.done
  BY <1>1 DEF Exchanges
<1>3. /\ new \in Seq(Exchanges) /\ Len(new) = Len(tree[c])
      /\ \A j \in 1 .. Len(tree[c]) : new[j] = IF j = i THEN e ELSE tree[c][j]
  BY <1>1, <1>2, ExceptSeq
<1>4. tree' = [tree EXCEPT ![c] = new]
  BY DEF Complete
<1> HIDE DEF e, new
<1>5. TreeTyped'
  BY <1>3, <1>4 DEF TreeTyped
<1>6. \A d \in Conversations : tree'[d] = IF d = c THEN new ELSE tree[d]
  BY <1>4 DEF TreeTyped
<1>7. \A d \in Conversations : Len(tree[d]) \in Nat
  BY LenProperties DEF TreeTyped
<1>8. TreeKept
  BY <1>2, <1>3, <1>6, <1>7 DEF TreeKept
<1> QED  BY <1>5, <1>8

LEMMA SharedIsConversation ==
  /\ Shared \in Conversations
  /\ \A t \in Turns : Conversation(t) \in Conversations
BY DEF Conversations, Conversation

LEMMA ServerKeepsTree ==
  ASSUME TypeOK, Server
  PROVE  TreeTyped' /\ TreeKept
<1> USE SharedIsConversation
<1>1. TreeTyped
  BY DEF TypeOK, TreeTyped
<1>2. TreeKept \/ tree' # tree
  <2>1. \A d \in Conversations : Len(tree[d]) \in Nat
    BY <1>1, LenProperties DEF TreeTyped
  <2> QED  BY <2>1 DEF TreeKept
<1>3. ASSUME NEW t \in Turns, Accept(t) PROVE TreeTyped' /\ TreeKept
  <2>1. [parent |-> turn[t].parent, author |-> t, done |-> FALSE] \in Exchanges
    BY DEF TypeOK, TurnStates, Exchanges
  <2> QED  BY <1>1, <1>3, <2>1, AddedExchange DEF Accept
<1>4. ASSUME NEW t \in Turns, Lose(t) PROVE TreeTyped' /\ TreeKept
  BY <1>1, <1>2, <1>4 DEF Lose, TreeTyped
<1>5. ASSUME NEW c \in Conversations, NEW i \in 1 .. Size(c), Complete(c, i)
      PROVE  TreeTyped' /\ TreeKept
  BY <1>1, <1>5, CompletedExchange
<1>6. ASSUME OtherWrites PROVE TreeTyped' /\ TreeKept
  <2>1. Size(Shared) \in Nat
    BY <1>1, LenProperties DEF TreeTyped, Size
  <2>2. [parent |-> Size(Shared), author |-> Other, done |-> FALSE] \in Exchanges
    BY <2>1 DEF Exchanges
  <2> QED  BY <1>1, <1>6, <2>2, AddedExchange DEF OtherWrites
<1> QED  BY <1>3, <1>4, <1>5, <1>6 DEF Server

-----------------------------------------------------------------------------
(* Types *)

LEMMA TypeCorrectInit == ASSUME Init PROVE TypeOK
<1>1. <<[parent |-> 0, author |-> Other, done |-> TRUE]>> \in Seq(Exchanges) /\ <<>> \in Seq(Exchanges)
  BY DEF Exchanges
<1>2. tree \in [Conversations -> Seq(Exchanges)]
  BY <1>1 DEF Init
<1>3. Fresh \in TurnStates
  BY DEF Fresh, TurnStates, PCs, NoError, Errors, Stages, Reports
<1>4. turn \in [Turns -> TurnStates]
  BY <1>3 DEF Init
<1>5. saved \in [Turns -> [scope : Dispatchers, bind : Dispatchers]] /\ builder \in Dispatchers
  BY DEF Init, Dispatchers
<1> QED  BY <1>2, <1>4, <1>5 DEF Init, TypeOK

\* The errors a turn may end with.
LEMMA ErrorTypes ==
  /\ NoError \in Errors /\ OtherError \in Errors /\ RawError \in Errors
  /\ \A b \in BOOLEAN : TransportError(b) \in Errors
  /\ \A s \in Stages : RequestError(s) \in Errors
BY DEF Errors, NoError, OtherError, RawError, TransportError, RequestError, Stages

\* What a step of a turn makes of its state.
LEMMA TurnTyped ==
  ASSUME TypeOK, NEW t \in Turns, NEW s \in TurnStates, Become(t, s)
  PROVE  turn' \in [Turns -> TurnStates]
BY DEF TypeOK, Become

LEMMA PlaceTyped ==
  ASSUME TypeOK, NEW t \in Turns, NEW p \in PCs, Goto(t, p)
  PROVE  turn' \in [Turns -> TurnStates]
<1>1. [turn[t] EXCEPT !.pc = p] \in TurnStates
  BY DEF TypeOK, TurnStates
<1>2. turn' = [turn EXCEPT ![t] = [turn[t] EXCEPT !.pc = p]]
  BY DEF TypeOK, Goto
<1> QED  BY <1>1, <1>2 DEF TypeOK

LEMMA ErrorTyped ==
  ASSUME TypeOK, NEW t \in Turns, NEW e \in Errors, NEW p \in PCs, Raise(t, e, p)
  PROVE  turn' \in [Turns -> TurnStates]
<1>1. [turn[t] EXCEPT !.error = e, !.pc = p] \in TurnStates
  BY DEF TypeOK, TurnStates
<1> QED  BY <1>1, TurnTyped DEF Raise

\* The snapshots of a conversation and the latest message they show.
LEMMA SnapshotFacts ==
  ASSUME TypeOK, NEW c \in Conversations
  PROVE  /\ Size(c) \in Nat
         /\ Snapshots(c) \subseteq Nat
         /\ \A i \in Snapshots(c) : LatestAssistant(c, i) \subseteq Nat
<1>1. tree[c] \in Seq(Exchanges)
  BY DEF TypeOK
<1>2. Size(c) \in Nat
  BY <1>1, LenProperties DEF Size
<1>3. ASSUME NEW i \in Snapshots(c) PROVE i \in Nat /\ LatestAssistant(c, i) \subseteq Nat
  <2>1. i \in 0 .. Size(c)
    BY <1>3 DEF Snapshots
  <2>2. CASE i = 0
    BY <2>2 DEF LatestAssistant
  <2>3. CASE i # 0
    <3>1. tree[c][i] \in Exchanges
      BY <1>1, <1>2, <2>1, <2>3, ElementOfSeq DEF Size
    <3> QED  BY <1>2, <2>1, <2>3, <3>1 DEF LatestAssistant, Exchanges
  <2> QED  BY <1>2, <2>1, <2>2, <2>3
<1> QED  BY <1>2, <1>3

\* What is left of a call that has ended.
LEMMA EndedTyped ==
  ASSUME NEW t \in Turns, turn[t] \in TurnStates
  PROVE  Ended(t) \in TurnStates
<1> DEFINE r == Report(t)
           b == turn[t].streamed /\ turn[t].answer # 0
<1>1. r \in Reports /\ b \in BOOLEAN
  BY DEF Report, Reports
<1>2. turn[t].parent \in Nat /\ turn[t].answer \in Nat
  BY DEF TurnStates
<1>3. Fresh \in TurnStates
  BY ErrorTypes DEF Fresh, TurnStates, PCs, Reports
<1> HIDE DEF r, b
<1>4. [Fresh EXCEPT !.pc = "end", !.report = r, !.parent = turn[t].parent,
                    !.answer = turn[t].answer, !.streamed = b] \in TurnStates
  BY <1>1, <1>2, <1>3 DEF TurnStates, PCs
<1> QED  BY <1>4 DEF Ended, r, b

\* Every step of a turn leaves its state well typed.
LEMMA TurnStepTyped ==
  ASSUME TypeOK, NEW t \in Turns, OwnStep(t),
         turn[t].pc = "stream" /\ wire[t] = "accepted" => Own(t) \in Nat
  PROVE  turn' \in [Turns -> TurnStates]
<1> DEFINE Goal == turn' \in [Turns -> TurnStates]
<1> USE ErrorTypes DEF PCs
<1>0. /\ turn[t] \in TurnStates
      /\ Snapshots(Conversation(t)) \subseteq Nat
      /\ \A i \in Snapshots(Conversation(t)) : LatestAssistant(Conversation(t), i) \subseteq Nat
  BY SharedIsConversation, SnapshotFacts DEF TypeOK
<1>1. CASE Start(t)
  BY <1>1, PlaceTyped DEF Start
<1>2. CASE SentinelPrepare(t)
  BY <1>2, PlaceTyped DEF SentinelPrepare
<1>3. CASE SentinelFinalize(t)
  BY <1>3, PlaceTyped DEF SentinelFinalize
<1>4. CASE Prepare(t)
  BY <1>4, PlaceTyped DEF Prepare
<1>5. CASE SkipRecovery(t)
  BY <1>5, PlaceTyped DEF SkipRecovery
<1>6. CASE RecoverFails(t)
  BY <1>6, PlaceTyped DEF RecoverFails
<1>7. CASE PollGivesUp(t)
  BY <1>7, PlaceTyped DEF PollGivesUp
<1>8. CASE ReadStatus(t)
  BY <1>8, PlaceTyped DEF ReadStatus
<1>9. CASE Acquire(t)
  BY <1>9, PlaceTyped DEF Acquire
<1>10. CASE Bind(t)
  BY <1>10, PlaceTyped DEF Bind
<1>11. CASE Dispatch(t)
  BY <1>11, PlaceTyped DEF Dispatch
<1>12. CASE Unbind(t)
  BY <1>12, PlaceTyped DEF Unbind
<1>13. CASE RefuseBeforeWrite(t)
  BY <1>13, ErrorTyped DEF RefuseBeforeWrite
<1>14. CASE DispatchFails(t)
  BY <1>14, ErrorTyped DEF DispatchFails
<1>15. CASE CallbackRaises(t)
  BY <1>15, ErrorTyped DEF CallbackRaises
<1>16. CASE FinalityFails(t)
  BY <1>16, ErrorTyped DEF FinalityFails
<1>17. CASE StreamFails(t)
  BY <1>17, ErrorTyped DEF StreamFails, Stages
<1>18. CASE PollExpires(t)
  BY <1>18, <1>0, ErrorTyped DEF PollExpires, TurnStates
<1>19. CASE Scope(t)
  BY <1>19, PlaceTyped, ErrorTyped DEF Scope
<1>20. CASE Curl(t)
  BY <1>20, <1>0, PlaceTyped, ErrorTyped DEF Curl, TurnStates, Stages, PrewriteStages
<1>21. CASE Expire(t)
  BY <1>21, <1>0, TurnTyped DEF Expire, TurnStates
<1>22. CASE QueueExpires(t)
  <2>1. "not_submitted" \in Reports
    BY DEF Reports
  <2>2. [turn[t] EXCEPT !.pc = "end", !.report = "not_submitted"] \in TurnStates
    BY <1>0, <2>1 DEF TurnStates
  <2> QED  BY <1>22, <2>2, TurnTyped DEF QueueExpires
<1>23. CASE PrepareFails(t)
  BY <1>23, ErrorTyped DEF PrepareFails, Stages, PrewriteStages
<1>24. CASE Headers(t)
  BY <1>24, <1>0, TurnTyped, ErrorTyped DEF Headers, TurnStates
<1>25. CASE Attach(t)
  <2> DEFINE known == t \in Continuing
  <2>1. PICK parent \in Snapshots(Conversation(t)) :
          Become(t, [turn[t] EXCEPT !.parent = parent, !.pc = "sentinel_prepare", !.known = known])
    BY <1>25 DEF Attach
  <2>2. known \in BOOLEAN
    OBVIOUS
  <2> HIDE DEF known
  <2>3. [turn[t] EXCEPT !.parent = parent, !.pc = "sentinel_prepare", !.known = known] \in TurnStates
    BY <1>0, <2>2 DEF TurnStates
  <2> QED  BY <2>1, <2>3, TurnTyped
<1>26. CASE StreamText(t)
  <2>1. PICK h \in BOOLEAN :
          Become(t, [turn[t] EXCEPT !.id = Own(t), !.text = TRUE, !.known = TRUE,
                                    !.streamed = TRUE, !.handedOff = h, !.pc = "recover"])
    BY <1>26 DEF StreamText
  <2>2. Own(t) \in Nat
    BY <1>26 DEF StreamText, At
  <2> DEFINE o == Own(t)
  <2> HIDE DEF o
  <2>3. [turn[t] EXCEPT !.id = o, !.text = TRUE, !.known = TRUE,
                        !.streamed = TRUE, !.handedOff = h, !.pc = "recover"] \in TurnStates
    BY <1>0, <2>2 DEF TurnStates, o
  <2> QED  BY <2>1, <2>3, TurnTyped DEF o
<1>27. CASE StreamIdentity(t)
  <2>1. PICK h \in BOOLEAN :
          Become(t, [turn[t] EXCEPT !.id = Own(t), !.known = TRUE, !.streamed = TRUE,
                                    !.handedOff = h, !.pc = "recover"])
    BY <1>27 DEF StreamIdentity
  <2>2. Own(t) \in Nat
    BY <1>27 DEF StreamIdentity, At
  <2> DEFINE o == Own(t)
  <2> HIDE DEF o
  <2>3. [turn[t] EXCEPT !.id = o, !.known = TRUE, !.streamed = TRUE,
                        !.handedOff = h, !.pc = "recover"] \in TurnStates
    BY <1>0, <2>2 DEF TurnStates, o
  <2> QED  BY <2>1, <2>3, TurnTyped DEF o
<1>28. CASE StreamNothing(t)
  BY <1>28, <1>0, TurnTyped DEF StreamNothing, TurnStates
<1>29. CASE Recover(t)
  BY <1>29, <1>0, TurnTyped DEF Recover, TurnStates
<1>30. CASE PollFinds(t)
  BY <1>30, <1>0, TurnTyped DEF PollFinds, TurnStates
<1>31. CASE ReadMessages(t)
  BY <1>31, <1>0, TurnTyped, ErrorTyped DEF ReadMessages, TurnStates
<1>32. CASE Unscope(t)
  <2>1. Ended(t) \in TurnStates
    BY <1>0, EndedTyped
  <2> QED  BY <1>32, <2>1, TurnTyped DEF Unscope
<1> QED
  BY <1>1, <1>2, <1>3, <1>4, <1>5, <1>6, <1>7, <1>8, <1>9, <1>10, <1>11,
     <1>12, <1>13, <1>14, <1>15, <1>16, <1>17, <1>18, <1>19, <1>20, <1>21, <1>22,
     <1>23, <1>24, <1>25, <1>26, <1>27, <1>28, <1>29, <1>30, <1>31, <1>32
     DEF OwnStep, Step, BeforeWrite, AfterWrite

\* What a turn does to the state it shares.
LEMMA SharedStepTyped ==
  ASSUME TypeOK, NEW t \in Turns, OwnStep(t)
  PROVE  /\ tree' = tree
         /\ wire' \in [Turns -> {"none", "sent", "accepted", "lost"}]
         /\ lock' \in Turns \cup {NoTurn}
         /\ builder' \in Dispatchers
         /\ saved' \in [Turns -> [scope : Dispatchers, bind : Dispatchers]]
         /\ patched' = patched
<1> USE DEF TypeOK
<1>0. /\ ClassMethod \in Dispatchers /\ <<"scope", t>> \in Dispatchers /\ <<"bind", t>> \in Dispatchers
      /\ saved[t] \in [scope : Dispatchers, bind : Dispatchers]
  BY DEF Dispatchers
<1>1. CASE Acquire(t)
  BY <1>1 DEF Acquire
<1>2. CASE Scope(t)
  BY <1>0, <1>2 DEF Scope
<1>3. CASE Bind(t)
  BY <1>0, <1>3 DEF Bind
<1>4. CASE Dispatch(t)
  BY <1>4 DEF Dispatch
<1>5. CASE Unbind(t)
  BY <1>0, <1>5 DEF Unbind
<1>6. CASE Unscope(t)
  BY <1>0, <1>6 DEF Unscope, Restored
<1>7. CASE Quiet
  BY <1>7 DEF Quiet
<1> QED
  BY <1>1, <1>2, <1>3, <1>4, <1>5, <1>6, <1>7
     DEF OwnStep, Start, Expire, Step, BeforeWrite, QueueExpires, RefuseBeforeWrite, Attach,
         SentinelPrepare, SentinelFinalize, Prepare, PrepareFails, Headers, Curl, DispatchFails,
         AfterWrite, StreamText, StreamIdentity, StreamNothing, StreamFails, CallbackRaises,
         SkipRecovery, Recover, RecoverFails, PollFinds, PollGivesUp, PollExpires,
         FinalityFails, ReadStatus, ReadMessages

\* A turn sends its own write, and nothing else of the wires changes.
LEMMA OnlyDispatchSends ==
  ASSUME TypeOK, NEW t \in Turns, OwnStep(t)
  PROVE  \/ wire' = wire
         \/ Dispatch(t) /\ wire' = [wire EXCEPT ![t] = "sent"]
BY DEF OwnStep, Start, Expire, Step, BeforeWrite, QueueExpires, RefuseBeforeWrite, Attach,
       SentinelPrepare, SentinelFinalize, Prepare, PrepareFails, Headers, Curl, DispatchFails,
       AfterWrite, StreamText, StreamIdentity, StreamNothing, StreamFails, CallbackRaises,
       SkipRecovery, Recover, RecoverFails, PollFinds, PollGivesUp, PollExpires,
       FinalityFails, ReadStatus, ReadMessages, Acquire, Scope, Bind, Dispatch, Unbind, Unscope, Quiet

\* A write that has arrived is found in its conversation.
Arrived(t) ==
  wire[t] = "accepted" =>
    \E i \in 1 .. Len(tree[Conversation(t)]) : tree[Conversation(t)][i].author = t

\* The message of a write that has arrived.
LEMMA OwnMessage ==
  ASSUME TypeOK, NEW t \in Turns, Arrived(t), wire[t] = "accepted"
  PROVE  /\ Own(t) \in Nat /\ Own(t) \in 1 .. Len(tree[Conversation(t)])
         /\ tree[Conversation(t)][Own(t)].author = t
<1>1. \E i \in 1 .. Size(Conversation(t)) : tree[Conversation(t)][i].author = t
  BY DEF Arrived, Size
<1>2. /\ Own(t) \in 1 .. Size(Conversation(t))
      /\ tree[Conversation(t)][Own(t)].author = t
  BY <1>1 DEF Own
<1>3. Size(Conversation(t)) \in Nat
  BY SharedIsConversation, SnapshotFacts
<1> QED  BY <1>2, <1>3 DEF Size

Typed == TypeOK /\ \A t \in Turns : Arrived(t)

LEMMA TypedInit == ASSUME Init PROVE Typed
<1>1. \A t \in Turns : Arrived(t)
  BY DEF Init, Arrived
<1> QED  BY <1>1, TypeCorrectInit DEF Typed

\* What has arrived stays while conversations grow.
LEMMA ArrivedStays ==
  ASSUME TypeOK, TreeKept, NEW t \in Turns, Arrived(t), wire'[t] = wire[t]
  PROVE  Arrived(t)'
<1>1. /\ Len(tree[Conversation(t)]) \in Nat
      /\ Conversation(t) \in Conversations
  BY SharedIsConversation, LenProperties DEF TypeOK
<1>2. CASE wire[t] = "accepted"
  <2>1. PICK i \in 1 .. Len(tree[Conversation(t)]) : tree[Conversation(t)][i].author = t
    BY <1>2 DEF Arrived
  <2>2. /\ Len(tree[Conversation(t)]) <= Len(tree'[Conversation(t)])
        /\ tree'[Conversation(t)][i].author = t
    BY <1>1, <2>1 DEF TreeKept
  <2>3. i \in 1 .. Len(tree'[Conversation(t)]) \/ Len(tree'[Conversation(t)]) \notin Int
    BY <1>1, <2>2
  <2> QED  BY <2>2, <2>3 DEF Arrived
<1> QED  BY <1>2 DEF Arrived

LEMMA TypedStep == ASSUME Typed, [Next]_vars PROVE Typed'
<1>1. TypeOK /\ \A t \in Turns : Arrived(t)
  BY DEF Typed
<1>2. ASSUME NEW t \in Turns, OwnStep(t) PROVE Typed'
  <2>1. turn[t].pc = "stream" /\ wire[t] = "accepted" => Own(t) \in Nat
    BY <1>1, OwnMessage
  <2>2. TypeOK'
    BY <1>1, <1>2, <2>1, TurnStepTyped, SharedStepTyped DEF TypeOK
  <2>3. ASSUME NEW u \in Turns, wire'[u] = "accepted" PROVE wire[u] = "accepted"
    <3>1. wire' = wire \/ wire' = [wire EXCEPT ![t] = "sent"]
      BY <1>1, <1>2, OnlyDispatchSends
    <3> QED  BY <1>1, <2>3, <3>1 DEF TypeOK
  <2>4. \A u \in Turns : Arrived(u)'
    BY <1>1, <1>2, <2>3, SharedStepTyped DEF Arrived
  <2> QED  BY <2>2, <2>4 DEF Typed
<1>3. CASE Server
  <2>1. TreeTyped' /\ TreeKept
    BY <1>1, <1>3, ServerKeepsTree
  <2>2. TypeOK'
    BY <1>1, <1>3, <2>1 DEF TypeOK, TreeTyped, Server, Accept, Lose, Complete, OtherWrites
  <2>3. ASSUME NEW u \in Turns PROVE Arrived(u)'
    <3>1. CASE wire'[u] = wire[u]
      BY <1>1, <2>1, <3>1, ArrivedStays
    <3>2. CASE wire'[u] # wire[u] /\ Accept(u)
      <4>1. [parent |-> turn[u].parent, author |-> u, done |-> FALSE] \in Exchanges
        BY <1>1 DEF TypeOK, TurnStates, Exchanges
      <4>2. /\ Len(tree'[Conversation(u)]) = Len(tree[Conversation(u)]) + 1
            /\ tree'[Conversation(u)][Len(tree'[Conversation(u)])].author = u
        BY <1>1, <3>2, <4>1, AddedExchange, SharedIsConversation DEF Accept, TypeOK, TreeTyped
      <4>3. Len(tree[Conversation(u)]) \in Nat
        BY <1>1, SharedIsConversation, LenProperties DEF TypeOK
      <4> QED  BY <4>2, <4>3 DEF Arrived
    <3>3. CASE wire'[u] # wire[u] /\ wire'[u] # "accepted"
      BY <3>3 DEF Arrived
    <3> QED
      BY <1>1, <1>3, <3>1, <3>2, <3>3
         DEF Server, Accept, Lose, Complete, OtherWrites, TypeOK
  <2> QED  BY <2>2, <2>3 DEF Typed
<1>4. CASE CallerPatches
  <2>1. TypeOK'
    BY <1>1, <1>4 DEF CallerPatches, TypeOK, Dispatchers
  <2>2. \A u \in Turns : Arrived(u)'
    BY <1>1, <1>4 DEF CallerPatches, Arrived
  <2> QED  BY <2>1, <2>2 DEF Typed
<1>5. CASE UNCHANGED vars
  <2>1. TypeOK'
    BY <1>1, <1>5 DEF vars, TypeOK
  <2>2. \A u \in Turns : Arrived(u)'
    BY <1>1, <1>5 DEF vars, Arrived
  <2> QED  BY <2>1, <2>2 DEF Typed
<1> QED  BY <1>2, <1>3, <1>4, <1>5, NextIsStep

\* The types of the transport, its client, its turns and its server.
THEOREM TypeCorrect == Spec => []TypeOK
<1>1. Init => Typed
  BY TypedInit
<1>2. Typed /\ [Next]_vars => Typed'
  BY TypedStep
<1>3. Typed => TypeOK
  BY DEF Typed
<1> QED  BY <1>1, <1>2, <1>3, PTL DEF Spec

-----------------------------------------------------------------------------
(* What the caller is told *)

\* Where a turn cannot have sent its write, and where it has.
Unsent == {"idle", "queue", "scope", "attach", "sentinel_prepare", "sentinel_finalize", "bind",
           "prepare", "headers", "curl", "dispatch"}
Sent == {"stream", "recover", "poll", "finality", "messages"}

\* An error that is not taken for one of the preparation.
Ambiguous(e) ==
  /\ e.kind = "none" => e = NoError
  /\ e.kind = "transport" => e.submitted
  /\ e.kind = "request" => e.stage \notin PrewriteStages

\* What holds of a turn's error and report at each place.
Told(t) ==
  /\ turn[t].pc \in Unsent => wire[t] = "none" /\ turn[t].error = NoError
  /\ turn[t].pc \in Sent => wire[t] # "none" /\ turn[t].error = NoError
  /\ turn[t].pc \in {"curl", "dispatch"} => turn[t].started
  /\ turn[t].pc \in {"unbind", "unscope"} /\ turn[t].error.kind = "none" => wire[t] # "none"
  /\ turn[t].pc # "end" /\ wire[t] # "none" => turn[t].started /\ Ambiguous(turn[t].error)
  /\ (turn[t].report = "none") <=> (turn[t].pc # "end")
  /\ turn[t].report = "not_submitted" => wire[t] = "none"
  /\ turn[t].report = "answered" => wire[t] # "none"

LEMMA ToldInit == ASSUME Init PROVE \A t \in Turns : Told(t)
BY DEF Init, Fresh, Told, Unsent, Sent, Ambiguous, NoError

\* A step of a turn, seen in its own state.
LEMMA Becomes ==
  ASSUME TypeOK, NEW t \in Turns, NEW s, Become(t, s)
  PROVE  turn'[t] = s /\ \A u \in Turns \ {t} : turn'[u] = turn[u]
BY DEF TypeOK, Become

\* Two states of a turn that differ in their place only.
Same(r, s) ==
  /\ r.parent = s.parent /\ r.started = s.started /\ r.id = s.id /\ r.streamed = s.streamed
  /\ r.answer = s.answer /\ r.report = s.report /\ r.expired = s.expired /\ r.known = s.known

LEMMA Goes ==
  ASSUME TypeOK, NEW t \in Turns, NEW p, Goto(t, p)
  PROVE  /\ turn'[t].pc = p /\ turn'[t].error = turn[t].error /\ Same(turn'[t], turn[t])
         /\ \A u \in Turns \ {t} : turn'[u] = turn[u]
<1>1. turn'[t] = [turn[t] EXCEPT !.pc = p] /\ \A u \in Turns \ {t} : turn'[u] = turn[u]
  BY DEF TypeOK, Goto
<1>2. turn[t] \in TurnStates
  BY DEF TypeOK
<1> QED  BY <1>1, <1>2 DEF TurnStates, Same

LEMMA Raises ==
  ASSUME TypeOK, NEW t \in Turns, NEW e, NEW p, Raise(t, e, p)
  PROVE  /\ turn'[t].pc = p /\ turn'[t].error = e /\ Same(turn'[t], turn[t])
         /\ \A u \in Turns \ {t} : turn'[u] = turn[u]
<1>1. turn'[t] = [turn[t] EXCEPT !.error = e, !.pc = p] /\ \A u \in Turns \ {t} : turn'[u] = turn[u]
  BY Becomes DEF Raise
<1>2. turn[t] \in TurnStates
  BY DEF TypeOK
<1> QED  BY <1>1, <1>2 DEF TurnStates, Same

\* The end of a call tells what its error says.
LEMMA EndedIsTold ==
  ASSUME TypeOK, NEW t \in Turns, Told(t), Unscope(t)
  PROVE  Told(t)'
<1>1. turn'[t] = Ended(t) /\ wire' = wire /\ turn[t].pc = "unscope"
  BY Becomes DEF Unscope, At
<1>2. /\ Ended(t).pc = "end" /\ Ended(t).report = Report(t) /\ Ended(t).error = NoError
  BY DEF Ended, Fresh
<1>3. Report(t) \in {"answered", "not_submitted", "reconcile", "raw"}
  BY DEF Report
<1>4. Report(t) = "answered" => wire[t] # "none"
  BY <1>1 DEF Report, Told
<1>5. Report(t) = "not_submitted" => wire[t] = "none"
  <2> SUFFICES ASSUME Report(t) = "not_submitted", wire[t] # "none" PROVE FALSE
    OBVIOUS
  <2>1. turn[t].started /\ Ambiguous(turn[t].error)
    BY <1>1 DEF Told
  <2>2. ~MayBeSubmitted(t)
    BY DEF Report
  <2> QED  BY <2>1, <2>2 DEF MayBeSubmitted, Ambiguous, Prewrite
<1> QED  BY <1>1, <1>2, <1>3, <1>4, <1>5 DEF Told, Unsent, Sent

\* What a step of a turn changes of its error and its report.
LEMMA OwnStepIsTold ==
  ASSUME TypeOK, NEW t \in Turns, Told(t), OwnStep(t)
  PROVE  Told(t)'
<1> USE DEF Unsent, Sent, At, Quiet
<1>0. /\ turn[t] \in TurnStates
      /\ \A b \in BOOLEAN : TransportError(b) = [kind |-> "transport", stage |-> "none", submitted |-> b]
      /\ \A s : RequestError(s) = [kind |-> "request", stage |-> s, submitted |-> FALSE]
      /\ OtherError.kind = "other" /\ RawError.kind = "raw" /\ NoError.kind = "none"
  BY DEF TypeOK, TransportError, RequestError, OtherError, RawError, NoError
<1>1. CASE Start(t)
  BY <1>1, <1>0, Goes DEF Start, Told, Same, TurnStates, Ambiguous
<1>2. CASE SentinelPrepare(t)
  BY <1>2, <1>0, Goes DEF SentinelPrepare, Told, Same, TurnStates, Ambiguous
<1>3. CASE SentinelFinalize(t)
  BY <1>3, <1>0, Goes DEF SentinelFinalize, Told, Same, TurnStates, Ambiguous
<1>4. CASE Prepare(t)
  BY <1>4, <1>0, Goes DEF Prepare, Told, Same, TurnStates, Ambiguous
<1>5. CASE SkipRecovery(t)
  BY <1>5, <1>0, Goes DEF SkipRecovery, Told, Same, TurnStates, Ambiguous
<1>6. CASE RecoverFails(t)
  BY <1>6, <1>0, Goes DEF RecoverFails, Told, Same, TurnStates, Ambiguous
<1>7. CASE PollGivesUp(t)
  BY <1>7, <1>0, Goes DEF PollGivesUp, Told, Same, TurnStates, Ambiguous
<1>8. CASE ReadStatus(t)
  BY <1>8, <1>0, Goes DEF ReadStatus, Told, Same, TurnStates, Ambiguous
<1>9. CASE Acquire(t)
  BY <1>9, <1>0, Goes DEF Acquire, Told, Same, TurnStates, Ambiguous
<1>10. CASE Bind(t)
  BY <1>10, <1>0, Goes DEF Bind, Told, Same, TurnStates, Ambiguous
<1>11. CASE Unbind(t)
  BY <1>11, <1>0, Goes DEF Unbind, Told, Same, TurnStates, Ambiguous
<1>12. CASE Dispatch(t)
  BY <1>12, <1>0, Goes DEF Dispatch, Told, Same, TurnStates, Ambiguous, TypeOK
<1>13. CASE Scope(t)
  BY <1>13, <1>0, Goes, Raises DEF Scope, Told, Same, TurnStates
<1>14. CASE RefuseBeforeWrite(t)
  <2> DEFINE e == TransportError(FALSE)
  <2>1. Raise(t, e, "unscope") /\ wire' = wire /\ turn[t].pc \in Unsent
    BY <1>14 DEF RefuseBeforeWrite
  <2>2. wire[t] = "none" /\ e.kind = "transport"
    BY <2>1 DEF Told, TransportError
  <2> HIDE DEF e
  <2> QED  BY <1>0, <2>1, <2>2, Raises DEF Told, Same
<1>15. CASE PrepareFails(t)
  BY <1>15, <1>0, Raises DEF PrepareFails, Told, Same, TurnStates
<1>16. CASE DispatchFails(t)
  BY <1>16, <1>0, Raises DEF DispatchFails, Told, Same, TurnStates
<1>17. CASE CallbackRaises(t)
  BY <1>17, <1>0, Raises DEF CallbackRaises, Told, Same, TurnStates, Ambiguous, PrewriteStages
<1>18. CASE FinalityFails(t)
  <2> DEFINE e == TransportError(TRUE)
  <2>1. Raise(t, e, "unscope") /\ wire' = wire /\ turn[t].pc \in Sent
    BY <1>18 DEF FinalityFails
  <2>2. e.kind = "transport" /\ e.submitted /\ turn[t].started
    BY <2>1 DEF Told, TransportError
  <2> HIDE DEF e
  <2> QED  BY <1>0, <2>1, <2>2, Raises DEF Told, Same, Ambiguous
<1>19. CASE StreamFails(t)
  BY <1>19, <1>0, Raises DEF StreamFails, Told, Same, TurnStates, Ambiguous, PrewriteStages
<1>20. CASE PollExpires(t)
  BY <1>20, <1>0, Raises DEF PollExpires, Told, Same, TurnStates, Ambiguous, PrewriteStages
<1>21. CASE Curl(t)
  BY <1>21, <1>0, Goes, Raises DEF Curl, Told, Same, TurnStates
<1>22. CASE Headers(t)
  <2>1. CASE turn[t].expired
    <3> DEFINE e == TransportError(FALSE)
    <3>1. Raise(t, e, "unbind") /\ wire' = wire /\ turn[t].pc = "headers"
      BY <1>22, <2>1 DEF Headers
    <3>2. wire[t] = "none" /\ e.kind = "transport"
      BY <3>1 DEF Told, TransportError
    <3> HIDE DEF e
    <3> QED  BY <1>0, <3>1, <3>2, Raises DEF Told, Same
  <2>2. CASE ~turn[t].expired
    <3> DEFINE b == TRUE
    <3>1. Become(t, [turn[t] EXCEPT !.started = b, !.pc = "curl"]) /\ wire' = wire
          /\ turn[t].pc = "headers" /\ b
      BY <1>22, <2>2 DEF Headers
    <3> HIDE DEF b
    <3> QED  BY <1>0, <3>1 DEF Become, TypeOK, Told, TurnStates
  <2> QED  BY <2>1, <2>2
<1>23. CASE Expire(t)
  BY <1>23, <1>0 DEF Expire, Become, TypeOK, Told, TurnStates, Ambiguous
<1>24. CASE Attach(t)
  BY <1>24, <1>0 DEF Attach, Become, TypeOK, Told, TurnStates, Ambiguous
<1>25. CASE StreamText(t)
  BY <1>25, <1>0 DEF StreamText, Become, TypeOK, Told, TurnStates, Ambiguous
<1>26. CASE StreamIdentity(t)
  BY <1>26, <1>0 DEF StreamIdentity, Become, TypeOK, Told, TurnStates, Ambiguous
<1>27. CASE StreamNothing(t)
  <2>1. PICK known, h :
          Become(t, [turn[t] EXCEPT !.id = turn[t].parent, !.known = known,
                                    !.handedOff = h, !.pc = "recover"])
    BY <1>27 DEF StreamNothing
  <2>2. wire' = wire /\ turn[t].pc = "stream"
    BY <1>27 DEF StreamNothing
  <2> QED  BY <1>0, <2>1, <2>2 DEF Become, TypeOK, Told, TurnStates
<1>28. CASE Recover(t)
  <2>1. wire' = wire /\ turn[t].pc = "recover"
    BY <1>28 DEF Recover
  <2>2. ASSUME NEW i, Become(t, [turn[t] EXCEPT !.id = i, !.text = TRUE, !.streamed = FALSE, !.pc = "unbind"])
        PROVE  Told(t)'
    BY <1>0, <2>1, <2>2 DEF Become, TypeOK, Told, TurnStates
  <2>3. ASSUME Become(t, [turn[t] EXCEPT !.id = NoId, !.streamed = FALSE, !.pc = "poll"])
        PROVE  Told(t)'
    BY <1>0, <2>1, <2>3 DEF Become, TypeOK, Told, TurnStates
  <2> QED  BY <1>28, <2>2, <2>3 DEF Recover
<1>29. CASE PollFinds(t)
  BY <1>29, <1>0 DEF PollFinds, Become, TypeOK, Told, TurnStates, Ambiguous
<1>30. CASE QueueExpires(t)
  BY <1>30, <1>0 DEF QueueExpires, Become, TypeOK, Told, TurnStates
<1>31. CASE ReadMessages(t)
  <2>1. wire' = wire /\ turn[t].pc = "messages"
    BY <1>31 DEF ReadMessages
  <2>2. wire[t] # "none" /\ turn[t].started /\ turn[t].report = "none"
    BY <2>1 DEF Told
  <2>3. CASE Raise(t, TransportError(TRUE), "unscope")
    <3> DEFINE e == TransportError(TRUE)
    <3>1. e.kind = "transport" /\ e.submitted /\ Raise(t, e, "unscope")
      BY <2>3 DEF TransportError
    <3> HIDE DEF e
    <3> QED  BY <1>0, <2>1, <2>2, <3>1, Raises DEF Told, Same, Ambiguous
  <2>4. ASSUME NEW latest, NEW error \in {NoError, RawError},
               Become(t, [turn[t] EXCEPT !.answer = latest, !.error = error, !.pc = "unscope"])
        PROVE  Told(t)'
    <3>1. /\ turn'[t].pc = "unscope" /\ turn'[t].error = error /\ turn'[t].started = turn[t].started
          /\ turn'[t].report = turn[t].report
      BY <1>0, <2>4 DEF Become, TypeOK, TurnStates
    <3>2. error.kind = "raw" \/ error = NoError
      BY <1>0, <2>4
    <3> QED  BY <1>0, <2>1, <2>2, <3>1, <3>2 DEF Told, Ambiguous
  <2> QED  BY <1>31, <2>3, <2>4 DEF ReadMessages
<1>32. CASE Unscope(t)
  BY <1>32, EndedIsTold
<1> QED
  BY <1>1, <1>2, <1>3, <1>4, <1>5, <1>6, <1>7, <1>8, <1>9, <1>10, <1>11,
     <1>12, <1>13, <1>14, <1>15, <1>16, <1>17, <1>18, <1>19, <1>20, <1>21, <1>22,
     <1>23, <1>24, <1>25, <1>26, <1>27, <1>28, <1>29, <1>30, <1>31, <1>32
     DEF OwnStep, Step, BeforeWrite, AfterWrite

\* A step of one turn leaves the others where they are.
LEMMA OthersStay ==
  ASSUME TypeOK, NEW t \in Turns, OwnStep(t), NEW u \in Turns \ {t}
  PROVE  turn'[u] = turn[u] /\ wire'[u] = wire[u]
<1>1. \E s : turn' = [turn EXCEPT ![t] = s]
  BY DEF OwnStep, Start, Expire, Step, BeforeWrite, QueueExpires, RefuseBeforeWrite, Attach,
         SentinelPrepare, SentinelFinalize, Prepare, PrepareFails, Headers, Curl, DispatchFails,
         AfterWrite, StreamText, StreamIdentity, StreamNothing, StreamFails, CallbackRaises,
         SkipRecovery, Recover, RecoverFails, PollFinds, PollGivesUp, PollExpires,
         FinalityFails, ReadStatus, ReadMessages, Acquire, Scope, Bind, Dispatch, Unbind, Unscope,
         Become, Goto, Raise
<1>2. wire' = wire \/ wire' = [wire EXCEPT ![t] = "sent"]
  BY OnlyDispatchSends
<1> QED  BY <1>1, <1>2 DEF TypeOK

LEMMA ServerLeavesTurns ==
  ASSUME TypeOK, Server
  PROVE  turn' = turn /\ \A u \in Turns : wire'[u] = "none" <=> wire[u] = "none"
<1>1. ASSUME NEW t \in Turns, Accept(t) \/ Lose(t)
      PROVE  turn' = turn /\ \A u \in Turns : wire'[u] = "none" <=> wire[u] = "none"
  BY <1>1 DEF Accept, Lose, TypeOK
<1> QED  BY <1>1 DEF Server, Complete, OtherWrites

LEMMA ToldStep ==
  ASSUME TypeOK, \A u \in Turns : Told(u), [Next]_vars
  PROVE  \A u \in Turns : Told(u)'
<1>1. ASSUME NEW t \in Turns, OwnStep(t), NEW u \in Turns PROVE Told(u)'
  <2>1. CASE u = t
    BY <1>1, <2>1, OwnStepIsTold
  <2>2. CASE u # t
    <3>1. turn'[u] = turn[u] /\ wire'[u] = wire[u]
      BY <1>1, <2>2, OthersStay
    <3> QED  BY <3>1 DEF Told
  <2> QED  BY <2>1, <2>2
<1>2. CASE Server
  BY <1>2, ServerLeavesTurns DEF Told
<1>3. CASE CallerPatches \/ UNCHANGED vars
  BY <1>3 DEF CallerPatches, vars, Told
<1> QED  BY <1>1, <1>2, <1>3, NextIsStep

\* A turn that is reported as not submitted has not sent its write, whichever error
\* of whichever stage has ended it.
THEOREM NotSubmittedIsRightHolds == Spec => []NotSubmittedIsRight
<1> DEFINE Inv == Typed /\ \A t \in Turns : Told(t)
<1>1. Init => Inv
  BY TypedInit, ToldInit
<1>2. Inv /\ [Next]_vars => Inv'
  BY TypedStep, ToldStep DEF Typed
<1>3. Inv => NotSubmittedIsRight
  BY DEF Told, NotSubmittedIsRight
<1> QED  BY <1>1, <1>2, <1>3, PTL DEF Spec

\* A call that has ended takes no step, and a call gets its report as it ends.
LEMMA ReportsAtTheEnd ==
  ASSUME TypeOK, NEW t \in Turns, Told(t), OwnStep(t)
  PROVE  \/ turn'[t].report = turn[t].report
         \/ turn[t].report = "none" /\ wire' = wire
<1>1. turn[t].pc # "end"
  BY DEF OwnStep, Start, Expire, Step, BeforeWrite, QueueExpires, RefuseBeforeWrite, Attach,
         SentinelPrepare, SentinelFinalize, Prepare, PrepareFails, Headers, Curl, DispatchFails,
         AfterWrite, StreamText, StreamIdentity, StreamNothing, StreamFails, CallbackRaises,
         SkipRecovery, Recover, RecoverFails, PollFinds, PollGivesUp, PollExpires,
         FinalityFails, ReadStatus, ReadMessages, Acquire, Scope, Bind, Dispatch, Unbind, Unscope, At
<1>2. turn[t].report = "none" /\ ((turn'[t].report = "none") <=> (turn'[t].pc # "end"))
  BY <1>1, OwnStepIsTold DEF Told
<1>3. wire' = wire \/ turn'[t].pc # "end"
  BY OnlyDispatchSends, Goes DEF Dispatch
<1> QED  BY <1>2, <1>3

LEMMA ContractStep ==
  ASSUME TypeOK, TypeOK', \A u \in Turns : Told(u), \A u \in Turns : Told(u)', [Next]_vars
  PROVE  [Contract!Next]_(Contract!vars)
<1> DEFINE report == [u \in Turns |-> turn[u].report]
<1> USE DEF Contract!vars
<1>1. ASSUME NEW t \in Turns, OwnStep(t) PROVE [Contract!Next]_(Contract!vars)
  <2>1. \A u \in Turns \ {t} : turn'[u] = turn[u] /\ wire'[u] = wire[u]
    BY <1>1, OthersStay
  <2>2. CASE turn'[t].report = turn[t].report /\ wire' = wire
    BY <2>1, <2>2 DEF Written
  <2>3. CASE turn'[t].report = turn[t].report /\ wire' # wire
    <3>1. Dispatch(t) /\ wire' = [wire EXCEPT ![t] = "sent"]
      BY <1>1, <2>3, OnlyDispatchSends
    <3>2. wire[t] = "none" /\ turn[t].report = "none"
      BY <3>1 DEF Dispatch, At, Told, Unsent
    <3>3. Written' = Written \cup {t} /\ t \notin Written
      BY <3>1, <3>2 DEF Written, TypeOK
    <3>4. report' = report
      BY <2>1, <2>3
    <3> QED
      BY <3>2, <3>3, <3>4 DEF Contract!Next, Contract!Write, Contract!Running
  <2>4. CASE turn'[t].report # turn[t].report
    <3>1. turn[t].report = "none" /\ wire' = wire
      BY <1>1, <2>4, ReportsAtTheEnd
    <3>2. Written' = Written
      BY <3>1 DEF Written
    <3>3. report' = [report EXCEPT ![t] = turn'[t].report]
      BY <2>1
    <3>4. turn'[t].report \in Reports \ {"none"}
      BY <2>4, <3>1 DEF TypeOK, TurnStates
    <3>5. /\ turn'[t].report = "answered" => t \in Written
          /\ turn'[t].report = "not_submitted" => t \notin Written
      BY <3>1 DEF Told, Written
    <3> QED
      BY <3>1, <3>2, <3>3, <3>4, <3>5
         DEF Contract!Next, Contract!Answer, Contract!NotSubmitted, Contract!Reconcile,
             Contract!Raw, Contract!End, Contract!Running, Reports
  <2> QED  BY <2>2, <2>3, <2>4
<1>2. CASE Server
  <2>1. turn' = turn /\ Written' = Written
    BY <1>2, ServerLeavesTurns DEF Written
  <2> QED  BY <2>1
<1>3. CASE CallerPatches \/ UNCHANGED vars
  BY <1>3 DEF CallerPatches, vars, Written
<1> QED  BY <1>1, <1>2, <1>3, NextIsStep

\* The transport keeps the contract of a turn: one write at most, an answer only
\* after it, "not submitted" only without it, and one report that stays.
THEOREM KeepsContractHolds == Spec => KeepsContract
<1> DEFINE Inv == Typed /\ \A t \in Turns : Told(t)
<1>1. Init => Inv
  BY TypedInit, ToldInit
<1>2. Inv /\ [Next]_vars => Inv'
  BY TypedStep, ToldStep DEF Typed
<1>3. Init => Contract!Init
  BY DEF Init, Contract!Init, Written, Fresh
<1>4. Inv /\ Inv' /\ [Next]_vars => [Contract!Next]_(Contract!vars)
  BY ContractStep DEF Typed
<1> QED  BY <1>1, <1>2, <1>3, <1>4, PTL DEF Spec, KeepsContract, Contract!Spec

-----------------------------------------------------------------------------
(* The answer *)

\* An exchange of the conversation of a turn.
Has(t, i) == i \in 1 .. Len(tree[Conversation(t)])
Its(t, i) == tree[Conversation(t)][i]

\* What holds of a turn's message and its answer at each place.
Answering(t) ==
  /\ turn[t].pc \in Unsent \cup {"stream"} => ~turn[t].streamed
  /\ turn[t].pc # "end" /\ turn[t].streamed => Has(t, turn[t].id) /\ Its(t, turn[t].id).author = t
  /\ turn[t].pc = "messages" => Has(t, turn[t].id) /\ Its(t, turn[t].id).done
  /\ turn[t].pc \notin {"unscope", "end"} => turn[t].answer = 0
  /\ turn[t].answer # 0 =>
       /\ Has(t, turn[t].answer) /\ Its(t, turn[t].answer).done
       /\ turn[t].answer # turn[t].parent
       /\ turn[t].streamed => Its(t, turn[t].answer).author = t
  /\ turn[t].pc = "unscope" /\ turn[t].error.kind = "none" => turn[t].answer # 0
  /\ turn[t].report = "answered" => turn[t].answer # 0

LEMMA AnsweringInit == ASSUME Init PROVE \A t \in Turns : Answering(t)
BY DEF Init, Fresh, Answering, Unsent

\* Growing conversations keep what a turn has found in them.
LEMMA AnsweringStays ==
  ASSUME TypeOK, TreeTyped', TreeKept, NEW t \in Turns, Answering(t), turn'[t] = turn[t]
  PROVE  Answering(t)'
<1>1. /\ Len(tree[Conversation(t)]) \in Nat /\ Len(tree'[Conversation(t)]) \in Nat
      /\ Len(tree[Conversation(t)]) <= Len(tree'[Conversation(t)])
  BY SharedIsConversation, LenProperties DEF TypeOK, TreeTyped, TreeKept
<1>2. \A i : Has(t, i) => /\ Has(t, i)' /\ Its(t, i)'.author = Its(t, i).author
                          /\ Its(t, i).done => Its(t, i)'.done
  BY <1>1, SharedIsConversation DEF Has, Its, TreeKept
<1> QED  BY <1>2 DEF Answering

\* A step of a turn that is none of those that find or give an answer.
LEMMA AnsweringGoesOn ==
  ASSUME TypeOK, NEW t \in Turns, Answering(t), tree' = tree, Same(turn'[t], turn[t]),
         turn[t].pc # "end", turn'[t].pc \notin {"messages", "end"},
         turn'[t].pc = "unscope" => turn'[t].error.kind # "none",
         turn'[t].pc \in Unsent \cup {"stream"} => turn[t].pc \in Unsent \cup {"stream"},
         turn[t].pc # "unscope"
  PROVE  Answering(t)'
<1>1. /\ \A i : Has(t, i)' = Has(t, i)
      /\ \A i : Its(t, i)' = Its(t, i)
  BY DEF Has, Its
<1> QED  BY <1>1 DEF Answering, Same

LEMMA OwnStepAnswers ==
  ASSUME TypeOK, NEW t \in Turns, Arrived(t), Told(t), Answering(t), OwnStep(t)
  PROVE  Answering(t)'
<1>0. turn[t] \in TurnStates /\ tree' = tree /\ TransportError(TRUE).kind # "none"
      /\ TransportError(FALSE).kind # "none" /\ RawError.kind # "none"
  BY SharedStepTyped DEF TypeOK, TransportError, RawError
<1> USE DEF At, Unsent
<1>1. CASE Start(t)
  BY <1>1, <1>0, Goes, AnsweringGoesOn DEF Start
<1>2. CASE SentinelPrepare(t)
  BY <1>2, <1>0, Goes, AnsweringGoesOn DEF SentinelPrepare
<1>3. CASE SentinelFinalize(t)
  BY <1>3, <1>0, Goes, AnsweringGoesOn DEF SentinelFinalize
<1>4. CASE Prepare(t)
  BY <1>4, <1>0, Goes, AnsweringGoesOn DEF Prepare
<1>5. CASE SkipRecovery(t)
  BY <1>5, <1>0, Goes, AnsweringGoesOn DEF SkipRecovery
<1>6. CASE RecoverFails(t)
  BY <1>6, <1>0, Goes, AnsweringGoesOn DEF RecoverFails
<1>7. CASE PollGivesUp(t)
  BY <1>7, <1>0, Goes, AnsweringGoesOn DEF PollGivesUp
<1>8. CASE Acquire(t)
  BY <1>8, <1>0, Goes, AnsweringGoesOn DEF Acquire
<1>9. CASE Bind(t)
  BY <1>9, <1>0, Goes, AnsweringGoesOn DEF Bind
<1>10. CASE Dispatch(t)
  BY <1>10, <1>0, Goes, AnsweringGoesOn DEF Dispatch
<1>11. CASE Unbind(t)
  <2>1. turn[t].error = NoError \/ turn[t].error.kind # "none"
    BY <1>11 DEF Unbind, Told, Ambiguous
  <2> QED  BY <1>11, <1>0, <2>1, Goes, AnsweringGoesOn DEF Unbind
<1>12. CASE Scope(t)
  <2>1. CASE Raise(t, RawError, "unscope")
    BY <1>12, <1>0, <2>1, Raises, AnsweringGoesOn DEF Scope
  <2>2. CASE Goto(t, "attach")
    BY <1>12, <1>0, <2>2, Goes, AnsweringGoesOn DEF Scope
  <2> QED  BY <1>12, <2>1, <2>2 DEF Scope
<1>13. CASE RefuseBeforeWrite(t)
  <2> DEFINE e == TransportError(FALSE)
  <2>1. Raise(t, e, "unscope") /\ turn[t].pc \in Unsent
    BY <1>13 DEF RefuseBeforeWrite
  <2> HIDE DEF e
  <2>2. e.kind # "none"
    BY <1>0 DEF e
  <2> QED  BY <1>0, <2>1, <2>2, Raises, AnsweringGoesOn
<1>14. CASE FinalityFails(t)
  <2> DEFINE e == TransportError(TRUE)
  <2>1. Raise(t, e, "unscope") /\ turn[t].pc \in {"finality", "messages"}
    BY <1>14 DEF FinalityFails
  <2> HIDE DEF e
  <2>2. e.kind # "none"
    BY <1>0 DEF e
  <2> QED  BY <1>0, <2>1, <2>2, Raises, AnsweringGoesOn
<1>15. CASE PrepareFails(t)
  <2>1. PICK e : Raise(t, e, "unbind") /\ turn[t].pc \in {"prepare"}
    BY <1>15 DEF PrepareFails
  <2> QED  BY <1>0, <2>1, Raises, AnsweringGoesOn
<1>16. CASE DispatchFails(t)
  <2>1. PICK e : Raise(t, e, "unbind") /\ turn[t].pc \in {"dispatch"}
    BY <1>16 DEF DispatchFails
  <2> QED  BY <1>0, <2>1, Raises, AnsweringGoesOn
<1>17. CASE StreamFails(t)
  <2>1. PICK e : Raise(t, e, "unbind") /\ turn[t].pc \in {"stream"}
    BY <1>17 DEF StreamFails
  <2> QED  BY <1>0, <2>1, Raises, AnsweringGoesOn
<1>18. CASE CallbackRaises(t)
  <2>1. PICK e : Raise(t, e, "unbind") /\ turn[t].pc \in {"stream", "poll"}
    BY <1>18 DEF CallbackRaises
  <2> QED  BY <1>0, <2>1, Raises, AnsweringGoesOn
<1>19. CASE PollExpires(t)
  <2>1. PICK e : Raise(t, e, "unbind") /\ turn[t].pc \in {"poll"}
    BY <1>19 DEF PollExpires
  <2> QED  BY <1>0, <2>1, Raises, AnsweringGoesOn
<1>20. CASE Curl(t)
  <2>1. CASE \E e : Raise(t, e, "unbind")
    BY <1>20, <1>0, <2>1, Raises, AnsweringGoesOn DEF Curl
  <2>2. CASE Goto(t, "dispatch")
    BY <1>20, <1>0, <2>2, Goes, AnsweringGoesOn DEF Curl
  <2> QED  BY <1>20, <2>1, <2>2 DEF Curl
<1>21. CASE Headers(t)
  <2>1. CASE \E e : Raise(t, e, "unbind")
    BY <1>21, <1>0, <2>1, Raises, AnsweringGoesOn DEF Headers
  <2>2. CASE Become(t, [turn[t] EXCEPT !.started = TRUE, !.pc = "curl"])
    BY <1>21, <1>0, <2>2 DEF Headers, Become, TypeOK, TurnStates, Answering, Has, Its
  <2> QED  BY <1>21, <2>1, <2>2 DEF Headers
<1>22. CASE Expire(t)
  BY <1>22, <1>0 DEF Expire, Become, TypeOK, TurnStates, Answering, Has, Its
<1>23. CASE Attach(t)
  BY <1>23, <1>0 DEF Attach, Become, TypeOK, TurnStates, Answering, Has, Its
<1>24. CASE QueueExpires(t)
  BY <1>24, <1>0 DEF QueueExpires, Become, TypeOK, TurnStates, Answering, Has, Its
<1>25. CASE StreamText(t)
  <2> DEFINE o == Own(t)
  <2>1. PICK h : Become(t, [turn[t] EXCEPT !.id = o, !.text = TRUE, !.known = TRUE, !.streamed = TRUE,
                                           !.handedOff = h, !.pc = "recover"])
    BY <1>25 DEF StreamText
  <2>2. Has(t, o) /\ Its(t, o).author = t /\ turn[t].pc = "stream"
    BY <1>25, OwnMessage DEF StreamText, Has, Its
  <2> HIDE DEF o
  <2>3. /\ turn'[t].pc = "recover" /\ turn'[t].id = o /\ turn'[t].answer = turn[t].answer
        /\ turn'[t].report = turn[t].report
    BY <1>0, <2>1 DEF Become, TypeOK, TurnStates
  <2> QED  BY <1>0, <2>2, <2>3 DEF Answering, Has, Its, Told
<1>26. CASE StreamIdentity(t)
  <2> DEFINE o == Own(t)
  <2>1. PICK h : Become(t, [turn[t] EXCEPT !.id = o, !.known = TRUE, !.streamed = TRUE,
                                           !.handedOff = h, !.pc = "recover"])
    BY <1>26 DEF StreamIdentity
  <2>2. Has(t, o) /\ Its(t, o).author = t /\ turn[t].pc = "stream"
    BY <1>26, OwnMessage DEF StreamIdentity, Has, Its
  <2> HIDE DEF o
  <2>3. /\ turn'[t].pc = "recover" /\ turn'[t].id = o /\ turn'[t].answer = turn[t].answer
        /\ turn'[t].report = turn[t].report
    BY <1>0, <2>1 DEF Become, TypeOK, TurnStates
  <2> QED  BY <1>0, <2>2, <2>3 DEF Answering, Has, Its, Told
<1>27. CASE StreamNothing(t)
  <2>1. PICK known, h :
          Become(t, [turn[t] EXCEPT !.id = turn[t].parent, !.known = known,
                                    !.handedOff = h, !.pc = "recover"])
    BY <1>27 DEF StreamNothing
  <2> QED  BY <1>27, <1>0, <2>1 DEF StreamNothing, Become, TypeOK, TurnStates, Answering, Has, Its
<1>28. CASE Recover(t)
  <2>1. CASE \E i : Become(t, [turn[t] EXCEPT !.id = i, !.text = TRUE, !.streamed = FALSE, !.pc = "unbind"])
    BY <1>28, <1>0, <2>1 DEF Recover, Become, TypeOK, TurnStates, Answering, Has, Its
  <2>2. CASE Become(t, [turn[t] EXCEPT !.id = NoId, !.streamed = FALSE, !.pc = "poll"])
    BY <1>28, <1>0, <2>2 DEF Recover, Become, TypeOK, TurnStates, Answering, Has, Its
  <2> QED  BY <1>28, <2>1, <2>2 DEF Recover
<1>29. CASE PollFinds(t)
  <2>1. PICK i : Become(t, [turn[t] EXCEPT !.id = i, !.text = TRUE, !.streamed = FALSE, !.pc = "unbind"])
    BY <1>29 DEF PollFinds
  <2> QED  BY <1>29, <1>0, <2>1 DEF PollFinds, Become, TypeOK, TurnStates, Answering, Has, Its
<1>30. CASE ReadStatus(t)
  <2>1. PICK i \in Snapshots(Conversation(t)) : Completed(t, i)
    BY <1>30 DEF ReadStatus
  <2>2. Size(Conversation(t)) \in Nat
    BY SharedIsConversation, SnapshotFacts
  <2>3. Has(t, turn[t].id) /\ Its(t, turn[t].id).done
    BY <2>1, <2>2 DEF Completed, Snapshots, Has, Its, Size
  <2>4. Same(turn'[t], turn[t]) /\ turn'[t].pc = "messages" /\ turn[t].pc = "finality"
    BY <1>30, Goes DEF ReadStatus
  <2> QED  BY <1>0, <2>3, <2>4 DEF Answering, Same, Has, Its
<1>31. CASE ReadMessages(t)
  <2>1. turn[t].pc = "messages" /\ Has(t, turn[t].id) /\ Its(t, turn[t].id).done
    BY <1>31 DEF ReadMessages, Answering
  <2>2. CASE Raise(t, TransportError(TRUE), "unscope")
    <3> DEFINE e == TransportError(TRUE)
    <3>1. Raise(t, e, "unscope") /\ e.kind # "none"
      BY <1>0, <2>2
    <3> HIDE DEF e
    <3> QED  BY <1>0, <2>1, <3>1, Raises, AnsweringGoesOn
  <2>3. ASSUME NEW latest, NEW error, Accepted(t, latest),
               Become(t, [turn[t] EXCEPT !.answer = latest, !.error = error, !.pc = "unscope"])
        PROVE  Answering(t)'
    <3>1. latest # 0 /\ latest # turn[t].parent /\ latest = turn[t].id
      BY <2>3 DEF Accepted
    <3>2. /\ turn'[t].pc = "unscope" /\ turn'[t].id = turn[t].id /\ turn'[t].answer = latest
          /\ turn'[t].parent = turn[t].parent /\ turn'[t].streamed = turn[t].streamed
          /\ turn'[t].report = turn[t].report
      BY <1>0, <2>3 DEF Become, TypeOK, TurnStates
    <3> QED  BY <1>0, <2>1, <3>1, <3>2 DEF Answering, Has, Its
  <2> QED  BY <1>31, <2>2, <2>3 DEF ReadMessages
<1>32. CASE Unscope(t)
  <2>1. turn'[t] = Ended(t) /\ turn[t].pc = "unscope"
    BY <1>32, Becomes DEF Unscope
  <2>2. /\ turn'[t].pc = "end" /\ turn'[t].answer = turn[t].answer /\ turn'[t].parent = turn[t].parent
        /\ turn'[t].report = Report(t)
        /\ turn'[t].streamed => turn[t].streamed
    BY <2>1 DEF Ended, Fresh
  <2>3. Report(t) = "answered" => turn[t].error.kind = "none"
    BY DEF Report
  <2> QED  BY <1>0, <2>1, <2>2, <2>3 DEF Answering, Has, Its
<1> QED
  BY <1>1, <1>2, <1>3, <1>4, <1>5, <1>6, <1>7, <1>8, <1>9, <1>10, <1>11,
     <1>12, <1>13, <1>14, <1>15, <1>16, <1>17, <1>18, <1>19, <1>20, <1>21, <1>22,
     <1>23, <1>24, <1>25, <1>26, <1>27, <1>28, <1>29, <1>30, <1>31, <1>32
     DEF OwnStep, Step, BeforeWrite, AfterWrite

LEMMA AnsweringStep ==
  ASSUME Typed, \A u \in Turns : Told(u) /\ Answering(u), [Next]_vars
  PROVE  \A u \in Turns : Answering(u)'
<1>0. TypeOK /\ \A u \in Turns : Arrived(u)
  BY DEF Typed
<1>1. ASSUME NEW t \in Turns, OwnStep(t), NEW u \in Turns PROVE Answering(u)'
  <2>1. CASE u = t
    BY <1>0, <1>1, <2>1, OwnStepAnswers
  <2>2. CASE u # t
    <3>1. turn'[u] = turn[u] /\ tree' = tree
      BY <1>0, <1>1, <2>2, OthersStay, SharedStepTyped
    <3> QED  BY <3>1 DEF Answering, Has, Its
  <2> QED  BY <2>1, <2>2
<1>2. CASE Server
  <2>1. turn' = turn /\ TreeTyped' /\ TreeKept
    BY <1>0, <1>2, ServerLeavesTurns, ServerKeepsTree
  <2> QED  BY <1>0, <2>1, AnsweringStays
<1>3. CASE CallerPatches \/ UNCHANGED vars
  <2>1. turn' = turn /\ tree' = tree
    BY <1>3 DEF CallerPatches, vars
  <2> QED  BY <2>1 DEF Answering, Has, Its
<1> QED  BY <1>1, <1>2, <1>3, NextIsStep

\* An answered turn returns a complete message that is not the one it continued
\* from, and, if the stream has named it, the answer to this turn.
THEOREM AnswerIsFinalHolds == Spec => []AnswerIsFinal
<1> DEFINE Inv == Typed /\ \A t \in Turns : Told(t) /\ Answering(t)
<1>1. Init => Inv
  BY TypedInit, ToldInit, AnsweringInit
<1>2. Inv /\ [Next]_vars => Inv'
  BY TypedStep, ToldStep, AnsweringStep DEF Typed
<1>3. Inv => AnswerIsFinal
  BY DEF Answering, Has, Its, AnswerIsFinal, Size
<1> QED  BY <1>1, <1>2, <1>3, PTL DEF Spec

-----------------------------------------------------------------------------
(* The dispatchers on the client *)

\* Where a turn is as far as the client's dispatchers go: it has no lock, has not
\* put anything there yet, has its scope there, or its binding on top of it.
BoundPCs == {"prepare", "headers", "curl", "dispatch", "stream", "recover", "poll", "unbind"}
Region(t) ==
  IF turn[t].pc \in {"idle", "queue", "end"} THEN "out"
  ELSE IF turn[t].pc = "scope" THEN "entering"
  ELSE IF turn[t].pc \in BoundPCs THEN "bound" ELSE "scoped"

Base == {ClassMethod, CallersOwn}

\* What is on the client and what the turn that holds it has saved.
Dispatching(t) ==
  /\ Region(t) = "entering" => builder \in Base
  /\ Region(t) \in {"scoped", "bound"} => saved[t].scope \in Base
  /\ Region(t) = "scoped" => builder \in {<<"scope", t>>, CallersOwn}
  /\ Region(t) = "bound" => saved[t].bind \in {<<"scope", t>>, CallersOwn}
  /\ patched = "plain" =>
       /\ Region(t) = "entering" => builder = CallersOwn
       /\ Region(t) = "scoped" => builder = CallersOwn \/ saved[t].scope = CallersOwn
       /\ Region(t) = "bound" => CallersOwn \in {saved[t].scope, saved[t].bind}

Exclusive ==
  /\ \A t \in Turns : (Region(t) # "out") <=> (lock = t)
  /\ lock = NoTurn => builder \in Base /\ (patched = "plain" => builder = CallersOwn)
  /\ \A t \in Turns : lock = t => Dispatching(t)

LEMMA ExclusiveInit == ASSUME Init PROVE Exclusive
BY BrowserlessAssumption DEF Init, Fresh, Exclusive, Region, Base

\* A step of a turn moves it between these places in one of a few ways.
LEMMA OwnStepMoves ==
  ASSUME TypeOK, NEW t \in Turns, OwnStep(t)
  PROVE  \/ Acquire(t) \/ Scope(t) \/ Bind(t) \/ Unbind(t) \/ Unscope(t)
         \/ Region(t)' = Region(t) /\ UNCHANGED <<lock, builder, saved, patched>>
<1> USE DEF Region, BoundPCs, At, Quiet
<1>0. turn[t] \in TurnStates
  BY DEF TypeOK
<1>1. CASE Start(t)
  BY <1>1, Goes DEF Start
<1>2. CASE SentinelPrepare(t)
  BY <1>2, Goes DEF SentinelPrepare
<1>3. CASE SentinelFinalize(t)
  BY <1>3, Goes DEF SentinelFinalize
<1>4. CASE Prepare(t)
  BY <1>4, Goes DEF Prepare
<1>5. CASE SkipRecovery(t)
  BY <1>5, Goes DEF SkipRecovery
<1>6. CASE RecoverFails(t)
  BY <1>6, Goes DEF RecoverFails
<1>7. CASE PollGivesUp(t)
  BY <1>7, Goes DEF PollGivesUp
<1>8. CASE ReadStatus(t)
  BY <1>8, Goes DEF ReadStatus
<1>9. CASE Dispatch(t)
  BY <1>9, Goes DEF Dispatch
<1>10. CASE Curl(t)
  BY <1>10, Goes, Raises DEF Curl
<1>11. CASE RefuseBeforeWrite(t)
  <2>1. PICK e : Raise(t, e, "unscope") /\ turn[t].pc \in {"attach", "sentinel_prepare", "sentinel_finalize", "bind"}
    BY <1>11 DEF RefuseBeforeWrite
  <2> QED  BY <1>11, <2>1, Raises DEF RefuseBeforeWrite
<1>12. CASE FinalityFails(t)
  <2>1. PICK e : Raise(t, e, "unscope") /\ turn[t].pc \in {"finality", "messages"}
    BY <1>12 DEF FinalityFails
  <2> QED  BY <1>12, <2>1, Raises DEF FinalityFails
<1>13. CASE PrepareFails(t)
  <2>1. PICK e : Raise(t, e, "unbind") /\ turn[t].pc \in {"prepare"}
    BY <1>13 DEF PrepareFails
  <2> QED  BY <1>13, <2>1, Raises DEF PrepareFails
<1>14. CASE DispatchFails(t)
  <2>1. PICK e : Raise(t, e, "unbind") /\ turn[t].pc \in {"dispatch"}
    BY <1>14 DEF DispatchFails
  <2> QED  BY <1>14, <2>1, Raises DEF DispatchFails
<1>15. CASE StreamFails(t)
  <2>1. PICK e : Raise(t, e, "unbind") /\ turn[t].pc \in {"stream"}
    BY <1>15 DEF StreamFails
  <2> QED  BY <1>15, <2>1, Raises DEF StreamFails
<1>16. CASE CallbackRaises(t)
  <2>1. PICK e : Raise(t, e, "unbind") /\ turn[t].pc \in {"stream", "poll"}
    BY <1>16 DEF CallbackRaises
  <2> QED  BY <1>16, <2>1, Raises DEF CallbackRaises
<1>17. CASE PollExpires(t)
  <2>1. PICK e : Raise(t, e, "unbind") /\ turn[t].pc \in {"poll"}
    BY <1>17 DEF PollExpires
  <2> QED  BY <1>17, <2>1, Raises DEF PollExpires
<1>18. CASE Headers(t)
  <2>1. CASE \E e : Raise(t, e, "unbind")
    BY <1>18, <2>1, Raises DEF Headers
  <2>2. CASE Become(t, [turn[t] EXCEPT !.started = TRUE, !.pc = "curl"])
    BY <1>18, <1>0, <2>2 DEF Headers, Become, TypeOK, TurnStates
  <2> QED  BY <1>18, <2>1, <2>2 DEF Headers
<1>19. CASE Expire(t)
  BY <1>19, <1>0 DEF Expire, Become, TypeOK, TurnStates
<1>20. CASE Attach(t)
  BY <1>20, <1>0 DEF Attach, Become, TypeOK, TurnStates
<1>21. CASE QueueExpires(t)
  BY <1>21, <1>0 DEF QueueExpires, Become, TypeOK, TurnStates
<1>22. CASE StreamText(t)
  BY <1>22, <1>0 DEF StreamText, Become, TypeOK, TurnStates
<1>23. CASE StreamIdentity(t)
  BY <1>23, <1>0 DEF StreamIdentity, Become, TypeOK, TurnStates
<1>24. CASE StreamNothing(t)
  BY <1>24, <1>0 DEF StreamNothing, Become, TypeOK, TurnStates
<1>25. CASE Recover(t)
  <2>1. CASE \E i : Become(t, [turn[t] EXCEPT !.id = i, !.text = TRUE, !.streamed = FALSE, !.pc = "unbind"])
    BY <1>25, <1>0, <2>1 DEF Recover, Become, TypeOK, TurnStates
  <2>2. CASE Become(t, [turn[t] EXCEPT !.id = NoId, !.streamed = FALSE, !.pc = "poll"])
    BY <1>25, <1>0, <2>2 DEF Recover, Become, TypeOK, TurnStates
  <2> QED  BY <1>25, <2>1, <2>2 DEF Recover
<1>26. CASE PollFinds(t)
  BY <1>26, <1>0 DEF PollFinds, Become, TypeOK, TurnStates
<1>27. CASE ReadMessages(t)
  <2>1. CASE \E e : Raise(t, e, "unscope")
    BY <1>27, <2>1, Raises DEF ReadMessages
  <2>2. CASE \E i, e : Become(t, [turn[t] EXCEPT !.answer = i, !.error = e, !.pc = "unscope"])
    BY <1>27, <1>0, <2>2 DEF ReadMessages, Become, TypeOK, TurnStates
  <2> QED  BY <1>27, <2>1, <2>2 DEF ReadMessages
<1> QED
  BY <1>1, <1>2, <1>3, <1>4, <1>5, <1>6, <1>7, <1>8, <1>9, <1>10, <1>11,
     <1>12, <1>13, <1>14, <1>15, <1>16, <1>17, <1>18, <1>19, <1>20, <1>21, <1>22,
     <1>23, <1>24, <1>25, <1>26, <1>27
     DEF OwnStep, Step, BeforeWrite, AfterWrite

\* The markers of a dispatcher are told apart.
LEMMA Markers ==
  ASSUME NEW t \in Turns
  PROVE  /\ <<"scope", t>> \notin Base /\ <<"bind", t>> \notin Base
         /\ ClassMethod # CallersOwn
BY DEF Base, ClassMethod, CallersOwn

LEMMA OwnStepIsExclusive ==
  ASSUME TypeOK, Exclusive, NEW t \in Turns, OwnStep(t)
  PROVE  Exclusive'
<1> USE DEF At, BoundPCs
<1>0. /\ \A u \in Turns \ {t} : turn'[u] = turn[u]
      /\ NoTurn \notin Turns
  BY OthersStay, BrowserlessAssumption
<1>1. \A u \in Turns \ {t} : Region(u)' = Region(u)
  BY <1>0 DEF Region
<1>2. CASE Acquire(t)
  <2>1. lock = NoTurn /\ lock' = t /\ UNCHANGED <<builder, saved, patched>>
    BY <1>2 DEF Acquire
  <2>2. Region(t)' = "entering"
    BY <1>2, Goes DEF Acquire, Region
  <2> QED  BY <1>0, <1>1, <2>1, <2>2 DEF Exclusive, Dispatching
<1>3. CASE Scope(t)
  <2>1. /\ Region(t) = "entering" /\ Region(t)' = "scoped" /\ UNCHANGED <<lock, patched>>
        /\ builder' = <<"scope", t>> /\ saved' = [saved EXCEPT ![t].scope = builder]
    BY <1>3, Goes, Raises DEF Scope, Region
  <2>2. saved'[t].scope = builder
    BY <2>1 DEF TypeOK
  <2> QED  BY <1>0, <1>1, <2>1, <2>2 DEF Exclusive, Dispatching
<1>4. CASE Bind(t)
  <2>1. /\ Region(t) = "scoped" /\ Region(t)' = "bound" /\ UNCHANGED <<lock, patched>>
        /\ builder' = <<"bind", t>> /\ saved' = [saved EXCEPT ![t].bind = builder]
    BY <1>4, Goes DEF Bind, Region
  <2>2. saved'[t].bind = builder /\ saved'[t].scope = saved[t].scope
    BY <2>1 DEF TypeOK
  <2> QED  BY <1>0, <1>1, <2>1, <2>2 DEF Exclusive, Dispatching
<1>5. CASE Unbind(t)
  <2>1. /\ Region(t) = "bound" /\ Region(t)' = "scoped" /\ UNCHANGED <<lock, saved, patched>>
        /\ builder' = saved[t].bind
    BY <1>5, Goes DEF Unbind, Region
  <2> QED  BY <1>0, <1>1, <2>1 DEF Exclusive, Dispatching
<1>6. CASE Unscope(t)
  <2>1. /\ turn'[t] = Ended(t) /\ turn[t].pc = "unscope" /\ lock' = NoTurn /\ patched' = patched
        /\ builder' = Restored(t)
    BY <1>6, Becomes DEF Unscope
  <2>2. Region(t) = "scoped" /\ Region(t)' = "out"
    BY <2>1 DEF Region, Ended, Fresh
  <2>3. /\ lock = t /\ saved[t].scope \in Base /\ builder \in {<<"scope", t>>, CallersOwn}
        /\ patched = "plain" => builder = CallersOwn \/ saved[t].scope = CallersOwn
    BY <2>2 DEF Exclusive, Dispatching
  <2>4. Restored(t) \in Base /\ (patched = "plain" => Restored(t) = CallersOwn)
    BY <2>3, Markers DEF Restored, Base
  <2> QED  BY <1>0, <1>1, <2>1, <2>2, <2>3, <2>4 DEF Exclusive
<1>7. CASE Region(t)' = Region(t) /\ UNCHANGED <<lock, builder, saved, patched>>
  BY <1>1, <1>7 DEF Exclusive, Dispatching
<1> QED  BY <1>2, <1>3, <1>4, <1>5, <1>6, <1>7, OwnStepMoves

LEMMA ExclusiveStep ==
  ASSUME TypeOK, Exclusive, [Next]_vars
  PROVE  Exclusive'
<1>1. CASE CallerPatches
  <2>1. /\ builder' = CallersOwn /\ \A t \in Turns : Region(t)' = Region(t)
        /\ UNCHANGED <<lock, saved>> /\ patched' # "no" /\ patched = "no"
    BY <1>1 DEF CallerPatches, Region
  <2>2. ASSUME NEW t \in Turns, Region(t) = "bound" PROVE patched' = "bound"
    BY <1>1, <2>2 DEF CallerPatches, Region, Bound, BoundPCs
  <2> QED  BY <2>1, <2>2 DEF Exclusive, Dispatching, Base
<1>2. CASE Server \/ UNCHANGED vars
  <2>1. UNCHANGED <<lock, builder, saved, patched, turn>>
    BY <1>2 DEF Server, Accept, Lose, Complete, OtherWrites, vars
  <2> QED  BY <2>1 DEF Exclusive, Dispatching, Region
<1> QED  BY <1>1, <1>2, OwnStepIsExclusive, NextIsStep

\* No dispatcher of an ended call is left on the client, and a builder that the
\* caller has put there while no binding was there is never lost.
THEOREM BuilderIsRestoredHolds == Spec => []BuilderIsRestored
<1> DEFINE Inv == Typed /\ Exclusive
<1>1. Init => Inv
  BY TypedInit, ExclusiveInit
<1>2. Inv /\ [Next]_vars => Inv'
  BY TypedStep, ExclusiveStep DEF Typed
<1>3. ASSUME Inv PROVE BuilderIsRestored
  <2>1. lock = NoTurn \/ \E t \in Turns : lock = t /\ Region(t) \in {"entering", "scoped", "bound"}
    BY <1>3 DEF Typed, TypeOK, Exclusive, Region
  <2> QED  BY <1>3, <2>1 DEF Exclusive, Dispatching, BuilderIsRestored, Base
<1> QED  BY <1>1, <1>2, <1>3, PTL DEF Spec
=============================================================================
