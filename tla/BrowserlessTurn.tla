--------------------------- MODULE BrowserlessTurn ---------------------------
(***************************************************************************)
(* Turns of the browserless request transport                              *)
(* (browserless_request_transport.py with its guards and scope) and the    *)
(* direct send of the client they drive (client.py): the queue for the     *)
(* client's lock, the canonical parent, the two-phase Sentinel, the        *)
(* prepared binding, the one final write, its stream, the recovery of an   *)
(* answer that was not streamed, and the canonical finality loop.          *)
(*                                                                         *)
(* The server side is what the code relies on: a write that was sent may   *)
(* arrive late or never, other people may continue the conversation, and   *)
(* a canonical read may show the conversation as it was some time ago.     *)
(***************************************************************************)
EXTENDS Naturals, Sequences, FiniteSets

CONSTANTS
  Turns,       \* calls of send_text
  Continuing,  \* those that continue the shared conversation; the others open a chat
  Other,       \* the author of messages that no turn has written
  NoTurn,      \* nobody
  NoId,        \* no message id
  MaxOther     \* how many messages others write into the shared conversation

ASSUME BrowserlessAssumption ==
  /\ Continuing \subseteq Turns
  /\ Other \notin Turns /\ NoTurn \notin Turns
  /\ NoId \notin Nat
  /\ MaxOther \in Nat

VARIABLES
  tree,        \* per conversation the exchanges it holds, oldest first
  wire,        \* each turn's write: "none", "sent", "accepted" or "lost"
  lock,        \* the turn that holds the client's write lock
  builder,     \* the client's _build_headers: what the instance attribute holds
  saved,       \* what each turn's scope and binding found there
  patched,     \* whether the caller has put a builder of its own on the client, and
               \* whether it did so while a turn had its binding there
  turn         \* the local state of each turn

vars == <<tree, wire, lock, builder, saved, patched, turn>>

Shared == "shared"
Conversations == {Shared} \cup Turns
Conversation(t) == IF t \in Continuing THEN Shared ELSE t

\* One exchange: its author's message and the assistant's answer to it, whose id
\* is the index of the exchange.  0 is the root, "client-created-root".
Exchanges == [parent : Nat, author : Turns \cup {Other}, done : BOOLEAN]

PCs == {"idle", "queue", "scope", "attach", "sentinel_prepare", "sentinel_finalize",
        "bind", "prepare", "headers", "curl", "dispatch", "stream", "recover", "poll",
        "unbind", "finality", "messages", "unscope", "end"}

\* What the caller is told; "raw" is an exception that says nothing of the write.
Reports == {"none", "answered", "not_submitted", "reconcile", "raw"}

\* What the instance attribute may hold: nothing (the method of the class), the
\* caller's own, or the dispatcher of a turn's scope or binding.
ClassMethod == <<"class", NoTurn>>
CallersOwn == <<"caller", NoTurn>>
Dispatchers == {ClassMethod, CallersOwn} \cup ({"scope", "bind"} \X Turns)

\* error: none, or a transport error that says whether the write may have been
\* submitted, a RequestError with its stage, or any other exception.
NoError == [kind |-> "none", stage |-> "none", submitted |-> FALSE]
TransportError(submitted) == [kind |-> "transport", stage |-> "none", submitted |-> submitted]
RequestError(stage) == [kind |-> "request", stage |-> stage, submitted |-> FALSE]
OtherError == [kind |-> "other", stage |-> "none", submitted |-> FALSE]
RawError == [kind |-> "raw", stage |-> "none", submitted |-> FALSE]

PrewriteStages == {"canonical_attach", "conversation_prepare", "web_session_bootstrap"}
PostwriteStages == {"conversation_stream", "conversation_write"}
Stages == PrewriteStages \cup PostwriteStages \cup {"none", "browserless_request_deadline"}

Errors == [kind : {"none", "transport", "request", "other", "raw"}, stage : Stages, submitted : BOOLEAN]

TurnStates ==
  [pc : PCs, parent : Nat, started : BOOLEAN, expired : BOOLEAN, error : Errors,
   id : Nat \cup {NoId}, text : BOOLEAN, known : BOOLEAN, handedOff : BOOLEAN,
   streamed : BOOLEAN, answer : Nat, report : Reports]

Fresh ==
  [pc |-> "idle", parent |-> 0, started |-> FALSE, expired |-> FALSE, error |-> NoError,
   id |-> NoId, text |-> FALSE, known |-> FALSE, handedOff |-> FALSE,
   streamed |-> FALSE, answer |-> 0, report |-> "none"]

Init ==
  /\ tree = [c \in Conversations |->
              IF c = Shared THEN <<[parent |-> 0, author |-> Other, done |-> TRUE]>> ELSE <<>>]
  /\ wire = [t \in Turns |-> "none"]
  /\ lock = NoTurn
  /\ builder = ClassMethod
  /\ saved = [t \in Turns |-> [scope |-> ClassMethod, bind |-> ClassMethod]]
  /\ patched = "no"
  /\ turn = [t \in Turns |-> Fresh]

At(t, place) == turn[t].pc = place
Goto(t, place) == turn' = [turn EXCEPT ![t].pc = place]
Become(t, state) == turn' = [turn EXCEPT ![t] = state]
Raise(t, error, place) == Become(t, [turn[t] EXCEPT !.error = error, !.pc = place])
Quiet == UNCHANGED <<tree, wire, lock, builder, saved, patched>>

Size(c) == Len(tree[c])

\* A canonical read shows the conversation as it is, or as it was at an earlier time.
Snapshots(c) == 0 .. Size(c)

-----------------------------------------------------------------------------
(* The server, the other users, and the caller *)

Accept(t) ==
  LET c == Conversation(t) IN
  /\ wire[t] = "sent"
  /\ wire' = [wire EXCEPT ![t] = "accepted"]
  /\ tree' = [tree EXCEPT ![c] = Append(@, [parent |-> turn[t].parent, author |-> t, done |-> FALSE])]
  /\ UNCHANGED <<lock, builder, saved, patched, turn>>

Lose(t) ==
  /\ wire[t] = "sent"
  /\ wire' = [wire EXCEPT ![t] = "lost"]
  /\ UNCHANGED <<tree, lock, builder, saved, patched, turn>>

Complete(c, i) ==
  /\ i \in 1 .. Size(c)
  /\ ~tree[c][i].done
  /\ tree' = [tree EXCEPT ![c][i].done = TRUE]
  /\ UNCHANGED <<wire, lock, builder, saved, patched, turn>>

ByOther == {i \in 1 .. Size(Shared) : tree[Shared][i].author = Other}

\* Somebody else continues the conversation; the first exchange is theirs too.
OtherWrites ==
  /\ Cardinality(ByOther) <= MaxOther
  /\ tree' = [tree EXCEPT ![Shared] =
               Append(@, [parent |-> Size(Shared), author |-> Other, done |-> FALSE])]
  /\ UNCHANGED <<wire, lock, builder, saved, patched, turn>>

Bound(t) == turn[t].pc \in {"prepare", "headers", "curl", "dispatch", "stream",
                            "recover", "poll", "unbind"}

\* The caller puts a builder of its own on the client, once.  It decorates what it
\* finds, so that a binding goes on to see the headers that are built.
CallerPatches ==
  /\ patched = "no"
  /\ builder' = CallersOwn
  /\ patched' = IF \E t \in Turns : Bound(t) THEN "bound" ELSE "plain"
  /\ UNCHANGED <<tree, wire, lock, saved, turn>>

\* Time passes: the deadline of the whole call.
Expire(t) ==
  /\ turn[t].pc \notin {"idle", "end"}
  /\ ~turn[t].expired
  /\ Become(t, [turn[t] EXCEPT !.expired = TRUE])
  /\ Quiet

-----------------------------------------------------------------------------
(* The gate around the call: lock and scope *)

Start(t) == At(t, "idle") /\ Goto(t, "queue") /\ Quiet

QueueExpires(t) ==
  /\ At(t, "queue")
  /\ turn[t].expired
  /\ Become(t, [turn[t] EXCEPT !.pc = "end", !.report = "not_submitted"])
  /\ Quiet

Acquire(t) ==
  /\ At(t, "queue")
  /\ lock = NoTurn
  /\ lock' = t
  /\ Goto(t, "scope")
  /\ UNCHANGED <<tree, wire, builder, saved, patched>>

\* _bind_browserless_request_scope.  An error of the deadline check inside it
\* reaches the caller as it is.
Scope(t) ==
  /\ At(t, "scope")
  /\ saved' = [saved EXCEPT ![t].scope = builder]
  /\ builder' = <<"scope", t>>
  /\ IF turn[t].expired THEN Raise(t, RawError, "unscope") ELSE Goto(t, "attach")
  /\ UNCHANGED <<tree, wire, lock, patched>>

\* Mutant: a generic failure counts as one of the preparation.
PrewriteByDefault(error, started) == error.stage \notin PostwriteStages

\* What the caller is told of an error, _classify_request_error: by its stage where
\* that is known, else by whether the final write had started.
Prewrite(error, started) ==
  \/ error.stage \in PrewriteStages
  \/ error.stage \notin PostwriteStages /\ ~started

MayBeSubmitted(t) ==
  LET error == turn[t].error IN
  CASE error.kind = "transport" -> error.submitted
    [] error.kind = "request" -> ~Prewrite(error, turn[t].started)
    [] OTHER -> turn[t].started

Report(t) ==
  CASE turn[t].error.kind = "none" -> "answered"
    [] turn[t].error.kind = "raw" -> "raw"
    [] OTHER -> IF MayBeSubmitted(t) THEN "reconcile" ELSE "not_submitted"

\* _restore_instance_callable keeps what somebody else has put there meanwhile.
Restored(t) == IF builder = <<"scope", t>> THEN saved[t].scope ELSE builder

\* What is left of a call when it has ended.
Ended(t) ==
  [Fresh EXCEPT !.pc = "end", !.report = Report(t), !.parent = turn[t].parent,
                !.answer = turn[t].answer,
                !.streamed = turn[t].streamed /\ turn[t].answer # 0]

Unscope(t) ==
  /\ At(t, "unscope")
  /\ builder' = Restored(t)
  /\ saved' = [saved EXCEPT ![t] = [scope |-> ClassMethod, bind |-> ClassMethod]]
  /\ lock' = NoTurn
  /\ Become(t, Ended(t))
  /\ UNCHANGED <<tree, wire, patched>>

-----------------------------------------------------------------------------
(* _execute up to the write *)

\* The provider guards, an attach or a Sentinel request that fails, a challenge, an
\* answer of another shape, the deadline: nothing is written.
RefuseBeforeWrite(t) ==
  /\ turn[t].pc \in {"attach", "sentinel_prepare", "sentinel_finalize", "bind"}
  /\ Raise(t, TransportError(FALSE), "unscope")
  /\ Quiet

\* _resolve_conversation, _parent_message_id: the parent is read canonically,
\* whatever conversation object the caller has passed.
Attach(t) ==
  /\ At(t, "attach")
  /\ \E parent \in Snapshots(Conversation(t)) :
       /\ (parent = 0) <=> (t \notin Continuing)
       /\ Become(t, [turn[t] EXCEPT !.parent = parent, !.pc = "sentinel_prepare",
                                    !.known = t \in Continuing])
  /\ Quiet

SentinelPrepare(t) == At(t, "sentinel_prepare") /\ Goto(t, "sentinel_finalize") /\ Quiet
SentinelFinalize(t) == At(t, "sentinel_finalize") /\ Goto(t, "bind") /\ Quiet

\* _bind_current_prepared_write
Bind(t) ==
  /\ At(t, "bind")
  /\ ~turn[t].expired
  /\ saved' = [saved EXCEPT ![t].bind = builder]
  /\ builder' = <<"bind", t>>
  /\ Goto(t, "prepare")
  /\ UNCHANGED <<tree, wire, lock, patched>>

Prepare(t) == At(t, "prepare") /\ Goto(t, "headers") /\ Quiet

\* prepare_text_turn and _get_ready_requirements may fail in any way.
PrepareFails(t) ==
  /\ At(t, "prepare")
  /\ \/ \E stage \in {"conversation_prepare", "none"} : Raise(t, RequestError(stage), "unbind")
     \/ turn[t].expired /\ Raise(t, RequestError("browserless_request_deadline"), "unbind")
     \/ Raise(t, OtherError, "unbind")
  /\ Quiet

\* build_headers for the final write: from here on a failure is ambiguous.
Headers(t) ==
  /\ At(t, "headers")
  /\ IF turn[t].expired
     THEN Raise(t, TransportError(FALSE), "unbind")
     ELSE Become(t, [turn[t] EXCEPT !.started = TRUE, !.pc = "curl"])
  /\ Quiet

\* build_curl_command of the scope, then of the binding, check the deadline again.
Curl(t) ==
  /\ At(t, "curl")
  /\ IF turn[t].expired
     THEN \/ Raise(t, RequestError("browserless_request_deadline"), "unbind")
          \/ Raise(t, TransportError(turn[t].started), "unbind")
     ELSE Goto(t, "dispatch")
  /\ Quiet

Dispatch(t) ==
  /\ At(t, "dispatch")
  /\ wire' = [wire EXCEPT ![t] = "sent"]
  /\ Goto(t, "stream")
  /\ UNCHANGED <<tree, lock, builder, saved, patched>>

DispatchFails(t) == At(t, "dispatch") /\ Raise(t, OtherError, "unbind") /\ Quiet

-----------------------------------------------------------------------------
(* ChatGPTWebClient.send: the stream of the write *)

Own(t) == CHOOSE i \in 1 .. Size(Conversation(t)) : tree[Conversation(t)][i].author = t

\* Tokens carry the id of their message; a handoff to the WebSocket topic may have
\* been followed to its end, or have failed half way.
StreamText(t) ==
  /\ At(t, "stream")
  /\ wire[t] = "accepted"
  /\ \E handedOff \in BOOLEAN :
       Become(t, [turn[t] EXCEPT !.id = Own(t), !.text = TRUE, !.known = TRUE, !.streamed = TRUE,
                                 !.handedOff = handedOff, !.pc = "recover"])
  /\ Quiet

\* A message was announced, but none of its text.
StreamIdentity(t) ==
  /\ At(t, "stream")
  /\ wire[t] = "accepted"
  /\ \E handedOff \in BOOLEAN :
       Become(t, [turn[t] EXCEPT !.id = Own(t), !.known = TRUE, !.streamed = TRUE,
                                 !.handedOff = handedOff, !.pc = "recover"])
  /\ Quiet

\* Nothing but perhaps the conversation: the message id is that of the parent.
StreamNothing(t) ==
  /\ At(t, "stream")
  /\ \E known \in {turn[t].known, wire[t] = "accepted"}, handedOff \in BOOLEAN :
       Become(t, [turn[t] EXCEPT !.id = turn[t].parent, !.known = turn[t].known \/ known,
                                 !.handedOff = handedOff, !.pc = "recover"])
  /\ Quiet

\* curl fails or times out, the backend refuses, an event carries an error.
StreamFails(t) == At(t, "stream") /\ Raise(t, RequestError("none"), "unbind") /\ Quiet

\* A callback raises while tokens are delivered; within a handoff its error is
\* swallowed, and the stream goes on.
CallbackRaises(t) ==
  /\ turn[t].pc \in {"stream", "poll"}
  /\ Raise(t, OtherError, "unbind")
  /\ Quiet

-----------------------------------------------------------------------------
(* Recovery of an answer that was not streamed *)

\* The path from an exchange back to the root.
Branch(c, i) ==
  LET branch[k \in 0 .. i] == IF k = 0 THEN {} ELSE {k} \cup branch[tree[c][k].parent]
  IN branch[i]

\* _latest_branch_assistant_response of a completed conversation: its current
\* message, if that comes after the parent; a new chat has no parent to come after.
Recoverable(t, i) ==
  /\ i # 0
  /\ tree[Conversation(t)][i].done
  /\ i # turn[t].parent
  /\ t \in Continuing => turn[t].parent \in Branch(Conversation(t), i)

NeedsRecovery(t) == ~turn[t].handedOff /\ turn[t].known /\ ~turn[t].text

SkipRecovery(t) == At(t, "recover") /\ ~NeedsRecovery(t) /\ Goto(t, "unbind") /\ Quiet

\* One read of the conversation.  Whatever the stream said of the message is
\* replaced by what is found, be it nothing.
Recover(t) ==
  /\ At(t, "recover")
  /\ NeedsRecovery(t)
  /\ \E i \in Snapshots(Conversation(t)) :
       IF Recoverable(t, i)
       THEN Become(t, [turn[t] EXCEPT !.id = i, !.text = TRUE, !.streamed = FALSE, !.pc = "unbind"])
       ELSE Become(t, [turn[t] EXCEPT !.id = NoId, !.streamed = FALSE, !.pc = "poll"])
  /\ Quiet

\* The read fails, at the deadline in any case; the error is swallowed.
RecoverFails(t) == At(t, "recover") /\ NeedsRecovery(t) /\ Goto(t, "poll") /\ Quiet

\* _poll_conversation_after_prepare
PollFinds(t) ==
  /\ At(t, "poll")
  /\ \E i \in Snapshots(Conversation(t)) :
       /\ Recoverable(t, i)
       /\ Become(t, [turn[t] EXCEPT !.id = i, !.text = TRUE, !.streamed = FALSE, !.pc = "unbind"])
  /\ Quiet

\* Mutant: a poll that has found nothing is tried again.
PollAgain(t) == At(t, "poll") /\ Goto(t, "recover") /\ Quiet

\* Its own timeout ends the poll; the send returns what it has.
PollGivesUp(t) == At(t, "poll") /\ Goto(t, "unbind") /\ Quiet

\* The binding refuses to poll after the deadline.
PollExpires(t) ==
  /\ At(t, "poll")
  /\ turn[t].expired
  /\ Raise(t, TransportError(turn[t].started), "unbind")
  /\ Quiet

\* Mutant: a send that has raised leaves its binding in place.
UnbindReturns(t) ==
  /\ At(t, "unbind")
  /\ builder' = IF turn[t].error = NoError THEN saved[t].bind ELSE builder
  /\ Goto(t, IF turn[t].error = NoError THEN "finality" ELSE "unscope")
  /\ UNCHANGED <<tree, wire, lock, saved, patched>>

\* The binding is undone, whatever has replaced it meanwhile.
Unbind(t) ==
  /\ At(t, "unbind")
  /\ builder' = saved[t].bind
  /\ Goto(t, IF turn[t].error = NoError THEN "finality" ELSE "unscope")
  /\ UNCHANGED <<tree, wire, lock, saved, patched>>

-----------------------------------------------------------------------------
(* _canonical_finalize, with the guard that ties it to the submitted message *)

\* No message or conversation to wait for, a read that fails, or the deadline.
FinalityFails(t) ==
  /\ turn[t].pc \in {"finality", "messages"}
  /\ Raise(t, TransportError(TRUE), "unscope")
  /\ Quiet

\* A completed conversation counts only when its current message is the submitted one.
Completed(t, i) == i # 0 /\ tree[Conversation(t)][i].done /\ i = turn[t].id

ReadStatus(t) ==
  /\ At(t, "finality")
  /\ turn[t].id # NoId /\ turn[t].known
  /\ \E i \in Snapshots(Conversation(t)) : Completed(t, i)
  /\ Goto(t, "messages")
  /\ Quiet

\* The latest assistant message of a snapshot: its current one, or the one before
\* as long as the current one has no text.
LatestAssistant(c, i) ==
  IF i = 0 THEN {0} ELSE IF tree[c][i].done THEN {i} ELSE {i, tree[c][i].parent}

\* Mutant: it is enough that the conversation has advanced.
AcceptedAdvance(t, i) == i # 0 /\ i # turn[t].parent

Accepted(t, i) == i # 0 /\ i # turn[t].parent /\ i = turn[t].id

\* The messages are read after the status; meanwhile the conversation may go on.
ReadMessages(t) ==
  LET c == Conversation(t) IN
  /\ At(t, "messages")
  /\ \E i \in Snapshots(c) : \E latest \in LatestAssistant(c, i) :
       IF Accepted(t, latest)
       THEN \E error \in {NoError, RawError} :   \* the final event's callback may raise
              Become(t, [turn[t] EXCEPT !.answer = latest, !.error = error, !.pc = "unscope"])
       ELSE Raise(t, TransportError(TRUE), "unscope")
  /\ Quiet

-----------------------------------------------------------------------------

BeforeWrite(t) ==
  \/ QueueExpires(t) \/ Acquire(t) \/ Scope(t) \/ RefuseBeforeWrite(t) \/ Attach(t)
  \/ SentinelPrepare(t) \/ SentinelFinalize(t) \/ Bind(t) \/ Prepare(t) \/ PrepareFails(t)
  \/ Headers(t) \/ Curl(t) \/ Dispatch(t) \/ DispatchFails(t)

AfterWrite(t) ==
  \/ StreamText(t) \/ StreamIdentity(t) \/ StreamNothing(t) \/ StreamFails(t) \/ CallbackRaises(t)
  \/ SkipRecovery(t) \/ Recover(t) \/ RecoverFails(t)
  \/ PollFinds(t) \/ PollGivesUp(t) \/ PollExpires(t)
  \/ Unbind(t) \/ FinalityFails(t) \/ ReadStatus(t) \/ ReadMessages(t) \/ Unscope(t)

Step(t) == BeforeWrite(t) \/ AfterWrite(t)

Server ==
  \/ \E t \in Turns : Accept(t) \/ Lose(t)
  \/ \E c \in Conversations : \E i \in 1 .. Size(c) : Complete(c, i)
  \/ OtherWrites

Environment == Server \/ CallerPatches

AllEnded ==
  /\ \A t \in Turns : At(t, "end")
  /\ UNCHANGED vars

Next ==
  \/ \E t \in Turns : Start(t) \/ Expire(t) \/ Step(t)
  \/ Environment
  \/ AllEnded

Spec == Init /\ [][Next]_vars

\* Time passes, and a call that can go on does: each request ends by curl's
\* --max-time, each wait by the deadline of the call.
FairSpec == Spec /\ \A t \in Turns : WF_vars(Expire(t)) /\ WF_vars(Step(t))

-----------------------------------------------------------------------------
(* Properties *)

TypeOK ==
  /\ tree \in [Conversations -> Seq(Exchanges)]
  /\ wire \in [Turns -> {"none", "sent", "accepted", "lost"}]
  /\ lock \in Turns \cup {NoTurn}
  /\ builder \in Dispatchers
  /\ saved \in [Turns -> [scope : Dispatchers, bind : Dispatchers]]
  /\ patched \in {"no", "plain", "bound"}
  /\ turn \in [Turns -> TurnStates]

\* A turn that is answered returns a message that is complete and is not the one it
\* continued from.  If the stream has identified the message, it is the answer to
\* this turn, although other people and late writes may have continued the
\* conversation between the stream, the status read and the read of the messages.
AnswerIsFinal ==
  \A t \in Turns : turn[t].report = "answered" =>
    /\ turn[t].answer \in 1 .. Size(Conversation(t))
    /\ turn[t].answer # turn[t].parent
    /\ LET exchange == tree[Conversation(t)][turn[t].answer] IN
         exchange.done /\ (turn[t].streamed => exchange.author = t)

\* When no call holds the client, no dispatcher of an ended call is left on it, and
\* a builder that the caller has put on the client while no binding was there is
\* not lost: it is on the client or saved by the call under way.
BuilderIsRestored ==
  /\ lock = NoTurn => builder \in {ClassMethod, CallersOwn}
  /\ patched = "plain" =>
       \/ builder = CallersOwn
       \/ \E t \in Turns : lock = t /\ CallersOwn \in {saved[t].scope, saved[t].bind}

\* A turn that is reported as not submitted has not sent its write, whichever error
\* ended it, at whichever stage.
NotSubmittedIsRight ==
  \A t \in Turns : turn[t].report = "not_submitted" => wire[t] = "none"

\* Every call that has begun ends.
EveryTurnEnds == \A t \in Turns : At(t, "queue") ~> At(t, "end")

\* The transport keeps the contract of a turn.
Written == {t \in Turns : wire[t] # "none"}
Contract == INSTANCE TurnContract WITH
  written <- Written, report <- [t \in Turns |-> turn[t].report]
KeepsContract == Contract!Spec

-----------------------------------------------------------------------------
(* What the code does not keep: see "Seen while modelling" in the README. *)

\* Every answer belongs to the turn, which the canonical finality guard promises
\* ("Require completion and readback to identify the submitted assistant").
AnswerIsOwn ==
  \A t \in Turns : turn[t].report = "answered" =>
    tree[Conversation(t)][turn[t].answer].author = t
=============================================================================
