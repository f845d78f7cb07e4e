----------------------------- MODULE WriteFence -----------------------------
(***************************************************************************)
(* The shared write fence of canonical clients                             *)
(* (browserless_shared_write_fence.py, browserless_request_scope.py): each *)
(* mutating entry point of a client, the browserless transport on it and   *)
(* its conversation health read enter a thread-local mutation authority,   *)
(* then take the client's one re-entrant lock, then read the current       *)
(* parent of the conversation, and only then write.                        *)
(*                                                                         *)
(* Each client has one conversation here.  Callbacks of a running mutation *)
(* may call any entry point of any client; MaxCalls bounds the calls a     *)
(* thread makes on its own.                                                *)
(***************************************************************************)
EXTENDS Naturals, Sequences, FiniteSets

CONSTANTS Threads, Clients, NoThread, MaxCalls

ASSUME WriteFenceAssumption ==
  /\ NoThread \notin Threads
  /\ MaxCalls \in Nat

VARIABLES
  stack,     \* each thread's calls under way, innermost last: its authority stack
  owner,     \* the thread that owns each client's re-entrant lock
  count,     \* how often it has acquired it
  parents,   \* for each message written to each client's conversation, its parent
  calls,     \* how many calls each thread has made on its own
  reports    \* what the browserless requests that ended said of their writes

vars == <<stack, owner, count, parents, calls, reports>>

\* send stands for _send_existing_text_prepared and send_browser_native too;
\* decorated is a send that the application has replaced by a decorator of it.
Surfaces == {"send", "decorated", "approve_pending_action", "send_payload",
             "send_to_conversation", "browserless_request", "browserless_health"}

Refreshing == {"send", "decorated", "approve_pending_action", "browserless_request"}

PCs == {"lock", "refresh", "decorator", "prepare", "stream", "delegate", "read", "exit"}

\* The authority a surface enters is named after the attribute that was called.
AuthorityName(surface) == IF surface = "decorated" THEN "send" ELSE surface

Delegations == {<<"send_to_conversation", "send">>}

\* A call's error: none, one that says that nothing was submitted, any other.
Errors == {"none", "refused", "request"}

\* The current message of the conversation: the last one written.
Current(c) == Len(parents[c])

NewChat == 0        \* the call does not continue the conversation

Frame(c, surface, parent) ==
  [client |-> c, surface |-> surface, pc |-> "lock", parent |-> parent,
   bypass |-> FALSE, writes |-> 0, error |-> "none"]

Init ==
  /\ stack = [t \in Threads |-> <<>>]
  /\ owner = [c \in Clients |-> NoThread]
  /\ count = [c \in Clients |-> 0]
  /\ parents = [c \in Clients |-> <<0>>]
  /\ calls = [t \in Threads |-> 0]
  /\ reports = {}

Busy(t) == stack[t] # <<>>
Top(t) == stack[t][Len(stack[t])]
At(t, place) == Busy(t) /\ Top(t).pc = place
Push(t, frame) == stack' = [stack EXCEPT ![t] = Append(@, frame)]
Pop(t) == SubSeq(stack[t], 1, Len(stack[t]) - 1)

\* The innermost call of t goes on as the record change says.
Advance(t, change) == stack' = [stack EXCEPT ![t][Len(stack[t])] = change]
Goto(t, place) == Advance(t, [Top(t) EXCEPT !.pc = place])
Raise(t, error) == Advance(t, [Top(t) EXCEPT !.pc = "exit", !.error = error])

-----------------------------------------------------------------------------
(* Entering: _mutation_authority, then the lock *)

\* Mutant: only calls on the same client conflict.
SameClientConflict(t, c, surface) ==
  /\ Busy(t)
  /\ Top(t).client = c
  /\ <<AuthorityName(Top(t).surface), AuthorityName(surface)>> \notin Delegations

\* _authority_conflict: the innermost authority of the thread excludes every other
\* one, but for the known delegation on the same client.
Conflict(t, c, surface) ==
  /\ Busy(t)
  /\ ~ /\ Top(t).client = c
       /\ <<AuthorityName(Top(t).surface), AuthorityName(surface)>> \in Delegations

\* The parent a caller passes: none, or the message that is current when it calls,
\* which need not be current any more when the call gets the lock.
Known(c) == {NewChat, Current(c)}

\* A thread calls an entry point on its own.
Call(t, c, surface, parent) ==
  /\ ~Busy(t)
  /\ calls[t] < MaxCalls
  /\ parent \in Known(c)
  /\ Push(t, Frame(c, surface, parent))
  /\ calls' = [calls EXCEPT ![t] = calls[t] + 1]
  /\ UNCHANGED <<owner, count, parents, reports>>

\* Callbacks (on_event, on_token) run while a mutation is prepared and streamed,
\* a decorator's code while it runs.
AtCallback(t) == At(t, "prepare") \/ At(t, "stream") \/ At(t, "decorator")

\* A callback calls an entry point again.  The call is refused, and the callback
\* lets the error through; the guard of the browserless transport makes it an
\* error that says that nothing was submitted.
Nested(t, c, surface, parent) ==
  /\ AtCallback(t)
  /\ parent \in Known(c)
  /\ IF Conflict(t, c, surface)
     THEN Raise(t, IF surface = "browserless_request" THEN "refused" ELSE "request")
     ELSE Push(t, Frame(c, surface, parent))
  /\ UNCHANGED <<owner, count, parents, calls, reports>>

\* Mutant: the lock is not re-entrant.
AcquireOnce(t) ==
  LET c == Top(t).client IN
  /\ At(t, "lock")
  /\ owner[c] = NoThread
  /\ owner' = [owner EXCEPT ![c] = t]
  /\ count' = [count EXCEPT ![c] = count[c] + 1]
  /\ Goto(t, "refresh")
  /\ UNCHANGED <<parents, calls, reports>>

Acquire(t) ==
  LET c == Top(t).client IN
  /\ At(t, "lock")
  /\ owner[c] \in {NoThread, t}
  /\ owner' = [owner EXCEPT ![c] = t]
  /\ count' = [count EXCEPT ![c] = count[c] + 1]
  /\ Goto(t, "refresh")
  /\ UNCHANGED <<parents, calls, reports>>

\* The deadline of a browserless request expires while it waits for the lock.
QueueTimeout(t) ==
  /\ At(t, "lock")
  /\ Top(t).surface = "browserless_request"
  /\ owner[Top(t).client] \notin {NoThread, t}
  /\ stack' = [stack EXCEPT ![t] = Pop(t)]
  /\ reports' = reports \union {[outcome |-> "not_submitted", writes |-> 0]}
  /\ UNCHANGED <<owner, count, parents, calls>>

-----------------------------------------------------------------------------
(* Under the lock *)

\* Mutant: the conversation the caller passed in is used as it is.
UseCallersParent(t) ==
  /\ At(t, "refresh")
  /\ Top(t).surface \in Refreshing
  /\ Goto(t, IF Top(t).surface = "decorated" THEN "decorator" ELSE "prepare")
  /\ UNCHANGED <<owner, count, parents, calls, reports>>

\* _refresh_conversation, or the browserless transport's own attach: the parent is
\* read again.  A decorator may then use the fenced callable it replaced, once.
Refresh(t) ==
  /\ At(t, "refresh")
  /\ Top(t).surface \in Refreshing
  /\ Advance(t, [Top(t) EXCEPT
       !.pc = IF Top(t).surface = "decorated" THEN "decorator" ELSE "prepare",
       !.bypass = Top(t).surface = "decorated",
       !.parent = IF Top(t).parent = NewChat THEN NewChat ELSE Current(Top(t).client)])
  /\ UNCHANGED <<owner, count, parents, calls, reports>>

\* _validate_raw_payload_parent: a stale parent is refused, not replaced.
ValidatePayload(t) ==
  /\ At(t, "refresh")
  /\ Top(t).surface = "send_payload"
  /\ IF Top(t).parent \in {NewChat, Current(Top(t).client)}
     THEN Goto(t, "prepare")
     ELSE Raise(t, "request")
  /\ UNCHANGED <<owner, count, parents, calls, reports>>

\* send_to_conversation attaches and delegates to the client's fenced send.
Attach(t) ==
  /\ At(t, "refresh")
  /\ Top(t).surface = "send_to_conversation"
  /\ Advance(t, [Top(t) EXCEPT !.pc = "delegate", !.parent = Current(Top(t).client)])
  /\ UNCHANGED <<owner, count, parents, calls, reports>>

Delegate(t) ==
  LET outer == [Top(t) EXCEPT !.pc = "exit"] IN
  /\ At(t, "delegate")
  /\ ~Conflict(t, Top(t).client, "send")
  /\ \E surface \in {"send", "decorated"} :
       stack' = [stack EXCEPT ![t] =
                   Append(Append(Pop(t), outer), Frame(outer.client, surface, outer.parent))]
  /\ UNCHANGED <<owner, count, parents, calls, reports>>

\* A health read enters the read, and ends it.
ReadHealth(t) ==
  /\ Busy(t)
  /\ Top(t).surface = "browserless_health"
  /\ \/ At(t, "refresh") /\ Goto(t, "read")
     \/ At(t, "read") /\ Goto(t, "exit")
  /\ UNCHANGED <<owner, count, parents, calls, reports>>

\* A decorator calls the fenced callable it replaced: _consume_allowed_fence_
\* predecessor lets it through once, without entering or locking again.
CallPredecessor(t) ==
  /\ At(t, "decorator")
  /\ Top(t).bypass
  /\ Advance(t, [Top(t) EXCEPT !.pc = "prepare", !.bypass = FALSE])
  /\ UNCHANGED <<owner, count, parents, calls, reports>>

\* The final request goes out; it reaches the conversation or it does not.
Write(t) ==
  LET c == Top(t).client IN
  /\ At(t, "prepare")
  /\ Advance(t, [Top(t) EXCEPT !.pc = "stream", !.writes = @ + 1])
  /\ \/ /\ Top(t).parent # NewChat
        /\ parents' = [parents EXCEPT ![c] = Append(@, Top(t).parent)]
     \/ UNCHANGED parents
  /\ UNCHANGED <<owner, count, calls, reports>>

\* The call returns, to its caller or to the decorator around it.
Return(t) ==
  /\ \/ At(t, "stream") /\ Goto(t, IF Top(t).surface = "decorated" THEN "decorator" ELSE "exit")
     \/ At(t, "decorator") /\ Goto(t, "exit")
  /\ UNCHANGED <<owner, count, parents, calls, reports>>

\* A request under the lock fails, or a callback raises.
Fail(t) ==
  /\ At(t, "refresh") \/ At(t, "read") \/ AtCallback(t)
  /\ Raise(t, "request")
  /\ UNCHANGED <<owner, count, parents, calls, reports>>

\* What a browserless request says of its write: a transport error passes as it is,
\* any other is classified by whether the final request had begun.
Outcome(frame) ==
  IF frame.error = "none" THEN "answer"
  ELSE IF frame.error = "refused" \/ frame.writes = 0 THEN "not_submitted"
  ELSE "maybe_submitted"

ReportsAfter(frame) ==
  reports \union (IF frame.surface = "browserless_request"
                  THEN {[outcome |-> Outcome(frame), writes |-> frame.writes]} ELSE {})

\* The lock is released once, then the authority is left.
Exit(t) ==
  LET c == Top(t).client IN
  /\ At(t, "exit")
  /\ count' = [count EXCEPT ![c] = count[c] - 1]
  /\ owner' = [owner EXCEPT ![c] = IF count[c] = 1 THEN NoThread ELSE t]
  /\ stack' = [stack EXCEPT ![t] = Pop(t)]
  /\ reports' = ReportsAfter(Top(t))
  /\ UNCHANGED <<parents, calls>>

Step(t) ==
  \/ Acquire(t)
  \/ QueueTimeout(t)
  \/ Refresh(t)
  \/ ValidatePayload(t)
  \/ Attach(t)
  \/ Delegate(t)
  \/ ReadHealth(t)
  \/ CallPredecessor(t)
  \/ Write(t)
  \/ Return(t)
  \/ Fail(t)
  \/ Exit(t)

Callback(t) ==
  \E c \in Clients, surface \in Surfaces : \E parent \in Known(c) :
    Nested(t, c, surface, parent)

Begin(t) ==
  \E c \in Clients, surface \in Surfaces : \E parent \in Known(c) :
    Call(t, c, surface, parent)

\* Every thread has made its calls.
AllDone ==
  /\ \A t \in Threads : ~Busy(t) /\ calls[t] = MaxCalls
  /\ UNCHANGED vars

Next == (\E t \in Threads : Begin(t) \/ Step(t) \/ Callback(t)) \/ AllDone

Spec == Init /\ [][Next]_vars

\* A call that can go on does: threads run, requests and streams end.
FairSpec == Spec /\ \A t \in Threads : WF_vars(Step(t))

-----------------------------------------------------------------------------
(* Properties *)

Frames ==
  [client : Clients, surface : Surfaces, pc : PCs, parent : Nat, bypass : BOOLEAN,
   writes : Nat, error : Errors]

Outcomes == {"answer", "not_submitted", "maybe_submitted"}

\* The types of the fence's state.
TypeOK ==
  /\ stack \in [Threads -> Seq(Frames)]
  /\ owner \in [Clients -> Threads \union {NoThread}]
  /\ count \in [Clients -> Nat]
  /\ parents \in [Clients -> Seq(Nat)]
  /\ calls \in [Threads -> 0 .. MaxCalls]
  /\ reports \subseteq [outcome : Outcomes, writes : Nat]

\* A conversation never branches: every message answers the one before it, although
\* the calls that wrote them read their parents before they queued for the lock
\* ("so it cannot create an accidental sibling branch", _refresh_mutation_call).
ConversationIsLinear ==
  \A c \in Clients : \A i \in DOMAIN parents[c] : parents[c][i] = i - 1

\* A thread that waits for a client's lock holds no other client's, so that locks
\* are never waited for in a circle (_fence_callable's comment on AB/BA deadlocks).
NoHoldAndWait ==
  \A t \in Threads :
    At(t, "lock") => \A c \in Clients : owner[c] = t => c = Top(t).client

\* The lock of a client is held by the thread with calls past its acquisition, and
\* once for each of them; so a call never runs without it, a nested one included.
Past(t, c) ==
  {i \in DOMAIN stack[t] : stack[t][i].client = c /\ stack[t][i].pc # "lock"}

LockMatchesCalls ==
  \A c \in Clients, t \in Threads :
    Cardinality(Past(t, c)) = IF owner[c] = t THEN count[c] ELSE 0

\* One call makes one write: a decorator that calls what it replaced twice is
\* refused the second time (_consume_allowed_fence_predecessor).
OneWritePerCall ==
  \A t \in Threads : \A i \in DOMAIN stack[t] : stack[t][i].writes <= 1

\* Whatever the callbacks call, every call of every thread ends.
EveryCallReturns == \A t \in Threads : Busy(t) ~> ~Busy(t)

-----------------------------------------------------------------------------
(* What the code does not keep: see "Seen while modelling" in the README. *)

\* A request that is reported as not submitted has written nothing: "after that
\* point ambiguity is conservative" (docs/browserless_request_transport_pr9_1.md).
NotSubmittedIsProven ==
  \A r \in reports : r.outcome = "not_submitted" => r.writes = 0
=============================================================================
