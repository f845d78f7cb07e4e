------------------------------ MODULE Approvals ------------------------------
(***************************************************************************)
(* Tool approvals without a browser (client.py, policy_approval.py,        *)
(* approval_policy.py, status.py, wait.py): approve_pending_action, the    *)
(* loop wait_and_approve_pending_actions, send_and_auto_approve and        *)
(* wait_until_completed, called on several threads of one client about one *)
(* conversation, while its user answers cards and edits in the browser.    *)
(*                                                                         *)
(* The policy of a call is not passed down to the code it guards: the      *)
(* wrappers put it on the client object, in front of the callables finder  *)
(* and waiter stand for, and put back what they found there.               *)
(***************************************************************************)
EXTENDS Integers, Sequences, FiniteSets, FiniteSetsExt

CONSTANTS
  Callers, Recipients,
  CardKinds,     \* <<recipient, does it only read>> of the cards that are posted
  Policies,      \* the ApprovalPolicy objects the application passes
  NoPolicy,      \* policy=None
  Plans,         \* each a function from Callers to the call it makes
  Fenced,        \* the client carries the shared write fence
  NoCaller, NoRecipient, MaxNodes, MaxEdits

PolicyFields == [allowed : SUBSET Recipients, denied : SUBSET Recipients,
                 auto : BOOLEAN, manual : BOOLEAN]

Calls == [op : {"approve", "wait", "auto", "until"},
          policy : Policies \cup {NoPolicy}, rounds : Nat]

ASSUME ApprovalsAssumption ==
  /\ CardKinds \subseteq Recipients \X BOOLEAN
  /\ Policies \subseteq {p \in PolicyFields : p.allowed \cap p.denied = {}}
  /\ NoPolicy \notin PolicyFields
  /\ Plans \subseteq [Callers -> Calls]
  /\ Fenced \in BOOLEAN
  /\ NoCaller \notin Callers /\ NoRecipient \notin Recipients
  /\ MaxNodes \in Nat /\ MaxEdits \in Nat

VARIABLES
  nodes,    \* the conversation's mapping, in the order of create_time
  current,  \* its current node
  async,    \* the conversation list shows an asynchronous task
  late,     \* the cards whose allow message failed at the client, but may arrive
  edits,    \* how often the user has edited an earlier message
  finder,   \* the guards in front of _latest_confirm_action_leaf, innermost first
  waiter,   \* the wrappers in front of wait_and_approve_pending_actions
  lock,     \* the holder of the write fence
  plan, call

server == <<nodes, current, async, late, edits>>
vars == <<nodes, current, async, late, edits, finder, waiter, lock, plan, call>>

-----------------------------------------------------------------------------
(* ApprovalPolicy                                                          *)

DefaultPolicy == [allowed |-> {}, denied |-> {}, auto |-> FALSE, manual |-> TRUE]

Evaluate(policy, recipient, readOnly) ==
  CASE recipient \in policy.denied  -> "recipient_denied"
    [] recipient \in policy.allowed /\ recipient \notin policy.denied
                                    -> "recipient_allowed"
    [] OTHER -> IF readOnly
                THEN IF policy.auto THEN "read_only_auto_approved"
                                    ELSE "read_only_auto_approve_disabled"
                ELSE IF policy.manual THEN "manual_required_for_unknown_recipient"
                                      ELSE "unknown_recipient_denied"

Allows(policy, card) ==
  Evaluate(policy, card.recipient, card.readOnly)
    \in {"recipient_allowed", "read_only_auto_approved"}

-----------------------------------------------------------------------------
(* The conversation's mapping                                              *)

Node(kind, parent, recipient, readOnly, by) ==
  [kind |-> kind, parent |-> parent, recipient |-> recipient,
   readOnly |-> readOnly, by |-> by]

\* "late" is an allow message whose stream had broken before it arrived.
Kinds == {"user", "partial", "final", "card", "allow", "late", "answer"}

Message(kind, parent) == Node(kind, parent, NoRecipient, FALSE, NoCaller)

Ids == 1 .. Len(nodes)
Latest(ids) == IF ids = {} THEN 0 ELSE Max(ids)

Branch(id) ==
  LET upTo[n \in 0 .. Len(nodes)] ==
        IF n = 0 THEN {} ELSE {n} \cup upTo[nodes[n].parent]
  IN upTo[id]

IsLeaf(id) == \A n \in Ids : nodes[n].parent # id

\* The latest card nobody has answered, on any branch of the mapping.
ConfirmActionLeaf == Latest({n \in Ids : nodes[n].kind = "card" /\ IsLeaf(n)})

\* The one get_pending_approval sees: it looks at the current branch only.
PendingApproval == IF nodes[current].kind = "card" /\ IsLeaf(current) THEN current ELSE 0

Assistants(ids) == {n \in ids : nodes[n].kind \in {"partial", "final"}}

Status ==
  CASE PendingApproval # 0                -> "awaiting_tool_approval"
    [] nodes[current].kind = "user"       -> "user_last_message"
    [] nodes[current].kind = "partial"    -> "running"
    [] nodes[current].kind = "final"      -> "completed"
    [] OTHER                              -> "tool_running"

\* With nothing after the card on the current branch the latest assistant
\* message of the whole mapping is taken.
BranchResponse(card) ==
  LET after == {n \in Branch(current) : n > card}
  IN IF card \in Branch(current) /\ after # {} THEN Latest(Assistants(after))
                                               ELSE Latest(Assistants(Ids))

-----------------------------------------------------------------------------
(* The calls                                                               *)

PCs == {"start", "send", "find", "enter", "look", "idle", "fence", "read", "prepare",
        "stream", "poll", "status", "message", "approval", "done"}

Results == {"none", "answer", "idle", "rounds", "completed", "approval", "denied",
            "poll_timeout", "wait_timeout", "error", "type_error", "elsewhere"}

\* What a read of the conversation has shown: a message, whether it was complete,
\* whether the card being approved had left the current branch, whether the current
\* message was an assistant's.
Nothing == [msg |-> 0, whole |-> FALSE, strayed |-> FALSE, quiet |-> FALSE]

Fresh == [pc |-> "start", policy |-> NoPolicy, card |-> 0, round |-> 0,
          finder |-> <<>>, waiter |-> <<>>, seen |-> Nothing, result |-> "none"]

Init ==
  /\ nodes = <<Message("user", 0)>> /\ current = 1 /\ async \in BOOLEAN
  /\ late = {} /\ edits = 0
  /\ finder = <<>> /\ waiter = <<>> /\ lock = NoCaller
  /\ plan \in Plans
  /\ call = [c \in Callers |-> Fresh]

At(c, pc) == call[c].pc = pc

Become(c, new) == call' = [call EXCEPT ![c] = new]

Go(c, pc) == Become(c, [call[c] EXCEPT !.pc = pc])

See(id, card) ==
  [msg |-> id, whole |-> id # 0 /\ nodes[id].kind = "final",
   strayed |-> card # 0 /\ card \notin Branch(current),
   quiet |-> nodes[current].kind \in {"partial", "final"}]

\* The call returns or raises: send_and_auto_approve puts the waiter back.
Finish(c, result, seen) ==
  /\ Become(c, [call[c] EXCEPT !.pc = "done", !.result = result, !.seen = seen])
  /\ waiter' = IF plan[c].op = "auto" THEN call[c].waiter ELSE waiter
  /\ UNCHANGED <<server, finder, lock, plan>>

\* approve_pending_action puts the finder back and leaves the fence.
LeaveApproval(c) ==
  /\ finder' = IF call[c].policy = NoPolicy THEN finder ELSE call[c].finder
  /\ lock' = NoCaller
  /\ UNCHANGED plan

\* ... and the whole call returns or raises with it.
EndApproval(c, result, seen) ==
  /\ LeaveApproval(c)
  /\ Become(c, [call[c] EXCEPT !.pc = "done", !.result = result, !.seen = seen])
  /\ waiter' = IF plan[c].op = "auto" THEN call[c].waiter ELSE waiter

Start(c) ==
  /\ At(c, "start")
  /\ CASE plan[c].op = "approve" ->
            /\ Become(c, [call[c] EXCEPT !.pc = "fence", !.policy = plan[c].policy])
            /\ UNCHANGED waiter
       [] plan[c].op = "auto" ->
            LET policy == IF plan[c].policy = NoPolicy THEN DefaultPolicy
                                                       ELSE plan[c].policy
            IN /\ Become(c, [call[c] EXCEPT !.pc = "send", !.waiter = waiter])
               /\ waiter' = Append(waiter, policy)
       [] plan[c].op = "wait"  -> Go(c, "enter") /\ UNCHANGED waiter
       [] plan[c].op = "until" -> Go(c, "status") /\ UNCHANGED waiter
  /\ UNCHANGED <<server, finder, lock, plan>>

-----------------------------------------------------------------------------
(* send_and_auto_approve                                                   *)

\* The prompt is sent under the fence (WriteFence and PreparedSend have its steps);
\* the response may lack the identity of the new conversation.
Send(c) ==
  /\ At(c, "send") /\ (Fenced => lock = NoCaller)
  /\ Len(nodes) < MaxNodes - 2
  /\ nodes' = Append(nodes, Message("user", current))
  /\ current' = Len(nodes) + 1
  /\ \E pc \in {"enter", "find"} : Go(c, pc)
  /\ UNCHANGED <<async, late, edits, finder, waiter, lock, plan>>

SendFails(c) == At(c, "send") /\ (Fenced => lock = NoCaller) /\ Finish(c, "error", Nothing)

\* The conversation list shows it, or a conversation that somebody else has begun
\* since, or nothing new before new_chat_timeout.
Discover(c) ==
  /\ At(c, "find")
  /\ \/ Go(c, "enter") /\ UNCHANGED <<server, finder, waiter, lock, plan>>
     \/ \E result \in {"elsewhere", "error"} : Finish(c, result, Nothing)

-----------------------------------------------------------------------------
(* wait_and_approve_pending_actions                                        *)

\* Calling self.wait_and_approve_pending_actions: one wrapper supplies its policy; a
\* policy that is passed through a wrapper, or a second wrapper, is passed twice.
Enter(c) ==
  /\ At(c, "enter")
  /\ LET passed == plan[c].op = "wait" /\ plan[c].policy # NoPolicy
         EnterWith(policy) ==
           /\ Become(c, [call[c] EXCEPT !.pc = "look", !.policy = policy])
           /\ UNCHANGED <<server, finder, waiter, lock, plan>>
     IN \/ waiter = <<>> /\ EnterWith(IF passed THEN plan[c].policy ELSE DefaultPolicy)
        \/ Len(waiter) = 1 /\ ~passed /\ EnterWith(waiter[1])
        \/ Len(waiter) + (IF passed THEN 1 ELSE 0) > 1
             /\ Finish(c, "type_error", Nothing)

Denied(card) == card # 0 /\ \E i \in 1 .. Len(finder) : ~Allows(finder[i], nodes[card])

RoundsUsed(c) == plan[c].rounds > 0 /\ call[c].round >= plan[c].rounds

Look(c) ==
  /\ At(c, "look")
  /\ LET card == ConfirmActionLeaf
     IN \/ Denied(card) /\ Finish(c, "denied", Nothing)
        \/ /\ card # 0 /\ ~Denied(card)
           /\ Become(c, [call[c] EXCEPT !.pc = "fence", !.round = @ + 1])
           /\ UNCHANGED <<server, finder, waiter, lock, plan>>
        \/ card = 0 /\ RoundsUsed(c) /\ Finish(c, "rounds", Nothing)
        \/ /\ card = 0 /\ ~RoundsUsed(c)
           /\ Become(c, [call[c] EXCEPT !.pc = "idle",
                                        !.seen = See(Latest(Assistants(Ids)), 0)])
           /\ UNCHANGED <<server, finder, waiter, lock, plan>>

\* The conversation list is read after the payload that is judged with it; a
\* verify() of the application may reject the outcome.
Idle(c) ==
  /\ At(c, "idle")
  /\ IF ~async /\ call[c].seen.quiet
     THEN \E result \in {"idle", "error"} : Finish(c, result, call[c].seen)
     ELSE Go(c, "look") /\ UNCHANGED <<server, finder, waiter, lock, plan>>

ReadFails(c) ==
  /\ At(c, "look") \/ At(c, "idle") \/ At(c, "status") \/ At(c, "message")
       \/ At(c, "approval")
  /\ Finish(c, "error", Nothing)

-----------------------------------------------------------------------------
(* approve_pending_action                                                  *)

\* Mutant: the fence does not exclude other approvals.
EnterUnfenced(c) ==
  /\ At(c, "fence")
  /\ lock' = c
  /\ Become(c, [call[c] EXCEPT !.pc = "read", !.finder = finder])
  /\ finder' = IF call[c].policy = NoPolicy THEN finder ELSE Append(finder, call[c].policy)
  /\ UNCHANGED <<server, waiter, plan>>

\* The fence is taken, the conversation refreshed, and the guard installed.
EnterApproval(c) ==
  /\ At(c, "fence")
  /\ Fenced => lock = NoCaller
  /\ lock' = IF Fenced THEN c ELSE lock
  /\ Become(c, [call[c] EXCEPT !.pc = "read", !.finder = finder])
  /\ finder' = IF call[c].policy = NoPolicy THEN finder ELSE Append(finder, call[c].policy)
  /\ UNCHANGED <<server, waiter, plan>>

\* Mutant: the card is found again without the guards.
ReadUnjudged(c) ==
  /\ At(c, "read") /\ ConfirmActionLeaf # 0
  /\ Become(c, [call[c] EXCEPT !.pc = "prepare", !.card = ConfirmActionLeaf])
  /\ UNCHANGED <<server, finder, waiter, lock, plan>>

\* The card is looked for again, and the guards in front of the finder judge it.
Read(c) ==
  /\ At(c, "read")
  /\ LET card == ConfirmActionLeaf
     IN IF card # 0 /\ ~Denied(card)
        THEN /\ Become(c, [call[c] EXCEPT !.pc = "prepare", !.card = card])
             /\ UNCHANGED <<server, finder, waiter, lock, plan>>
        ELSE /\ EndApproval(c, IF Denied(card) THEN "denied" ELSE "error", Nothing)
             /\ UNCHANGED server

Prepare(c) ==
  At(c, "prepare") /\ Go(c, "stream") /\ UNCHANGED <<server, finder, waiter, lock, plan>>

\* The conversation cannot be read, prepared, or the write is refused.
ApprovalFails(c) ==
  /\ At(c, "read") \/ At(c, "prepare") \/ At(c, "stream")
  /\ EndApproval(c, "error", Nothing)
  /\ UNCHANGED server

AllowMessage(kind, c, card) == Node(kind, card, NoRecipient, FALSE, c)

Stream(c) ==
  /\ At(c, "stream")
  /\ Len(nodes) < MaxNodes - 1
  /\ nodes' = Append(nodes, AllowMessage("allow", c, call[c].card))
  /\ current' = Len(nodes) + 1
  /\ Go(c, "poll")
  /\ UNCHANGED <<async, late, edits, finder, waiter, lock, plan>>

\* The stream breaks: the message may arrive later, or never.
StreamBreaks(c) ==
  /\ At(c, "stream")
  /\ late' = late \cup {<<c, call[c].card>>}
  /\ EndApproval(c, "error", Nothing)
  /\ UNCHANGED <<nodes, current, async, edits>>

AfterApproval(c, seen) ==
  /\ UNCHANGED server
  /\ IF plan[c].op = "approve" \/ RoundsUsed(c)
     THEN EndApproval(c, "answer", seen)
     ELSE /\ LeaveApproval(c)
          /\ Become(c, [call[c] EXCEPT !.pc = "look", !.seen = seen])
          /\ UNCHANGED waiter

\* Mutant: any message after the card ends the poll.
PollAnything(c) ==
  /\ At(c, "poll")
  /\ LET response == BranchResponse(call[c].card)
     IN response # 0 /\ AfterApproval(c, See(response, call[c].card))

\* One poll: it ends on a completed conversation only.
Poll(c) ==
  /\ At(c, "poll")
  /\ LET response == BranchResponse(call[c].card)
     IN /\ Status = "completed" /\ response # 0
        /\ AfterApproval(c, See(response, call[c].card))

\* Mutant: the deadline is looked at only while no card is waiting.
PollPatiently(c) ==
  /\ At(c, "poll") /\ PendingApproval = 0
  /\ EndApproval(c, "poll_timeout", See(PendingApproval, call[c].card))
  /\ UNCHANGED server

\* A poll shows anything else, or fails, and poll_timeout has passed.  (A poll
\* before that changes nothing.)
PollTimesOut(c) ==
  /\ At(c, "poll")
  /\ EndApproval(c, "poll_timeout", See(PendingApproval, call[c].card))
  /\ UNCHANGED server

-----------------------------------------------------------------------------
(* wait_until_completed                                                    *)

ReadStatus(c) ==
  /\ At(c, "status")
  /\ \/ Status = "completed" /\ Become(c, [call[c] EXCEPT !.pc = "message", !.card = current])
     \/ Status = "awaiting_tool_approval" /\ Go(c, "approval")
  /\ UNCHANGED <<server, finder, waiter, lock, plan>>

StatusTimesOut(c) ==
  /\ At(c, "status") /\ Status \notin {"completed", "awaiting_tool_approval"}
  /\ Finish(c, "wait_timeout", Nothing)

\* The message of the status if it is still on the branch, else the branch's latest.
ReadMessage(c) ==
  /\ At(c, "message")
  /\ LET mine == {call[c].card} \cap Branch(current)
     IN Finish(c, "completed",
               See(Latest(IF mine # {} THEN mine ELSE Assistants(Branch(current))),
                   call[c].card))

ReadApproval(c) ==
  At(c, "approval") /\ Finish(c, "approval", See(PendingApproval, 0))

-----------------------------------------------------------------------------
(* The backend and the user in the browser                                 *)

Extend(kind, parent, recipient, readOnly) ==
  /\ nodes' = Append(nodes, Node(kind, parent, recipient, readOnly, NoCaller))
  /\ current' = Len(nodes) + 1

Running == nodes[current].kind \in {"user", "allow", "late", "answer"}

Answer == Running /\ Extend("partial", current, NoRecipient, FALSE)
            /\ UNCHANGED <<async, late, edits>>

CompleteMessage ==
  /\ nodes[current].kind = "partial"
  /\ nodes' = [nodes EXCEPT ![current].kind = "final"]
  /\ UNCHANGED <<current, async, late, edits>>

PostCard ==
  /\ Running \/ nodes[current].kind = "final"
  /\ Len(nodes) < MaxNodes - 2
  /\ \E k \in CardKinds : Extend("card", current, k[1], k[2])
  /\ UNCHANGED <<async, late, edits>>

UserAnswers ==
  /\ PendingApproval # 0 /\ Len(nodes) < MaxNodes - 1
  /\ Extend("answer", current, NoRecipient, FALSE)
  /\ UNCHANGED <<async, late, edits>>

UserEdits ==
  /\ edits < MaxEdits /\ Len(nodes) < MaxNodes - 1
  /\ \E n \in Ids : nodes[n].kind = "user" /\ Extend("user", nodes[n].parent, NoRecipient, FALSE)
  /\ edits' = edits + 1
  /\ UNCHANGED <<async, late>>

LateAllow ==
  \E w \in late :
    /\ late' = late \ {w}
    /\ IF Len(nodes) < MaxNodes - 1
       THEN /\ nodes' = Append(nodes, AllowMessage("late", w[1], w[2]))
            /\ current' = Len(nodes) + 1
       ELSE UNCHANGED <<nodes, current>>
    /\ UNCHANGED <<async, edits>>

TaskEnds == async /\ async' = FALSE /\ UNCHANGED <<nodes, current, late, edits>>

-----------------------------------------------------------------------------
(* The specification                                                       *)

Approving(c) ==
  EnterApproval(c) \/ Read(c) \/ Prepare(c) \/ Stream(c) \/ ApprovalFails(c)
    \/ StreamBreaks(c) \/ Poll(c) \/ PollTimesOut(c)

Waiting(c) == Enter(c) \/ Look(c) \/ Idle(c)

Step(c) ==
  Start(c) \/ Send(c) \/ SendFails(c) \/ Discover(c) \/ Waiting(c) \/ ReadFails(c)
    \/ Approving(c) \/ ReadStatus(c) \/ StatusTimesOut(c) \/ ReadMessage(c)
    \/ ReadApproval(c)

Backend ==
  /\ Answer \/ CompleteMessage \/ PostCard \/ UserAnswers \/ UserEdits \/ LateAllow
       \/ TaskEnds
  /\ UNCHANGED <<finder, waiter, lock, plan, call>>

Next == (\E c \in Callers : Step(c)) \/ Backend

Spec == Init /\ [][Next]_vars

\* Threads run, a conversation that runs ends up in a message or a card, and the
\* tasks shown in the conversation list end.
FairSpec ==
  /\ Spec
  /\ \A c \in Callers : WF_vars(Step(c)) /\ WF_vars(Waiting(c))
                          /\ WF_vars(PollTimesOut(c))
  /\ WF_vars((Answer \/ CompleteMessage \/ TaskEnds)
                /\ UNCHANGED <<finder, waiter, lock, plan, call>>)

-----------------------------------------------------------------------------
(* Properties                                                              *)

Guards == Policies \cup {DefaultPolicy}

\* The mapping is a tree in the order of time, and only resolved policies guard.
TypeOK ==
  /\ nodes \in Seq([kind : Kinds, parent : 0 .. MaxNodes,
                     recipient : Recipients \cup {NoRecipient}, readOnly : BOOLEAN,
                     by : Callers \cup {NoCaller}])
  /\ current \in Ids /\ \A n \in Ids : nodes[n].parent < n
  /\ async \in BOOLEAN /\ edits \in 0 .. MaxEdits
  /\ late \subseteq Callers \X Ids
  /\ finder \in Seq(Guards) /\ waiter \in Seq(Guards)
  /\ lock \in Callers \cup {NoCaller}
  /\ plan \in [Callers -> Calls]
  /\ \A c \in Callers :
       /\ call[c].pc \in PCs /\ call[c].result \in Results
       /\ call[c].policy \in Guards \cup {NoPolicy}
       /\ call[c].card \in 0 .. Len(nodes) /\ call[c].round \in Nat
       /\ call[c].finder \in Seq(Guards) /\ call[c].waiter \in Seq(Guards)
       /\ call[c].seen.msg \in 0 .. Len(nodes)

\* What a policy promises, however it is evaluated: a denied recipient is never
\* approved, any other only if it is allowed, or reads only and that is enough.
Permits(policy, card) ==
  /\ card.recipient \notin policy.denied
  /\ card.recipient \in policy.allowed \/ (card.readOnly /\ policy.auto)

OwnPolicy(c) ==
  IF plan[c].policy = NoPolicy /\ plan[c].op # "approve" THEN DefaultPolicy
                                                         ELSE plan[c].policy

\* Every approval that has reached the conversation was permitted by the policy of
\* the very call that sent it, whatever card was waiting when the call began and
\* whatever other calls had put on the client (policy_approval.py:82-177).
ApprovedByPolicy ==
  \A n \in Ids : nodes[n].kind \in {"allow", "late"} =>
    \/ OwnPolicy(nodes[n].by) = NoPolicy
    \/ Permits(OwnPolicy(nodes[n].by), nodes[nodes[n].parent])

\* On a fenced client no card is approved twice by calls whose write went through:
\* who comes second reads the mapping after the first (client.py:1979-2094).
ApprovedOnce ==
  \A n \in Ids :
    Cardinality({m \in Ids : nodes[m].kind = "allow" /\ nodes[m].parent = n}) =< 1

\* An approval answers with a complete message that follows its card, and
\* wait_until_completed with a complete one, unless the user has meanwhile left for
\* a branch without it (client.py:1531-1563, wait.py:28-57).
AnswersFollow ==
  \A c \in Callers :
    LET seen == call[c].seen
    IN /\ call[c].result \in {"answer", "completed"} => seen.whole \/ seen.strayed
       /\ call[c].result = "answer" =>
            seen.strayed \/ call[c].card \in Branch(seen.msg)

\* No call polls, waits for the fence or loops for ever in a conversation that comes
\* to rest, although nothing bounds the rounds of the loop (client.py:2180-2244).
EveryCallEnds == \A c \in Callers : <>At(c, "done")

-----------------------------------------------------------------------------
(* What the code does not keep: see "Seen while modelling" in the README. *)

\* client.py:2150 promises of the loop that it will "Repeatedly approve pending tool
\* actions": it does not give up while the next card, which its policy permits, is
\* the current message.
LoopGoesOn ==
  \A c \in Callers :
    call[c].result = "poll_timeout" /\ plan[c].op # "approve" =>
      \/ call[c].seen.msg = 0
      \/ ~Permits(call[c].policy, nodes[call[c].seen.msg])
=============================================================================
