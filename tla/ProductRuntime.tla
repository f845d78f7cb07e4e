---------------------------- MODULE ProductRuntime ----------------------------
(***************************************************************************)
(* A caller's turn through ChatGPTProductRuntime (product_runtime.py and   *)
(* product_submission_runtime.py), the write transport it selects          *)
(* (browser_owned_product_transport.py), the scopes in which attachments   *)
(* and a model profile reach the one request they are for                  *)
(* (product_media.py, product_model_profile_pr8_10.py) and the Temporary   *)
(* runtime (temporary_product_runtime_pr8_13.py), over the extension's     *)
(* tab (TemporaryTab).                                                     *)
(*                                                                         *)
(* The transport's lock serialises callers, but a callback of a call may   *)
(* make calls of its own: the calls in progress are a stack.               *)
(***************************************************************************)
EXTENDS TemporaryTab

CONSTANTS
  Transports,   \* what a write transport's governance may say it supports
  Plans         \* the calls a program makes, in order

Ops == {"send", "submit", "await", "end"}

CallRequests == [op : Ops, temporary : BOOLEAN, policy : BOOLEAN,
                 profile : BOOLEAN, media : BOOLEAN, conversation : BOOLEAN]

ASSUME RuntimeAssumption ==
  /\ Transports \subseteq [temporary : BOOLEAN, policy : BOOLEAN,
                           profile : BOOLEAN, media : BOOLEAN, submission : BOOLEAN]
  /\ Plans \subseteq [RuntimeCalls -> CallRequests]

VARIABLES
  transport, plan,
  token, conversation,   \* the pair the Temporary runtime keeps
  pending,               \* a submission that awaits its final answer
  scope,                 \* the call whose attachments are bound, or 0
  profile,               \* the call whose model profile is required, or 0
  stack,                 \* the calls in progress, innermost first
  calls,                 \* how many there have been
  nested,                \* those made by a callback
  returned               \* history: the last call that returned

vars == <<turn, live, stored, sweep, tabs, log, bridge, reply, over, restarts,
          touches, transport, plan, token, conversation, pending, scope, profile,
          stack, calls, nested, returned>>

program == <<transport, plan, calls, nested>>

-----------------------------------------------------------------------------

FramePCs == {"resolve", "dispatch", "request", "wait", "read"}

Frames == [call : RuntimeCalls, request : CallRequests, pc : FramePCs,
           asked : Conversations, token : Tokens,
           bound : BOOLEAN, required : BOOLEAN]   \* the scopes it has entered

Top == stack[1]

Sends(request) == request.op \in {"send", "submit"}

TopAt(pc) == stack # <<>> /\ Top.pc = pc

Goto(pc) == stack' = <<[Top EXCEPT !.pc = pc]>> \o Tail(stack)

\* What the provenance of a result says was proven.
CompletionClaim(r) == r.op = "send" /\ ~r.temporary

ModeClaim(r) == r.temporary

LifecycleClaim(r) == r.temporary

Claims(r) == [canonical |-> CompletionClaim(r), temporary |-> ModeClaim(r),
              live |-> LifecycleClaim(r)]

\* Mutant: the attachments of a call stay bound.
LeaveBound(ok) ==
  /\ returned' = <<[call |-> Top.call, request |-> Top.request, ok |-> ok,
                    claims |-> Claims(Top.request)]>>
  /\ stack' = Tail(stack)
  /\ scope' = scope
  /\ profile' = IF Top.required THEN 0 ELSE profile

\* A call that returns or raises leaves the scopes it entered.
Leave(ok) ==
  /\ returned' = <<[call |-> Top.call, request |-> Top.request, ok |-> ok,
                    claims |-> Claims(Top.request)]>>
  /\ stack' = Tail(stack)
  /\ scope' = IF Top.bound THEN 0 ELSE scope
  /\ profile' = IF Top.required THEN 0 ELSE profile

Init ==
  /\ TabInit
  /\ transport \in Transports /\ plan \in Plans
  /\ token = 0 /\ conversation = 0 /\ pending = 0 /\ scope = 0 /\ profile = 0
  /\ stack = <<>> /\ calls = 0 /\ nested = {} /\ returned = <<>>

-----------------------------------------------------------------------------
(* product_runtime.py                                                      *)

\* From outside, or from a callback of the innermost call.
Call ==
  /\ calls < MaxCalls
  /\ \/ stack = <<>>
     \/ Len(stack) = 1 /\ Top.pc \in {"wait", "read"} /\ Sends(Top.request)
  /\ calls' = calls + 1
  /\ nested' = IF stack = <<>> THEN nested ELSE nested \cup {calls'}
  /\ stack' = <<[call |-> calls', request |-> plan[calls'], pc |-> "resolve",
                 asked |-> 0, token |-> 0, bound |-> FALSE, required |-> FALSE]>>
              \o stack
  /\ returned' = <<>>
  /\ UNCHANGED <<tabVars, transport, plan, token, conversation, pending, scope, profile>>

ModeSupported(r) == r.temporary => transport.temporary

AuthoritySupported(r) == r.policy => transport.policy

ProfileSupported(r) == r.profile => transport.profile

\* Attachments are for the ordinary turns of one implementation, and scopes
\* do not nest.
MediaSupported(r) == r.media => transport.media /\ ~r.temporary /\ scope = 0

SubmissionSupported(r) ==
  r.op \in {"submit", "await"} => transport.submission /\ ~r.temporary

EndSupported(r) == r.op = "end" => transport.temporary

\* What the transport cannot do is refused before anything is dispatched.
Resolvable(r) ==
  /\ ModeSupported(r) /\ AuthoritySupported(r) /\ ProfileSupported(r)
  /\ MediaSupported(r) /\ SubmissionSupported(r) /\ EndSupported(r)

Resolve ==
  /\ TopAt("resolve") /\ Resolvable(Top.request) /\ ~Top.request.media
  /\ Goto("dispatch")
  /\ UNCHANGED <<tabVars, program, token, conversation, pending, scope, profile, returned>>

Refuse ==
  /\ TopAt("resolve") /\ ~Resolvable(Top.request)
  /\ Leave(FALSE)
  /\ UNCHANGED <<tabVars, program, token, conversation, pending>>

\* Every attachment is a file before the request, and bound to this context.
Materialize ==
  /\ TopAt("resolve") /\ Resolvable(Top.request) /\ Top.request.media
  /\ scope' = Top.call
  /\ stack' = <<[Top EXCEPT !.pc = "dispatch", !.bound = TRUE]>> \o Tail(stack)
  /\ UNCHANGED <<tabVars, program, token, conversation, pending, profile, returned>>

\* One cannot be read or decoded, or is not downloaded in time.
MediaFails ==
  /\ TopAt("resolve") /\ Top.request.media
  /\ Leave(FALSE)
  /\ UNCHANGED <<tabVars, program, token, conversation, pending>>

-----------------------------------------------------------------------------
(* browser_owned_product_transport.py                                      *)

\* A Temporary turn is continued by the session, never by an id.
SessionRouted(r) ==
  r.temporary => ~r.policy /\ ~r.conversation /\ (token # 0 => conversation # 0)

\* One submission at a time, and one profile.
Dispatchable(r) == pending = 0 /\ (r.profile => profile = 0) /\ SessionRouted(r)

\* _binding_for_turn, for a Temporary turn.
Dispatch ==
  /\ TopAt("dispatch") /\ Sends(Top.request) /\ Dispatchable(Top.request)
  /\ profile' = IF Top.request.profile THEN Top.call ELSE profile
  /\ token' = IF Top.request.temporary /\ token = 0 THEN Top.call ELSE token
  /\ stack' = <<[Top EXCEPT !.pc = "request", !.required = Top.request.profile,
                   !.token = IF Top.request.temporary THEN token' ELSE 0,
                   !.asked = CASE Top.request.temporary -> conversation
                               [] Top.request.conversation -> Other
                               [] OTHER -> 0]>> \o Tail(stack)
  /\ UNCHANGED <<tabVars, program, conversation, pending, scope, returned>>

\* Also: the bridge is not ready.
RefuseDispatch ==
  /\ TopAt("dispatch") /\ Sends(Top.request)
  /\ Leave(FALSE)
  /\ UNCHANGED <<tabVars, program, token, conversation, pending>>

DispatchEnd ==
  /\ TopAt("dispatch") /\ Top.request.op = "end" /\ pending = 0 /\ token # 0
  /\ stack' = <<[Top EXCEPT !.pc = "request", !.asked = conversation,
                            !.token = token]>> \o Tail(stack)
  /\ UNCHANGED <<tabVars, program, token, conversation, pending, scope, profile, returned>>

NothingToEnd ==
  /\ TopAt("dispatch") /\ Top.request.op = "end"
  /\ pending # 0 \/ token = 0
  /\ Leave(FALSE)
  /\ UNCHANGED <<tabVars, program, token, conversation, pending>>

\* The canonical read may fail: the submission then stays or goes.
Await ==
  /\ TopAt("dispatch") /\ Top.request.op = "await"
  /\ \E ok \in BOOLEAN : Leave(ok /\ pending # 0)
  /\ pending' \in {pending, 0}
  /\ UNCHANGED <<tabVars, program, token, conversation>>

-----------------------------------------------------------------------------
(* The request                                                             *)

\* The provider's profile goes with turns only, and so do the scope's files,
\* which the Temporary runtime does not look at.
RequiredProfile(r) == IF Sends(r) THEN profile ELSE 0

Attachments(r) == IF r.temporary \/ r.op = "end" THEN 0 ELSE scope

\* A transport does what its governance says; a Temporary turn has no policy.
Message(frame) ==
  LET r == frame.request
  IN [call |-> frame.call,
      op |-> IF r.op = "end" THEN "end" ELSE IF r.temporary THEN "temporary" ELSE "normal",
      token |-> frame.token, conversation |-> frame.asked,
      demands |-> [profile |-> RequiredProfile(r),
                   policy |-> r.policy /\ transport.policy /\ ~r.temporary,
                   media |-> Attachments(r)]]

Forget == token' = 0 /\ conversation' = 0

\* What a request that failed does to the Temporary runtime's pair.
Lose(frame) ==
  IF frame.request.temporary \/ frame.request.op = "end"
  THEN Forget ELSE UNCHANGED <<token, conversation>>

RequestTurn ==
  /\ TopAt("request")
  /\ Receive(Message(Top))
  /\ Goto("wait")
  /\ UNCHANGED <<program, token, conversation, pending, scope, profile, returned>>

\* The lane is taken, by this runtime's own turn too.
Busy ==
  /\ TopAt("request")
  /\ Leave(FALSE)
  /\ Lose(Top)
  /\ UNCHANGED <<tabVars, program, pending>>

Arrived == TopAt("wait") /\ \E r \in reply : r.call = Top.call

Result == CHOOSE r \in reply : r.call = Top.call

\* Mutant: the wait ends with the connection only.
AbandonDisconnected ==
  /\ TopAt("wait") /\ turn = <<>>
  /\ Disconnect(Top.call)
  /\ Leave(FALSE)
  /\ Lose(Top)
  /\ UNCHANGED <<program, pending>>

\* The request times out, or its reply is lost: the turn may go on.
Abandon ==
  /\ TopAt("wait")
  /\ Disconnect(Top.call)
  /\ Leave(FALSE)
  /\ Lose(Top)
  /\ UNCHANGED <<program, pending>>

\* An error's status leaves the pair as it is; a text that is not whole
\* does not.
TemporaryResult ==
  /\ Arrived /\ Top.request.temporary
  /\ Disconnect(Top.call)
  /\ \E whole \in BOOLEAN :
       /\ Leave(Result.status /\ whole)
       /\ CASE Result.status /\ whole ->
                 token' = Top.token /\ conversation' = Result.conversation
            [] Result.ok /\ ~Result.status -> UNCHANGED <<token, conversation>>
            [] OTHER -> Forget
  /\ UNCHANGED <<program, pending>>

\* The write is accepted; what follows is read, with callbacks, in Python.
NormalResult ==
  /\ Arrived /\ ~Top.request.temporary /\ Sends(Top.request)
  /\ Disconnect(Top.call)
  /\ IF Result.ok
     THEN Goto("read") /\ UNCHANGED <<scope, profile, returned>>
     ELSE Leave(FALSE)
  /\ UNCHANGED <<program, token, conversation, pending>>

Read ==
  /\ TopAt("read")
  /\ \E ok \in BOOLEAN :
       /\ Leave(ok)
       /\ pending' = IF ok /\ Top.request.op = "submit" THEN Top.call ELSE pending
  /\ UNCHANGED <<tabVars, program, token, conversation>>

EndResult ==
  /\ Arrived /\ Top.request.op = "end"
  /\ Disconnect(Top.call)
  /\ Leave(Result.ok)
  /\ Forget
  /\ UNCHANGED <<program, pending>>

-----------------------------------------------------------------------------

RuntimeStep ==
  \/ Resolve \/ Refuse \/ Materialize \/ MediaFails \/ Dispatch \/ RefuseDispatch
  \/ DispatchEnd \/ NothingToEnd \/ Await \/ RequestTurn \/ Busy \/ Abandon \/ TemporaryResult \/ NormalResult \/ Read \/ EndResult

Extension ==
  /\ TabStep \/ Outside
  /\ UNCHANGED <<program, token, conversation, pending, scope, profile, stack, returned>>

Next == Call \/ RuntimeStep \/ Extension

Spec == Init /\ [][Next]_vars

\* A thread in the runtime goes on, and every wait of it has a deadline.
FairSpec == Spec /\ WF_vars(RuntimeStep)

-----------------------------------------------------------------------------
(* Properties                                                              *)

TypeOK ==
  /\ transport \in Transports
  /\ {token, pending, scope, profile} \subseteq Tokens
  /\ conversation \in Conversations
  /\ \A k \in DOMAIN stack : stack[k] \in Frames
  /\ Len(stack) <= 2 /\ calls <= MaxCalls /\ nested \subseteq RuntimeCalls
  /\ \A k \in DOMAIN turn : turn[k].message \in Messages /\ turn[k].pc \in TurnPCs
  /\ \A k \in DOMAIN tabs : tabs[k] \in Pages
  /\ over \subseteq Tokens

\* A write the worker let go in a Temporary turn was a temporary one into the
\* conversation the turn names, and a conversation is only continued by a
\* runtime that opened it, in the tab and the lifecycle it was opened in: its
\* id alone is no authority (temporary_product_runtime_pr8_13.py:255).
TemporaryIsTemporary ==
  /\ \A w \in log : w.op = "temporary" /\ ~w.loose =>
       /\ w.temporary /\ w.conversation = w.asked
       /\ w.asked # 0 => \E first \in log : /\ first.call = w.asked /\ ~first.loose
                                          /\ first.token = w.token
                                          /\ first.tab = w.tab
  /\ conversation # 0 => \E first \in log : /\ first.call = conversation
                                          /\ first.token = token /\ ~first.loose

\* Nothing is let go under a lifecycle once it has ended, whichever way it
\* did: by its owner, a failed turn, the user, a new lifecycle or a restart
\* of the worker, with requests abandoned and callbacks calling back
\* (_pr813LiveTemporaryLifecycle).
EndedIsFinal ==
  [][\A w \in log' \ log : w.op = "temporary" /\ ~w.loose => w.token \notin over]_vars

\* A write carries exactly the policy, model profile and attachments its call
\* asked for, in the mode it asked for, or is not made; a call that returns
\* successfully has made its write, in the mode its provenance claims; and no
\* scope outlives its call. A callback's call that asks for none may inherit
\* the outer call's
\* (product_runtime.py:188, product_media.py:555).
DeliveredExactly ==
  /\ \A w \in log :
       LET request == plan[w.call]
           Is(value, demanded) ==
             \/ value = IF demanded THEN w.call ELSE 0
             \/ w.call \in nested /\ ~demanded
       IN /\ (w.op = "temporary") = request.temporary
          /\ w.demands.policy = request.policy
          /\ Is(w.demands.profile, request.profile)
          /\ Is(w.demands.media, request.media)
  /\ \A k \in DOMAIN returned :
       returned[k].ok /\ Sends(returned[k].request) =>
         \E w \in log : /\ w.call = returned[k].call /\ ~w.loose
                         /\ returned[k].claims.temporary = w.temporary
                         /\ returned[k].claims.canonical => ~w.temporary
  /\ stack = <<>> => scope = 0 /\ profile = 0

\* A call returns or raises, whatever happens to its request, its tab and the
\* worker (_turn_rpc, close).
EveryCallEnds == stack # <<>> ~> stack = <<>>
=============================================================================
