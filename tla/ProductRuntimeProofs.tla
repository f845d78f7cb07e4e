------------------------ MODULE ProductRuntimeProofs ------------------------
(***************************************************************************)
(* Proofs about ProductRuntime and its TemporaryTab: what a Temporary turn *)
(* writes is temporary and belongs to the session that names it, nothing   *)
(* is written under a lifecycle that has ended, and a write carries what   *)
(* its call asked for, for every program, every transport and any number   *)
(* of calls, tabs, restarts and interventions of the user.                 *)
(***************************************************************************)
EXTENDS ProductRuntime, SequenceTheorems, TLAPS

-----------------------------------------------------------------------------
(* Types                                                                   *)

Maybe(S) == {<<>>} \cup {<<x>> : x \in S}

Requests == [temporary : BOOLEAN, conversation : Conversations]

Turns ==
  [message : Messages, pc : TurnPCs, tab : Nat, clicked : BOOLEAN,
   paused : Maybe(Requests), sent : BOOLEAN, proof : BOOLEAN]

Lives == [token : Tokens, tab : Nat, conversation : Conversations]

Replies ==
  [call : RuntimeCalls, ok : BOOLEAN, conversation : Conversations, status : BOOLEAN]

\* The extension's state, as far as the proofs look at it.
TabTypes ==
  /\ turn \in Maybe(Turns) /\ live \in Maybe(Lives)
  /\ tabs \in Seq(Pages) /\ stored \in Nat
  /\ reply \subseteq Replies /\ over \subseteq Tokens

ProgramTypes ==
  /\ transport \in Transports /\ plan \in Plans
  /\ token \in Tokens /\ pending \in Tokens /\ scope \in Tokens /\ profile \in Tokens
  /\ conversation \in Conversations
  /\ stack \in Seq(Frames) /\ Len(stack) <= 2
  /\ calls \in 0..MaxCalls /\ nested \subseteq RuntimeCalls

Typed == TabTypes /\ ProgramTypes

-----------------------------------------------------------------------------
(* The inductive invariant                                                 *)

\* What a call has established when it makes its request.
Asks(f) ==
  /\ f.request.op # "await"
  /\ f.request.op = "end" => f.token # 0
  /\ Sends(f.request) =>
       /\ f.request.profile => f.required
       /\ f.request.temporary =>
            ~f.request.policy /\ f.token # 0 /\ (f.asked = 0 => f.token = f.call)

\* A call in progress, the n-th at most of program p over transport tr, while the
\* bound scopes are those of calls s and q: those it has entered are its own, and
\* past its checks the transport can do what it asks for.
FrameAt(f, n, p, tr, s, q) ==
  /\ f.call \in 1..n /\ f.request = p[f.call]
  /\ f.bound => f.request.media /\ s = f.call
  /\ f.required => f.request.profile /\ q = f.call
  /\ f.pc # "resolve" =>
       /\ f.request.policy => tr.policy
       /\ f.request.media => f.bound /\ ~f.request.temporary
  /\ f.pc \in {"resolve", "dispatch"} => ~f.required
  /\ f.pc = "resolve" => ~f.bound
  /\ f.pc \in {"request", "wait", "read"} => Asks(f)

FrameOK(f) == FrameAt(f, calls, plan, transport, scope, profile)

\* A callback's call is on top of one that waits or reads, and whatever scope is
\* bound is that of a call in progress.
StackInv ==
  /\ \A k \in DOMAIN stack : FrameOK(stack[k])
  /\ 2 \in DOMAIN stack =>
       /\ stack[2].pc \in {"wait", "read"}
       /\ stack[2].call < stack[1].call /\ stack[1].call \in nested
  /\ scope # 0 => \E k \in DOMAIN stack : stack[k].bound
  /\ profile # 0 => \E k \in DOMAIN stack : stack[k].required

\* A call that has made its request, whether or not it is still in progress.
Requested(c) ==
  /\ c \in 1..calls
  /\ \A k \in DOMAIN stack : stack[k].call = c => stack[k].pc \in {"wait", "read"}

\* DeliveredExactly, of one message or write.
Carries(c, op, demands) ==
  /\ c \in RuntimeCalls /\ demands.policy \in BOOLEAN
  /\ op = "temporary" <=> plan[c].temporary
  /\ demands.policy <=> plan[c].policy
  /\ \/ demands.profile = IF plan[c].profile THEN c ELSE 0
     \/ c \in nested /\ ~plan[c].profile
  /\ \/ demands.media = IF plan[c].media THEN c ELSE 0
     \/ c \in nested /\ ~plan[c].media

\* A message is its call's, also when the call has been abandoned, and asks what
\* the call does.
MessageOK(m) ==
  /\ Requested(m.call)
  /\ \A k \in DOMAIN stack : stack[k].call = m.call => stack[k].token = m.token
  /\ IF m.op = "end" THEN plan[m.call].op = "end" ELSE Carries(m.call, m.op, m.demands)
  /\ m.op = "temporary" /\ m.conversation = 0 => m.token = m.call

\* Lifecycles, results and writes are those of calls that have made a request: a
\* token or an id that is new to Python is new to the extension.
RequestInv ==
  /\ turn # <<>> => MessageOK(Now.message)
  /\ live # <<>> => Requested(live[1].token)
  /\ \A t \in over : Requested(t)
  /\ \A r \in reply : Requested(r.call)
  /\ \A w \in log : Carries(w.call, w.op, w.demands)

\* The write that opened conversation c, under its lifecycle in its tab.
Opens(c, t, tab) ==
  \E w \in log : w.call = c /\ w.token = t /\ w.tab = tab /\ ~w.loose

\* A temporary write of call c.
Wrote(c, t, tab) ==
  \E w \in log : w.call = c /\ w.token = t /\ w.tab = tab /\ ~w.loose /\ w.temporary = TRUE

InTab == {"run", "wait", "proved", "finish", "failing", "detached"}

\* A Temporary turn: before it has a tab its lifecycle is neither live nor over;
\* after that the tab is the lifecycle's, and closed if the lifecycle is over.
TurnOK(t) ==
  /\ t.pc \in {"start", "create", "store", "load", "run"} => ~t.sent
  /\ t.pc \in {"proved", "finish"} => t.sent
  /\ t.sent => Wrote(t.message.call, t.message.token, t.tab)
  /\ t.pc = "start" /\ t.message.conversation = 0 =>
       t.message.token \notin over /\ ~IsLive(t.message.token)
  /\ t.pc \in {"create", "store", "load"} =>
       t.message.conversation = 0 /\ live = <<>> /\ t.message.token \notin over
  /\ t.pc \in InTab =>
       /\ t.message.conversation # 0 =>
            Opens(t.message.conversation, t.message.token, t.tab)
       /\ IsLive(t.message.token) => live[1].tab = t.tab
       /\ t.message.token \in over => ~PageOpen(t.tab)

\* A live lifecycle is not over, and its conversation was opened under it.
LiveOK(l) ==
  /\ l.token \notin over
  /\ l.conversation # 0 => Opens(l.conversation, l.token, l.tab)

\* The first part of TemporaryIsTemporary.
WriteOK(w) ==
  w.op = "temporary" /\ ~w.loose =>
    /\ w.temporary = TRUE /\ w.conversation = w.asked
    /\ w.asked # 0 => Opens(w.asked, w.token, w.tab)

TabInv ==
  /\ turn # <<>> /\ Now.message.op = "temporary" => TurnOK(Now)
  /\ live # <<>> => LiveOK(live[1])
  /\ \A w \in log : WriteOK(w)

\* Call c has written, in the mode it asked for.
Made(c) == \E w \in log : w.call = c /\ ~w.loose /\ w.temporary = plan[c].temporary

Begun(c, t) == \E w \in log : w.call = c /\ w.token = t /\ ~w.loose

\* A result says no more than was written, and neither does what Python makes of it.
ReplyOK(r) ==
  /\ r.status => r.ok
  /\ r.ok /\ Sends(plan[r.call]) => Made(r.call)
  /\ r.status /\ plan[r.call].temporary /\ r.conversation # 0 =>
       \A k \in DOMAIN stack : stack[k].call = r.call => Begun(r.conversation, stack[k].token)

\* What is read in Python is an ordinary turn whose write was accepted.
ReadOK(f) ==
  f.pc = "read" => Sends(f.request) /\ ~f.request.temporary /\ Made(f.call)

ReturnOK(x) ==
  /\ x.request = plan[x.call] /\ x.claims = Claims(x.request)
  /\ x.ok /\ Sends(x.request) => Made(x.call)

ResultInv ==
  /\ \A r \in reply : ReplyOK(r)
  /\ \A k \in DOMAIN stack : ReadOK(stack[k])
  /\ conversation # 0 => token # 0 /\ Begun(conversation, token)
  /\ \A k \in DOMAIN returned : ReturnOK(returned[k])

RuntimeInv == Typed /\ StackInv /\ RequestInv /\ TabInv /\ ResultInv

-----------------------------------------------------------------------------
(* The stack of calls                                                      *)

\* The innermost call, and at most one below it.
LEMMA StackShape ==
  ASSUME ProgramTypes
  PROVE  /\ DOMAIN stack \subseteq {1, 2} /\ \A k \in DOMAIN stack : stack[k] \in Frames
         /\ stack # <<>> <=> 1 \in DOMAIN stack
         /\ 2 \in DOMAIN stack => stack # <<>>
         /\ Len(stack) \in 0..2 /\ DOMAIN stack = 1..Len(stack)
<1>1. stack \in Seq(Frames) /\ Len(stack) \in 0..2 /\ DOMAIN stack = 1..Len(stack)
  <2>1. stack \in Seq(Frames) /\ Len(stack) <= 2
    BY DEF ProgramTypes
  <2>2. Len(stack) \in Nat /\ DOMAIN stack = 1..Len(stack)
    BY <2>1, LenProperties
  <2> QED  BY <2>1, <2>2
<1>2. \A k \in DOMAIN stack : stack[k] \in Frames
  BY <1>1
<1>3. stack = <<>> <=> Len(stack) = 0
  BY <1>1, EmptySeq
<1> QED  BY <1>1, <1>2, <1>3

\* A call that leaves uncovers the one below.
LEMMA Popped ==
  ASSUME ProgramTypes, stack # <<>>, stack' = Tail(stack)
  PROVE  /\ stack' \in Seq(Frames) /\ Len(stack') <= 2
         /\ \A k \in DOMAIN stack' : k = 1 /\ 2 \in DOMAIN stack /\ stack'[k] = stack[2]
         /\ 2 \in DOMAIN stack => 1 \in DOMAIN stack' /\ stack'[1] = stack[2]
         /\ stack' = <<>> <=> 2 \notin DOMAIN stack
<1>1. stack \in Seq(Frames) /\ Len(stack) \in 1..2 /\ DOMAIN stack = 1..Len(stack)
  BY StackShape DEF ProgramTypes
<1>2. /\ stack' \in Seq(Frames) /\ Len(stack') = Len(stack) - 1
      /\ \A k \in 1..Len(stack') : stack'[k] = stack[k + 1]
  BY <1>1, HeadTailProperties
<1>3. DOMAIN stack' = 1..Len(stack')
  BY <1>2
<1>4. stack' = <<>> <=> Len(stack') = 0
  BY <1>2, EmptySeq
<1> QED  BY <1>1, <1>2, <1>3, <1>4

\* A call that goes on is replaced by its new record.
LEMMA Replaced ==
  ASSUME ProgramTypes, stack # <<>>, NEW f \in Frames, stack' = <<f>> \o Tail(stack)
  PROVE  /\ stack' \in Seq(Frames) /\ Len(stack') <= 2
         /\ DOMAIN stack' = DOMAIN stack /\ 1 \in DOMAIN stack /\ DOMAIN stack \subseteq {1, 2}
         /\ stack'[1] = f /\ (2 \in DOMAIN stack => stack'[2] = stack[2])
         /\ stack' # <<>>
<1>1. stack \in Seq(Frames) /\ Len(stack) \in 1..2 /\ DOMAIN stack = 1..Len(stack)
  BY StackShape DEF ProgramTypes
<1>2. /\ Tail(stack) \in Seq(Frames) /\ Len(Tail(stack)) = Len(stack) - 1
      /\ \A k \in 1..Len(Tail(stack)) : Tail(stack)[k] = stack[k + 1]
  BY <1>1, HeadTailProperties
<1>3. <<f>> \in Seq(Frames) /\ Len(<<f>>) = 1 /\ <<f>>[1] = f
  OBVIOUS
<1> DEFINE s == <<f>> \o Tail(stack)
<1>4. /\ s \in Seq(Frames) /\ Len(s) = 1 + Len(Tail(stack))
      /\ \A k \in 1..Len(s) : s[k] = IF k <= 1 THEN <<f>>[k] ELSE Tail(stack)[k - 1]
  BY <1>2, <1>3, ConcatProperties
<1>5. Len(s) = Len(stack) /\ DOMAIN s = 1..Len(s)
  BY <1>1, <1>2, <1>4
<1>6. s[1] = f
  BY <1>1, <1>3, <1>4, <1>5
<1>7. ASSUME 2 \in DOMAIN stack PROVE s[2] = stack[2]
  <2>1. Len(stack) = 2
    BY <1>1, <1>7
  <2>2. s[2] = Tail(stack)[1] /\ Tail(stack)[1] = stack[2]
    BY <1>2, <1>4, <1>5, <2>1
  <2> QED  BY <2>2
<1> HIDE DEF s
<1>8. s # <<>>
  BY <1>1, <1>4, <1>5, EmptySeq
<1> QED  BY <1>1, <1>4, <1>5, <1>6, <1>7, <1>8 DEF s

\* A call from outside, or from a callback, goes on top.
LEMMA Pushed ==
  ASSUME ProgramTypes, Len(stack) <= 1, NEW f \in Frames, stack' = <<f>> \o stack
  PROVE  /\ stack' \in Seq(Frames) /\ Len(stack') <= 2
         /\ 1 \in DOMAIN stack' /\ stack'[1] = f
         /\ \A k \in DOMAIN stack' : k = 1 \/ (k = 2 /\ 1 \in DOMAIN stack)
         /\ 1 \in DOMAIN stack => 2 \in DOMAIN stack' /\ stack'[2] = stack[1]
<1>1. stack \in Seq(Frames) /\ Len(stack) \in 0..1 /\ DOMAIN stack = 1..Len(stack)
  BY StackShape DEF ProgramTypes
<1>2. <<f>> \in Seq(Frames) /\ Len(<<f>>) = 1 /\ <<f>>[1] = f
  OBVIOUS
<1>3. /\ stack' \in Seq(Frames) /\ Len(stack') = 1 + Len(stack)
      /\ \A k \in 1..Len(stack') : stack'[k] = IF k <= 1 THEN <<f>>[k] ELSE stack[k - 1]
  BY <1>1, <1>2, ConcatProperties
<1>4. DOMAIN stack' = 1..Len(stack')
  BY <1>3
<1>5. stack'[1] = f
  BY <1>1, <1>2, <1>3
<1>6. ASSUME 1 \in DOMAIN stack PROVE 2 \in DOMAIN stack' /\ stack'[2] = stack[1]
  <2>1. Len(stack') = 2
    BY <1>1, <1>3, <1>6
  <2> QED  BY <1>3, <1>4, <2>1
<1> QED  BY <1>1, <1>3, <1>4, <1>5, <1>6

-----------------------------------------------------------------------------
(* What a step does to the stack *)

\* The frames of calls that have made their request stay, or their calls have
\* left; no such call makes another.
StackMoves ==
  /\ plan' = plan /\ transport' = transport /\ nested \subseteq nested'
  /\ \A c : Requested(c) => Requested(c)'
  /\ \A c, k : Requested(c) /\ k \in DOMAIN stack' /\ stack'[k].call = c =>
       \E j \in DOMAIN stack : stack[j].call = c /\ stack[j].token = stack'[k].token

\* Leaving gives back the scopes the call entered, and no others.
LEMMA LeaveStack ==
  ASSUME ProgramTypes, StackInv, stack # <<>>, NEW ok \in BOOLEAN, Leave(ok),
         UNCHANGED program
  PROVE  StackInv' /\ StackMoves
<1>1. /\ \A k \in DOMAIN stack' : k = 1 /\ 2 \in DOMAIN stack /\ stack'[k] = stack[2]
      /\ 2 \in DOMAIN stack => 1 \in DOMAIN stack' /\ stack'[1] = stack[2]
  BY Popped DEF Leave
<1>2. /\ 1 \in DOMAIN stack /\ DOMAIN stack \subseteq {1, 2}
      /\ \A k \in DOMAIN stack : stack[k] \in Frames /\ FrameOK(stack[k])
  BY StackShape DEF StackInv
<1>3. UNCHANGED <<plan, transport, calls, nested>>
  BY DEF program
<1>4. /\ scope' = IF stack[1].bound THEN 0 ELSE scope
      /\ profile' = IF stack[1].required THEN 0 ELSE profile
  BY DEF Leave, Top
<1>5. calls \in Nat
  BY TabAssumption DEF ProgramTypes
<1>6. 2 \in DOMAIN stack =>
        FrameAt(stack[2], calls', plan', transport', scope', profile')
  <2> SUFFICES ASSUME 2 \in DOMAIN stack
               PROVE  FrameAt(stack[2], calls', plan', transport', scope', profile')
    OBVIOUS
  <2>1. stack'[1] = stack[2] /\ FrameOK(stack[2]) /\ FrameOK(stack[1])
    BY <1>1, <1>2
  <2>2. stack[2].call < stack[1].call /\ stack[1].call \in Nat /\ stack[2].call \in Nat
    BY <1>2, <1>5, <2>1 DEF StackInv, FrameOK, FrameAt
  <2>3. stack[2].bound => scope' = scope
    BY <1>4, <2>1, <2>2 DEF FrameOK, FrameAt
  <2>4. stack[2].required => profile' = profile
    BY <1>4, <2>1, <2>2 DEF FrameOK, FrameAt
  <2> QED  BY <1>3, <2>1, <2>3, <2>4 DEF FrameOK, FrameAt
<1>7. StackInv'
  <2>1. \A k \in DOMAIN stack' : FrameAt(stack'[k], calls', plan', transport', scope', profile')
    BY <1>1, <1>6
  <2>2. 2 \notin DOMAIN stack'
    BY <1>1
  <2>3. scope' # 0 => \E k \in DOMAIN stack' : stack'[k].bound
    BY <1>1, <1>2, <1>4 DEF StackInv
  <2>4. profile' # 0 => \E k \in DOMAIN stack' : stack'[k].required
    BY <1>1, <1>2, <1>4 DEF StackInv
  <2> QED  BY <2>1, <2>2, <2>3, <2>4 DEF StackInv, FrameOK
<1>8. StackMoves
  BY <1>1, <1>3 DEF StackMoves, Requested
<1> QED  BY <1>7, <1>8

\* A call that goes on keeps its scopes; the one it enters was free.
LEMMA PutStack ==
  ASSUME ProgramTypes, StackInv, stack # <<>>, UNCHANGED program,
         NEW f \in Frames, stack' = <<f>> \o Tail(stack), FrameAt(f, calls', plan', transport', scope', profile'),
         f.call = Top.call,
         Top.pc \in {"wait", "read"} => f.pc \in {"wait", "read"},
         f.token = Top.token \/ Top.pc = "dispatch",
         Top.bound => f.bound, Top.required => f.required,
         scope' = scope \/ (scope = 0 /\ f.bound),
         profile' = profile \/ (profile = 0 /\ f.required)
  PROVE  StackInv' /\ StackMoves
<1>1. /\ DOMAIN stack' = DOMAIN stack /\ 1 \in DOMAIN stack /\ DOMAIN stack \subseteq {1, 2}
      /\ stack'[1] = f /\ (2 \in DOMAIN stack => stack'[2] = stack[2])
  BY Replaced
<1>2. \A k \in DOMAIN stack : stack[k] \in Frames /\ FrameOK(stack[k])
  BY StackShape DEF StackInv
<1>3. UNCHANGED <<plan, transport, calls, nested>>
  BY DEF program
<1>4. calls \in Nat /\ Top = stack[1]
  BY TabAssumption DEF ProgramTypes, Top
<1>5. 2 \in DOMAIN stack =>
        FrameAt(stack[2], calls', plan', transport', scope', profile')
  <2> SUFFICES ASSUME 2 \in DOMAIN stack
               PROVE  FrameAt(stack[2], calls', plan', transport', scope', profile')
    OBVIOUS
  <2>1. stack[2].bound => scope' = scope
    BY <1>2, <1>4 DEF FrameOK, FrameAt
  <2>2. stack[2].required => profile' = profile
    BY <1>2, <1>4 DEF FrameOK, FrameAt
  <2> QED  BY <1>2, <1>3, <2>1, <2>2 DEF FrameOK, FrameAt
<1>6. StackInv'
  <2>1. \A k \in DOMAIN stack' : FrameAt(stack'[k], calls', plan', transport', scope', profile')
    BY <1>1, <1>5
  <2>2. 2 \in DOMAIN stack' => /\ stack'[2].pc \in {"wait", "read"}
                               /\ stack'[2].call < stack'[1].call /\ stack'[1].call \in nested'
    BY <1>1, <1>3, <1>4 DEF StackInv
  <2>3. scope' # 0 => \E k \in DOMAIN stack' : stack'[k].bound
    BY <1>1, <1>4 DEF StackInv
  <2>4. profile' # 0 => \E k \in DOMAIN stack' : stack'[k].required
    BY <1>1, <1>4 DEF StackInv
  <2> QED  BY <2>1, <2>2, <2>3, <2>4 DEF StackInv, FrameOK
<1>7. StackMoves
  <2>1. \A c : Requested(c) => Requested(c)'
    BY <1>1, <1>3, <1>4 DEF Requested
  <2>2. \A c, k : Requested(c) /\ k \in DOMAIN stack' /\ stack'[k].call = c =>
          \E j \in DOMAIN stack : stack[j].call = c /\ stack[j].token = stack'[k].token
    BY <1>1, <1>4 DEF Requested
  <2> QED  BY <1>3, <2>1, <2>2 DEF StackMoves
<1> QED  BY <1>6, <1>7

\* A new call has entered nothing and requested nothing.
LEMMA CallStack ==
  ASSUME ProgramTypes, StackInv, Call
  PROVE  /\ StackInv' /\ StackMoves
         /\ stack' \in Seq(Frames) /\ Len(stack') <= 2
         /\ calls' \in 0..MaxCalls /\ nested' \subseteq RuntimeCalls
         /\ \A k \in DOMAIN stack' : stack'[k].pc = "resolve" \/ \E j \in DOMAIN stack : stack'[k] = stack[j]
<1> DEFINE f == [call |-> calls', request |-> plan[calls'], pc |-> "resolve",
                 asked |-> 0, token |-> 0, bound |-> FALSE, required |-> FALSE]
<1>1. /\ calls \in Nat /\ MaxCalls \in Nat /\ calls' = calls + 1 /\ calls' \in RuntimeCalls
      /\ calls' \in 0..MaxCalls
  BY TabAssumption DEF ProgramTypes, Call, RuntimeCalls
<1>2. plan[calls'] \in CallRequests
  BY <1>1, RuntimeAssumption DEF ProgramTypes
<1>3. f \in Frames /\ f.call = calls' /\ f.request = plan[calls'] /\ f.pc = "resolve"
      /\ f.bound = FALSE /\ f.required = FALSE
  BY <1>1, <1>2 DEF Frames, FramePCs, Conversations, Tokens
<1>4. stack' = <<f>> \o stack /\ UNCHANGED <<plan, transport, scope, profile>>
  BY DEF Call, program
<1>5. /\ DOMAIN stack \subseteq {1, 2} /\ (stack # <<>> <=> 1 \in DOMAIN stack)
      /\ Len(stack) \in 0..2 /\ DOMAIN stack = 1..Len(stack)
      /\ \A k \in DOMAIN stack : stack[k] \in Frames /\ FrameOK(stack[k])
  BY StackShape DEF StackInv
<1>6. Len(stack) <= 1 /\ DOMAIN stack \subseteq {1}
  <2>1. CASE stack = <<>>
    BY <1>5, <2>1
  <2>2. CASE Len(stack) = 1
    BY <1>5, <2>2
  <2> QED  BY <2>1, <2>2 DEF Call
<1> HIDE DEF f
<1>7. /\ stack' \in Seq(Frames) /\ Len(stack') <= 2
      /\ 1 \in DOMAIN stack' /\ stack'[1] = f
      /\ \A k \in DOMAIN stack' : k = 1 \/ (k = 2 /\ 1 \in DOMAIN stack)
      /\ 1 \in DOMAIN stack => 2 \in DOMAIN stack' /\ stack'[2] = stack[1]
  BY <1>3, <1>4, <1>6, Pushed
<1>8. /\ nested' = (IF stack = <<>> THEN nested ELSE nested \cup {calls'})
      /\ stack # <<>> => stack[1].pc \in {"wait", "read"}
  BY DEF Call, Top
<1>9. nested \subseteq nested' /\ nested' \subseteq RuntimeCalls
  BY <1>1, <1>8 DEF ProgramTypes
<1>10. FrameAt(f, calls', plan', transport', scope', profile')
  BY <1>1, <1>3, <1>4 DEF FrameAt
<1>11. 1 \in DOMAIN stack =>
         FrameAt(stack[1], calls', plan', transport', scope', profile')
  BY <1>1, <1>4, <1>5 DEF FrameAt, FrameOK
<1>12. StackInv'
  <2>1. \A k \in DOMAIN stack' : FrameAt(stack'[k], calls', plan', transport', scope', profile')
    BY <1>7, <1>10, <1>11
  <2>2. 2 \in DOMAIN stack' => /\ stack'[2].pc \in {"wait", "read"}
                               /\ stack'[2].call < stack'[1].call /\ stack'[1].call \in nested'
    <3>1. SUFFICES ASSUME 2 \in DOMAIN stack'
                   PROVE  /\ stack[1].pc \in {"wait", "read"} /\ stack[1].call < f.call
                          /\ f.call \in nested' /\ stack'[2] = stack[1] /\ stack'[1] = f
      OBVIOUS
    <3>2. 1 \in DOMAIN stack
      BY <1>7, <3>1
    <3>3. stack[1].call \in 1..calls
      BY <1>5, <3>2 DEF FrameOK, FrameAt
    <3> QED  BY <1>1, <1>3, <1>5, <1>7, <1>8, <3>2, <3>3
  <2>3. scope' # 0 => \E k \in DOMAIN stack' : stack'[k].bound
    BY <1>4, <1>6, <1>7 DEF StackInv
  <2>4. profile' # 0 => \E k \in DOMAIN stack' : stack'[k].required
    BY <1>4, <1>6, <1>7 DEF StackInv
  <2> QED  BY <2>1, <2>2, <2>3, <2>4 DEF StackInv, FrameOK
<1>13. StackMoves
  <2>1. \A c : c \in 1..calls => c \in 1..calls' /\ c # calls'
    BY <1>1
  <2>2. \A c : Requested(c) => Requested(c)'
    BY <1>3, <1>7, <2>1 DEF Requested
  <2>3. \A c, k : Requested(c) /\ k \in DOMAIN stack' /\ stack'[k].call = c =>
          \E j \in DOMAIN stack : stack[j].call = c /\ stack[j].token = stack'[k].token
    BY <1>3, <1>7, <2>1 DEF Requested
  <2> QED  BY <1>4, <1>9, <2>2, <2>3 DEF StackMoves
<1> QED  BY <1>1, <1>3, <1>7, <1>9, <1>12, <1>13

-----------------------------------------------------------------------------
(* The steps of the runtime *)

LEMMA TopIs ==
  ASSUME ProgramTypes, StackInv, stack # <<>>
  PROVE  /\ Top = stack[1] /\ 1 \in DOMAIN stack /\ Top \in Frames
         /\ FrameAt(Top, calls, plan, transport, scope, profile)
         /\ Top.call \in RuntimeCalls /\ Top.call # 0 /\ Top.call \in 1..calls
<1>1. Top = stack[1] /\ 1 \in DOMAIN stack /\ Top \in Frames
  BY StackShape DEF Top
<1>2. FrameAt(Top, calls, plan, transport, scope, profile)
  BY <1>1 DEF StackInv, FrameOK
<1>3. Top.call \in RuntimeCalls
  BY <1>1 DEF Frames
<1>4. Top.call \in 1..calls /\ Top.call # 0
  BY <1>2, <1>3, TabAssumption DEF FrameAt, RuntimeCalls
<1> QED  BY <1>1, <1>2, <1>3, <1>4

LEMMA LeaveStep ==
  ASSUME ProgramTypes, StackInv, stack # <<>>, NEW ok \in BOOLEAN, Leave(ok),
         UNCHANGED program,
         token' \in Tokens, conversation' \in Conversations, pending' \in Tokens
  PROVE  ProgramTypes' /\ StackInv' /\ StackMoves
<1>1. stack' \in Seq(Frames) /\ Len(stack') <= 2
  BY Popped DEF Leave
<1>2. scope' \in Tokens /\ profile' \in Tokens
  BY DEF Leave, ProgramTypes, Tokens
<1>3. ProgramTypes'
  BY <1>1, <1>2 DEF ProgramTypes, program
<1> QED  BY <1>3, LeaveStack

LEMMA PutStep ==
  ASSUME ProgramTypes, StackInv, stack # <<>>, UNCHANGED program,
         NEW f \in Frames, stack' = <<f>> \o Tail(stack),
         FrameAt(f, calls, plan, transport, scope', profile'),
         f.call = Top.call,
         Top.pc \in {"wait", "read"} => f.pc \in {"wait", "read"},
         f.token = Top.token \/ Top.pc = "dispatch",
         Top.bound => f.bound, Top.required => f.required,
         scope' = scope \/ (scope = 0 /\ f.bound),
         profile' = profile \/ (profile = 0 /\ f.required),
         token' \in Tokens, scope' \in Tokens, profile' \in Tokens,
         conversation' = conversation, pending' = pending
  PROVE  ProgramTypes' /\ StackInv' /\ StackMoves
<1>1. stack' \in Seq(Frames) /\ Len(stack') <= 2
  BY Replaced
<1>2. ProgramTypes'
  BY <1>1 DEF ProgramTypes, program
<1>3. FrameAt(f, calls', plan', transport', scope', profile')
  BY DEF program
<1> HIDE DEF FrameAt
<1>4. StackInv' /\ StackMoves
  BY <1>3, PutStack
<1> QED  BY <1>2, <1>4

\* What a result brings is typed.
LEMMA ResultIs ==
  ASSUME TabTypes, Arrived
  PROVE  Result \in reply /\ Result.call = Top.call /\ Result \in Replies /\ stack # <<>>
BY DEF TabTypes, Arrived, Result, TopAt

\* A call that goes on does so with a new record.
Put(f) == stack' = <<f>> \o Tail(stack)

\* A call that goes on does not leave.
LEMMA PutIsNotLeave ==
  ASSUME ProgramTypes, stack # <<>>, Top \in Frames, NEW pc \in FramePCs, Goto(pc)
  PROVE  stack' # Tail(stack)
<1> DEFINE f == [Top EXCEPT !.pc = pc]
<1>1. f \in Frames /\ stack' = <<f>> \o Tail(stack)
  BY DEF Frames, Goto
<1> HIDE DEF f
<1>2. DOMAIN stack' = DOMAIN stack
  BY <1>1, Replaced
<1>3. \A s : s = Tail(stack) => DOMAIN s # DOMAIN stack
  BY StackShape, HeadTailProperties DEF ProgramTypes
<1> QED  BY <1>2, <1>3

LEMMA PutSteps ==
  ASSUME Typed, StackInv,
         Resolve \/ Materialize \/ Dispatch \/ DispatchEnd \/ RequestTurn \/
         (NormalResult /\ Goto("read"))
  PROVE  /\ ProgramTypes' /\ StackInv' /\ StackMoves
         /\ \E f \in Frames : /\ Put(f)
                              /\ f.call = Top.call /\ f.request = Top.request
                              /\ f.pc = "read" => NormalResult
<1>1. stack # <<>> /\ UNCHANGED program /\ ProgramTypes
  BY DEF Typed, Resolve, Materialize, Dispatch, DispatchEnd, RequestTurn, NormalResult, Arrived, TopAt
<1>2. /\ Top \in Frames /\ Top.call \in RuntimeCalls /\ Top.call # 0
      /\ FrameAt(Top, calls, plan, transport, scope, profile)
  BY <1>1, TopIs
<1>3. /\ token \in Tokens /\ scope \in Tokens /\ profile \in Tokens
      /\ conversation \in Conversations /\ pending \in Tokens
      /\ Top.call \in Tokens /\ Other \in Conversations /\ 0 \in Conversations /\ 0 \in Tokens
  BY <1>1, <1>2 DEF ProgramTypes, Tokens, Conversations
<1>4. CASE Resolve
  <2> DEFINE f == [Top EXCEPT !.pc = "dispatch"]
  <2>1. f \in Frames /\ FrameAt(f, calls, plan, transport, scope, profile)
    BY <1>2, <1>4 DEF Frames, FramePCs, FrameAt, Resolve, TopAt, Resolvable, AuthoritySupported
  <2>2. /\ Put(f) /\ stack' = <<f>> \o Tail(stack) /\ f.call = Top.call /\ f.token = Top.token
        /\ f.request = Top.request /\ f.pc = "dispatch"
        /\ f.bound = Top.bound /\ f.required = Top.required /\ Top.pc = "resolve"
        /\ UNCHANGED <<scope, profile, token, conversation, pending>>
    BY <1>2, <1>4 DEF Put, Resolve, Goto, TopAt, Frames
  <2> HIDE DEF f
  <2> QED  BY <1>1, <1>3, <2>1, <2>2, PutStep
<1>5. CASE Materialize
  <2> DEFINE f == [Top EXCEPT !.pc = "dispatch", !.bound = TRUE]
  <2>1. f \in Frames /\ FrameAt(f, calls, plan, transport, scope', profile')
    BY <1>2, <1>5 DEF Frames, FramePCs, FrameAt, Materialize, TopAt, Resolvable,
       AuthoritySupported, MediaSupported
  <2>2. /\ Put(f) /\ stack' = <<f>> \o Tail(stack) /\ f.call = Top.call /\ f.token = Top.token
        /\ f.request = Top.request /\ f.pc = "dispatch"
        /\ f.bound /\ f.required = Top.required /\ Top.pc = "resolve" /\ scope' = Top.call
        /\ scope = 0
        /\ UNCHANGED <<profile, token, conversation, pending>>
    BY <1>2, <1>5 DEF Put, Materialize, TopAt, Frames, Resolvable, MediaSupported
  <2> HIDE DEF f
  <2> QED  BY <1>1, <1>3, <2>1, <2>2, PutStep
<1>6. CASE Dispatch
  <2> DEFINE f == [Top EXCEPT !.pc = "request", !.required = Top.request.profile,
                     !.token = IF Top.request.temporary THEN token' ELSE 0,
                     !.asked = CASE Top.request.temporary -> conversation
                                 [] Top.request.conversation -> Other
                                 [] OTHER -> 0]
  <2>1. /\ TopAt("dispatch") /\ Sends(Top.request) /\ Dispatchable(Top.request)
        /\ profile' = (IF Top.request.profile THEN Top.call ELSE profile)
        /\ token' = (IF Top.request.temporary /\ token = 0 THEN Top.call ELSE token)
        /\ Put(f) /\ stack' = <<f>> \o Tail(stack)
        /\ UNCHANGED <<conversation, pending, scope>>
    BY <1>6 DEF Dispatch, Put
  <2>2. Top.request \in CallRequests /\ token' \in Tokens /\ profile' \in Tokens
    BY <1>2, <1>3, <2>1 DEF Frames
  <2>3. Top.request.profile \in BOOLEAN /\ Top.request.temporary \in BOOLEAN /\ Top.request.conversation \in BOOLEAN
    BY <2>2 DEF CallRequests
  <2>4. /\ f.call = Top.call /\ f.request = Top.request /\ f.pc = "request"
        /\ f.bound = Top.bound /\ f.required = Top.request.profile
        /\ f.token = (IF Top.request.temporary THEN token' ELSE 0)
        /\ Top.request.temporary => f.asked = conversation
        /\ f.asked \in Conversations
    <3>1. /\ f.call = Top.call /\ f.request = Top.request /\ f.pc = "request"
          /\ f.bound = Top.bound /\ f.required = Top.request.profile
          /\ f.token = (IF Top.request.temporary THEN token' ELSE 0)
          /\ f.asked = (CASE Top.request.temporary -> conversation
                          [] Top.request.conversation -> Other
                          [] OTHER -> 0)
      BY <1>2 DEF Frames
    <3>2. CASE Top.request.temporary = TRUE
      <4>1. ~Top.request.conversation
        BY <2>1, <3>2 DEF Dispatchable, SessionRouted
      <4> QED  BY <1>3, <3>1, <3>2, <4>1
    <3>3. CASE Top.request.temporary = FALSE
      BY <1>3, <2>3, <3>1, <3>3
    <3> QED  BY <2>3, <3>1, <3>2, <3>3
  <2>5. f \in Frames
    BY <1>2, <1>3, <2>2, <2>3, <2>4 DEF Frames, FramePCs
  <2> HIDE DEF f
  <2>6. Top.pc = "dispatch" /\ ~Top.required
    BY <1>2, <2>1 DEF FrameAt, TopAt
  <2>7. Asks(f)
    BY <1>2, <2>1, <2>2, <2>4 DEF Asks, Sends, Dispatchable, SessionRouted
  <2>8. FrameAt(f, calls, plan, transport, scope', profile')
    <3>1. f.required => f.request.profile /\ profile' = f.call
      BY <2>1, <2>4
    <3> QED  BY <1>2, <2>1, <2>4, <2>6, <2>7, <3>1 DEF FrameAt
  <2>9. profile' = profile \/ (profile = 0 /\ f.required)
    BY <2>1, <2>4 DEF Dispatchable
  <2> QED  BY <1>1, <1>3, <2>1, <2>2, <2>4, <2>5, <2>6, <2>8, <2>9, PutStep
<1>7. CASE DispatchEnd
  <2> DEFINE f == [Top EXCEPT !.pc = "request", !.asked = conversation, !.token = token]
  <2>1. f \in Frames /\ FrameAt(f, calls, plan, transport, scope, profile)
    BY <1>2, <1>3, <1>7 DEF Frames, FramePCs, FrameAt, DispatchEnd, TopAt, Asks, Sends
  <2>2. /\ Put(f) /\ stack' = <<f>> \o Tail(stack) /\ f.call = Top.call
        /\ f.request = Top.request /\ f.pc = "request"
        /\ f.bound = Top.bound /\ f.required = Top.required /\ Top.pc = "dispatch"
        /\ UNCHANGED <<scope, profile, token, conversation, pending>>
    BY <1>2, <1>7 DEF Put, DispatchEnd, TopAt, Frames
  <2> HIDE DEF f
  <2> QED  BY <1>1, <1>3, <2>1, <2>2, PutStep
<1>8. ASSUME NEW pc \in {"wait", "read"},
             \/ pc = "wait" /\ RequestTurn
             \/ pc = "read" /\ NormalResult /\ Goto("read")
      PROVE  /\ ProgramTypes' /\ StackInv' /\ StackMoves
             /\ \E f \in Frames : /\ Put(f)
                                  /\ f.call = Top.call /\ f.request = Top.request
                                  /\ f.pc = "read" => NormalResult
  <2>1. Goto(pc) /\ Top.pc \in {"request", "wait"}
    BY <1>8 DEF RequestTurn, NormalResult, Arrived, TopAt
  <2> DEFINE f == [Top EXCEPT !.pc = pc]
  <2>2. f \in Frames /\ FrameAt(f, calls, plan, transport, scope, profile)
    BY <1>2, <2>1 DEF Frames, FramePCs, FrameAt, Asks
  <2>3. UNCHANGED <<scope, profile, token, conversation, pending>>
    <3>1. CASE RequestTurn
      BY <3>1 DEF RequestTurn
    <3>2. CASE NormalResult /\ Goto("read")
      <4>1. stack' # Tail(stack)
        BY <1>1, <1>2, <3>2, PutIsNotLeave DEF FramePCs
      <4> QED  BY <3>2, <4>1 DEF NormalResult, Leave
    <3> QED  BY <1>8, <3>1, <3>2
  <2>4. /\ Put(f) /\ stack' = <<f>> \o Tail(stack) /\ f.call = Top.call /\ f.token = Top.token
        /\ f.bound = Top.bound /\ f.required = Top.required /\ f.pc = pc
        /\ f.request = Top.request
    BY <1>2, <2>1 DEF Goto, Frames, Put
  <2> HIDE DEF f
  <2>5. ProgramTypes' /\ StackInv' /\ StackMoves
    BY <1>1, <1>3, <2>1, <2>2, <2>3, <2>4, PutStep
  <2>6. pc = "read" => NormalResult
    BY <1>8
  <2> QED  BY <2>2, <2>4, <2>5, <2>6
<1>9. CASE RequestTurn
  BY <1>8, <1>9
<1> QED  BY <1>4, <1>5, <1>6, <1>7, <1>8, <1>9

LEMMA LeaveSteps ==
  ASSUME Typed, StackInv,
         \/ Refuse \/ MediaFails \/ RefuseDispatch \/ NothingToEnd \/ Await \/ Busy
         \/ Abandon \/ TemporaryResult \/ Read \/ EndResult
         \/ NormalResult /\ Leave(FALSE)
  PROVE  /\ ProgramTypes' /\ StackInv' /\ StackMoves
         /\ \E ok \in BOOLEAN : Leave(ok)
<1>1. stack # <<>> /\ UNCHANGED program /\ ProgramTypes /\ TabTypes
  BY DEF Typed, Refuse, MediaFails, RefuseDispatch, NothingToEnd, Await, Busy, Abandon,
     TemporaryResult, Read, EndResult, NormalResult, Arrived, TopAt
<1>2. Top \in Frames /\ Top.call \in Tokens /\ Top.token \in Tokens
  BY <1>1, TopIs DEF Frames, Tokens
<1>3. token \in Tokens /\ conversation \in Conversations /\ pending \in Tokens /\ 0 \in Tokens
      /\ 0 \in Conversations
  BY <1>1 DEF ProgramTypes, Tokens, Conversations
<1>4. \E ok \in BOOLEAN : Leave(ok)
  <2>1. ASSUME TemporaryResult PROVE \E ok \in BOOLEAN : Leave(ok)
    <3>1. Result.status \in BOOLEAN
      BY <1>1, <2>1, ResultIs DEF TemporaryResult, Replies
    <3> QED  BY <2>1, <3>1 DEF TemporaryResult
  <2>2. ASSUME EndResult PROVE \E ok \in BOOLEAN : Leave(ok)
    <3>1. Result.ok \in BOOLEAN
      BY <1>1, <2>2, ResultIs DEF EndResult, Replies
    <3> QED  BY <2>2, <3>1 DEF EndResult
  <2>3. ASSUME Await PROVE \E ok \in BOOLEAN : Leave(ok)
    BY <2>3 DEF Await
  <2>4. ASSUME Read PROVE \E ok \in BOOLEAN : Leave(ok)
    BY <2>4 DEF Read
  <2>5. ASSUME Refuse \/ MediaFails \/ RefuseDispatch \/ NothingToEnd \/ Busy \/ Abandon
        PROVE  Leave(FALSE)
    BY <2>5 DEF Refuse, MediaFails, RefuseDispatch, NothingToEnd, Busy, Abandon
  <2> QED  BY <2>1, <2>2, <2>3, <2>4, <2>5
<1>5. token' \in Tokens /\ conversation' \in Conversations /\ pending' \in Tokens
  <2>1. CASE Refuse \/ MediaFails \/ RefuseDispatch \/ NothingToEnd \/ Await \/ Read \/ NormalResult
    BY <1>2, <1>3, <2>1 DEF Refuse, MediaFails, RefuseDispatch, NothingToEnd, Await, Read,
       NormalResult
  <2>2. CASE Busy \/ Abandon \/ EndResult
    BY <1>3, <2>2 DEF Busy, Abandon, EndResult, Lose, Forget
  <2>3. CASE TemporaryResult
    <3>1. Result.conversation \in Conversations
      BY <1>1, <2>3, ResultIs DEF TemporaryResult, Replies
    <3> QED  BY <1>2, <1>3, <2>3, <3>1 DEF TemporaryResult, Forget
  <2> QED  BY <2>1, <2>2, <2>3
<1>6. ASSUME NEW ok \in BOOLEAN, Leave(ok) PROVE ProgramTypes' /\ StackInv' /\ StackMoves
  BY <1>1, <1>5, <1>6, LeaveStep
<1> QED  BY <1>4, <1>6

\* Every step of the runtime is one or the other.
LEMMA ProgramStep ==
  ASSUME Typed, StackInv, Call \/ RuntimeStep
  PROVE  ProgramTypes' /\ StackInv' /\ StackMoves
<1>1. CASE Call
  <2>1. UNCHANGED <<transport, plan, token, conversation, pending, scope, profile>>
    BY <1>1 DEF Call
  <2> QED  BY <1>1, <2>1, CallStack DEF Typed, ProgramTypes
<1>2. CASE RuntimeStep
  <2>1. NormalResult => Goto("read") \/ Leave(FALSE)
    BY DEF NormalResult
  <2> QED  BY <1>2, <2>1, PutSteps, LeaveSteps DEF RuntimeStep
<1> QED  BY <1>1, <1>2

-----------------------------------------------------------------------------
(* The runtime's steps and the extension *)

\* Whatever the runtime does but ask, the extension's turn, tabs and writes stay.
Quiet == /\ UNCHANGED <<turn, live, stored, tabs, log, over>>
         /\ reply' \subseteq reply

LEMMA QuietSteps ==
  ASSUME Call \/ (RuntimeStep /\ ~RequestTurn)
  PROVE  Quiet
<1>1. CASE Call \/ Resolve \/ Refuse \/ Materialize \/ MediaFails \/ Dispatch \/ RefuseDispatch
           \/ DispatchEnd \/ NothingToEnd \/ Await \/ Busy \/ Read
  <2>1. UNCHANGED tabVars
    BY <1>1 DEF Call, Resolve, Refuse, Materialize, MediaFails, Dispatch, RefuseDispatch,
       DispatchEnd, NothingToEnd, Await, Busy, Read
  <2> QED  BY <2>1 DEF tabVars, Quiet
<1>2. CASE Abandon \/ TemporaryResult \/ NormalResult \/ EndResult
  <2>1. Disconnect(Top.call)
    BY <1>2 DEF Abandon, TemporaryResult, NormalResult, EndResult
  <2> QED  BY <2>1 DEF Disconnect, Quiet
<1> QED  BY <1>1, <1>2 DEF RuntimeStep

LEMMA QuietTab ==
  ASSUME TabTypes, TabInv, Quiet
  PROVE  TabTypes' /\ TabInv'
<1>1. TabTypes'
  BY DEF TabTypes, Quiet
<1>2. TabInv'
  BY DEF TabInv, TurnOK, LiveOK, WriteOK, Wrote, Opens, IsLive, PageOpen, Now, Quiet
<1> QED  BY <1>1, <1>2

\* What is known of a message, a write or a lifecycle stays true.
LEMMA MovesKeep ==
  ASSUME StackMoves
  PROVE  /\ \A m : MessageOK(m) => MessageOK(m)'
         /\ \A c, op, demands : Carries(c, op, demands) => Carries(c, op, demands)'
<1>1. \A c, op, demands : Carries(c, op, demands) => Carries(c, op, demands)'
  BY DEF StackMoves, Carries
<1>2. \A m : MessageOK(m) => MessageOK(m)'
  <2> SUFFICES ASSUME NEW m, MessageOK(m) PROVE MessageOK(m)'
    OBVIOUS
  <2>1. Requested(m.call) /\ Requested(m.call)'
    BY DEF MessageOK, StackMoves
  <2>2. \A k \in DOMAIN stack' : stack'[k].call = m.call => stack'[k].token = m.token
    BY <2>1 DEF MessageOK, StackMoves
  <2>3. IF m.op = "end" THEN plan'[m.call].op = "end" ELSE Carries(m.call, m.op, m.demands)'
    BY <1>1 DEF MessageOK, StackMoves
  <2> QED  BY <2>1, <2>2, <2>3 DEF MessageOK
<1> QED  BY <1>1, <1>2

LEMMA LiveKept ==
  ASSUME RequestInv, StackMoves, live' = live
  PROVE  live' # <<>> => Requested(live[1].token)'
<1>1. live # <<>> => Requested(live[1].token)
  BY DEF RequestInv
<1>2. ASSUME NEW x, x = live[1].token, Requested(x) PROVE Requested(live[1].token)'
  <2>1. Requested(x)'
    BY <1>2 DEF StackMoves
  <2> QED  BY <1>2, <2>1 DEF Requested
<1> QED  BY <1>1, <1>2

LEMMA QuietRequest ==
  ASSUME RequestInv, StackMoves, Quiet
  PROVE  RequestInv'
<1>1. turn' # <<>> => MessageOK(Now.message)'
  <2> DEFINE m == turn[1].message
  <2>1. Now = turn[1] /\ Now' = turn'[1] /\ turn' = turn
    BY DEF Now, Quiet
  <2>2. ASSUME NEW x, x = m, turn # <<>> PROVE MessageOK(Now.message)'
    <3>1. MessageOK(x)
      BY <2>1, <2>2 DEF RequestInv
    <3>2. MessageOK(x)'
      BY <3>1, MovesKeep
    <3>3. Now.message' = x
      BY <2>1, <2>2
    <3> QED  BY <3>2, <3>3 DEF MessageOK, Requested, Carries
  <2> QED  BY <2>1, <2>2
<1>2. live' # <<>> => Requested(live[1].token)'
  BY LiveKept DEF Quiet
<1>3. (\A t \in over : Requested(t))'
  BY DEF RequestInv, StackMoves, Quiet
<1>4. (\A r \in reply : Requested(r.call))'
  BY DEF RequestInv, StackMoves, Quiet
<1>5. (\A w \in log : Carries(w.call, w.op, w.demands))'
  BY MovesKeep DEF RequestInv, Quiet
<1> QED  BY <1>1, <1>2, <1>3, <1>4, <1>5 DEF RequestInv

\* The message carries what the call asked for: what it has entered, or, below a
\* callback, what the call it interrupts has.
LEMMA MessageIs ==
  ASSUME ProgramTypes, StackInv, TopAt("request")
  PROVE  LET m == Message(Top)
         IN  /\ m \in Messages /\ m.call = Top.call /\ m.token = Top.token
             /\ IF m.op = "end" THEN plan[m.call].op = "end"
                               ELSE Carries(m.call, m.op, m.demands)
             /\ m.op = "temporary" /\ m.conversation = 0 => m.token = m.call
<1>1. /\ Top = stack[1] /\ 1 \in DOMAIN stack /\ Top \in Frames
      /\ FrameAt(Top, calls, plan, transport, scope, profile) /\ stack # <<>>
      /\ Top.pc = "request"
  BY TopIs DEF TopAt
<1>2. /\ Asks(Top) /\ Top.request = plan[Top.call] /\ Top.request \in CallRequests
      /\ Top.request.policy => transport.policy
      /\ Top.request.media => Top.bound /\ ~Top.request.temporary
      /\ Top.bound => Top.request.media /\ scope = Top.call
      /\ Top.required => Top.request.profile /\ profile = Top.call
  BY <1>1 DEF FrameAt, Frames
<1>3. /\ Top.request.op \in Ops /\ Top.request.temporary \in BOOLEAN
      /\ Top.request.policy \in BOOLEAN /\ Top.request.profile \in BOOLEAN
      /\ Top.request.media \in BOOLEAN
      /\ transport.policy \in BOOLEAN
  BY <1>2, RuntimeAssumption DEF ProgramTypes, CallRequests
<1>4. /\ Top.call \in RuntimeCalls /\ Top.token \in Tokens /\ Top.asked \in Conversations
      /\ scope \in Tokens /\ profile \in Tokens
  BY <1>1 DEF Frames, ProgramTypes
<1> DEFINE m == Message(Top)
<1>5. /\ m.call = Top.call /\ m.token = Top.token /\ m.conversation = Top.asked
      /\ m.op = (IF Top.request.op = "end" THEN "end"
                 ELSE IF Top.request.temporary THEN "temporary" ELSE "normal")
      /\ m.demands.profile = RequiredProfile(Top.request)
      /\ m.demands.policy =
           (Top.request.policy /\ transport.policy /\ ~Top.request.temporary)
      /\ m.demands.media = Attachments(Top.request)
  BY DEF Message
<1>6. RequiredProfile(Top.request) \in Tokens /\ Attachments(Top.request) \in Tokens
  BY <1>4 DEF RequiredProfile, Attachments, Tokens
<1>7. m \in Messages
  <2>1. [profile |-> RequiredProfile(Top.request),
         policy |-> Top.request.policy /\ transport.policy /\ ~Top.request.temporary,
         media |-> Attachments(Top.request)] \in Demands
    BY <1>3, <1>6 DEF Demands
  <2> QED  BY <1>3, <1>4, <2>1 DEF Messages, Message
<1>8. /\ scope # 0 => Top.bound \/ Top.call \in nested
      /\ profile # 0 => Top.required \/ Top.call \in nested
  <2>1. 2 \in DOMAIN stack => Top.call \in nested
    BY <1>1 DEF StackInv
  <2>2. DOMAIN stack \subseteq {1, 2}
    BY StackShape
  <2> QED  BY <1>1, <2>1, <2>2 DEF StackInv
<1>9. ASSUME m.op # "end" PROVE Carries(m.call, m.op, m.demands)
  <2>1. Sends(Top.request) /\ Top.request.op # "end"
    BY <1>2, <1>3, <1>5, <1>9 DEF Asks, Sends, Ops
  <2>2. /\ Top.request.profile => Top.required
        /\ Top.request.temporary => ~Top.request.policy
    BY <1>2, <2>1 DEF Asks
  <2>3. m.op = "temporary" <=> plan[m.call].temporary
    BY <1>2, <1>3, <1>5, <2>1
  <2>4. m.demands.policy <=> plan[m.call].policy
    BY <1>2, <1>3, <1>5, <2>2
  <2>5. \/ m.demands.profile = IF plan[m.call].profile THEN m.call ELSE 0
        \/ m.call \in nested /\ ~plan[m.call].profile
    <3>1. m.demands.profile = profile
      BY <1>5, <2>1 DEF RequiredProfile
    <3>2. CASE Top.request.profile
      BY <1>2, <1>5, <2>2, <3>1, <3>2
    <3>3. CASE ~Top.request.profile
      <4>1. profile = 0 \/ Top.call \in nested
        BY <1>2, <1>8, <3>3
      <4> QED  BY <1>2, <1>5, <3>1, <3>3, <4>1
    <3> QED  BY <3>2, <3>3
  <2>6. \/ m.demands.media = IF plan[m.call].media THEN m.call ELSE 0
        \/ m.call \in nested /\ ~plan[m.call].media
    <3>1. m.demands.media = (IF Top.request.temporary THEN 0 ELSE scope)
      BY <1>5, <2>1 DEF Attachments
    <3>2. CASE Top.request.media
      BY <1>2, <1>5, <3>1, <3>2
    <3>3. CASE ~Top.request.media
      <4>1. scope = 0 \/ Top.call \in nested
        BY <1>2, <1>8, <3>3
      <4> QED  BY <1>2, <1>5, <3>1, <3>3, <4>1
    <3> QED  BY <3>2, <3>3
  <2>7. m.call \in RuntimeCalls /\ m.demands.policy \in BOOLEAN
    BY <1>3, <1>4, <1>5
  <2> QED  BY <2>3, <2>4, <2>5, <2>6, <2>7 DEF Carries
<1>10. ASSUME m.op = "temporary", m.conversation = 0 PROVE m.token = m.call
  <2>1. Top.request.op # "end" /\ Top.request.temporary
    BY <1>5, <1>10
  <2>2. Sends(Top.request)
    BY <1>2, <1>3, <2>1 DEF Asks, Sends, Ops
  <2> QED  BY <1>2, <1>5, <1>10, <2>1, <2>2 DEF Asks
<1>11. m.op = "end" => plan[m.call].op = "end"
  BY <1>2, <1>5
<1> QED  BY <1>5, <1>7, <1>9, <1>10, <1>11

\* A new message names no lifecycle but one its runtime was given, and a lifecycle
\* it is to open is new to the extension.
LEMMA RequestStep ==
  ASSUME Typed, StackInv, RequestInv, TabInv, RequestTurn
  PROVE  TabTypes' /\ RequestInv' /\ TabInv'
<1> DEFINE x == Message(Top)
<1>1. ProgramTypes /\ TabTypes /\ TopAt("request") /\ stack # <<>>
  BY DEF Typed, RequestTurn, TopAt
<1>2. ProgramTypes' /\ StackInv' /\ StackMoves
  BY ProgramStep DEF RuntimeStep
<1>3. /\ x \in Messages /\ x.call = Top.call /\ x.token = Top.token
      /\ IF x.op = "end" THEN plan[x.call].op = "end" ELSE Carries(x.call, x.op, x.demands)
      /\ x.op = "temporary" /\ x.conversation = 0 => x.token = x.call
  BY <1>1, MessageIs
<1>4. /\ turn' = <<Turn(x)>>
      /\ UNCHANGED <<live, stored, tabs, log, reply, over>>
  BY DEF RequestTurn, Receive
<1>5. /\ Top = stack[1] /\ 1 \in DOMAIN stack /\ Top \in Frames /\ Top.pc = "request"
      /\ Top.call \in 1..calls
  BY <1>1, TopIs DEF TopAt
<1>6. ~Requested(Top.call)
  BY <1>5 DEF Requested
<1>7. ASSUME NEW m, m = x PROVE TabTypes' /\ RequestInv' /\ TabInv'
  <2> HIDE DEF x
  <2>1. turn' = <<Turn(m)>> /\ m \in Messages
    BY <1>3, <1>4, <1>7
  <2>2. Turn(m) \in Turns /\ Turn(m).message = m
    BY <2>1 DEF Turn, Turns, TurnPCs, Maybe
  <2>3. TabTypes'
    BY <1>1, <1>4, <2>1, <2>2 DEF TabTypes, Maybe
  <2>4. \A k \in DOMAIN stack' : stack'[k].call = m.call =>
               stack'[k].pc \in {"wait", "read"} /\ stack'[k].token = m.token
    <3> DEFINE f == [Top EXCEPT !.pc = "wait"]
    <3>1. f \in Frames /\ f.pc = "wait" /\ f.token = Top.token
      BY <1>5 DEF Frames, FramePCs
    <3>2. stack' = <<f>> \o Tail(stack)
      BY DEF RequestTurn, Goto
    <3> HIDE DEF f
    <3>3. /\ DOMAIN stack' = DOMAIN stack /\ DOMAIN stack \subseteq {1, 2}
          /\ stack'[1] = f /\ (2 \in DOMAIN stack => stack'[2] = stack[2])
      BY <1>1, <3>1, <3>2, Replaced
    <3>4. 2 \in DOMAIN stack => stack[2].call # Top.call
      <4>1. \A k \in DOMAIN stack : stack[k].call \in Int
        BY <1>1, StackShape DEF Frames, RuntimeCalls
      <4> QED  BY <1>5, <4>1 DEF StackInv
    <3> QED  BY <1>3, <1>7, <3>1, <3>3, <3>4
  <2>5. UNCHANGED <<calls, plan, nested>>
    BY DEF RequestTurn, program
  <2>6. MessageOK(m)'
    <3>1. Requested(m.call)'
      BY <1>3, <1>5, <1>7, <2>4, <2>5 DEF Requested
    <3>2. IF m.op = "end" THEN plan'[m.call].op = "end" ELSE Carries(m.call, m.op, m.demands)'
      BY <1>3, <1>7, <2>5 DEF Carries
    <3> QED  BY <1>3, <1>7, <2>4, <3>1, <3>2 DEF MessageOK
  <2>7. RequestInv'
    <3>1. turn' # <<>> => MessageOK(Now.message)'
      <4>1. Now.message' = m
        BY <2>1, <2>2 DEF Now
      <4> QED  BY <2>6, <4>1 DEF MessageOK, Requested, Carries
    <3>2. live' # <<>> => Requested(live[1].token)'
      BY <1>2, <1>4, LiveKept
    <3>3. (\A t \in over : Requested(t))' /\ (\A r \in reply : Requested(r.call))'
      BY <1>2, <1>4 DEF RequestInv, StackMoves
    <3>4. (\A w \in log : Carries(w.call, w.op, w.demands))'
      BY <1>2, <1>4, MovesKeep DEF RequestInv
    <3> QED  BY <3>1, <3>2, <3>3, <3>4 DEF RequestInv
  <2>8. TabInv'
    <3>1. ASSUME m.op = "temporary" PROVE TurnOK(Turn(m))'
      <4>1. m.conversation = 0 => m.token \notin over /\ ~IsLive(m.token)
        BY <1>3, <1>6, <1>7, <3>1 DEF RequestInv, IsLive
      <4>2. /\ Turn(m).pc = "start" /\ Turn(m).sent = FALSE /\ Turn(m).message = m
        BY DEF Turn
      <4> QED  BY <1>4, <4>1, <4>2 DEF TurnOK, InTab, IsLive
    <3>2. Now' = Turn(m) /\ turn' # <<>>
      BY <2>1 DEF Now
    <3>3. Now'.message.op = "temporary" => TurnOK(Now)'
      BY <2>2, <3>1, <3>2 DEF TurnOK, Wrote, Opens, IsLive, PageOpen
    <3> QED  BY <1>4, <3>2, <3>3 DEF TabInv, LiveOK, WriteOK, Opens
  <2> QED  BY <2>3, <2>7, <2>8
<1> QED  BY <1>7

-----------------------------------------------------------------------------
(* What the runtime makes of results *)

LEMMA ReplyKept ==
  ASSUME RequestInv, ResultInv, StackMoves, log' = log, reply' \subseteq reply
  PROVE  (\A r \in reply : ReplyOK(r))'
<1> SUFFICES ASSUME NEW r \in reply' PROVE ReplyOK(r)'
  OBVIOUS
<1>1. ReplyOK(r) /\ Requested(r.call)
  BY DEF ResultInv, RequestInv
<1>2. plan' = plan
  BY DEF StackMoves
<1>3. \A k \in DOMAIN stack' : stack'[k].call = r.call =>
        \E j \in DOMAIN stack : stack[j].call = r.call /\ stack[j].token = stack'[k].token
  BY <1>1 DEF StackMoves
<1> QED  BY <1>1, <1>2, <1>3 DEF ReplyOK, Made, Begun

LEMMA LeaveResult ==
  ASSUME ProgramTypes, StackInv, ResultInv, stack # <<>>, NEW ok \in BOOLEAN, Leave(ok),
         UNCHANGED program, log' = log, ok /\ Sends(Top.request) => Made(Top.call)
  PROVE  /\ (\A k \in DOMAIN stack : ReadOK(stack[k]))'
         /\ (\A k \in DOMAIN returned : ReturnOK(returned[k]))'
<1>1. plan' = plan
  BY DEF program
<1>2. \A k \in DOMAIN stack' : 2 \in DOMAIN stack /\ stack'[k] = stack[2]
  BY Popped DEF Leave
<1>3. (\A k \in DOMAIN stack : ReadOK(stack[k]))'
  BY <1>1, <1>2 DEF ResultInv, ReadOK, Made
<1>4. Top.request = plan[Top.call]
  BY TopIs DEF FrameAt
<1>5. ASSUME NEW k \in DOMAIN returned' PROVE ReturnOK(returned[k])'
  <2>1. returned'[k] = [call |-> Top.call, request |-> Top.request, ok |-> ok,
                        claims |-> Claims(Top.request)]
    BY <1>5 DEF Leave
  <2> QED  BY <1>1, <1>4, <2>1 DEF ReturnOK, Made
<1> QED  BY <1>3, <1>5

LEMMA PutResult ==
  ASSUME ProgramTypes, ResultInv, stack # <<>>, UNCHANGED <<program, log, returned>>,
         NEW f \in Frames, Put(f), ReadOK(f)
  PROVE  /\ (\A k \in DOMAIN stack : ReadOK(stack[k]))'
         /\ (\A k \in DOMAIN returned : ReturnOK(returned[k]))'
<1>1. plan' = plan /\ log' = log /\ returned' = returned
  BY DEF program
<1>2. \A k \in DOMAIN stack' : stack'[k] = f \/ (k \in DOMAIN stack /\ stack'[k] = stack[k])
  BY Replaced DEF Put
<1>3. (\A k \in DOMAIN stack : ReadOK(stack[k]))'
  <2> SUFFICES ASSUME NEW k \in DOMAIN stack' PROVE ReadOK(stack[k])'
    OBVIOUS
  <2>1. CASE stack'[k] = f
    BY <1>1, <2>1 DEF ReadOK, Made
  <2>2. CASE k \in DOMAIN stack /\ stack'[k] = stack[k]
    BY <1>1, <2>2 DEF ResultInv, ReadOK, Made
  <2> QED  BY <1>2, <2>1, <2>2
<1>4. (\A k \in DOMAIN returned : ReturnOK(returned[k]))'
  BY <1>1 DEF ResultInv, ReturnOK, Made
<1> QED  BY <1>3, <1>4

\* The result that has arrived is the innermost call's.
LEMMA ArrivedIs ==
  ASSUME Typed, StackInv, ResultInv, Arrived
  PROVE  /\ Result \in Replies
         /\ Result.status => Result.ok
         /\ Result.ok /\ Sends(Top.request) => Made(Top.call)
         /\ Result.status /\ Top.request.temporary /\ Result.conversation # 0 =>
              Top.token # 0 /\ Begun(Result.conversation, Top.token)
<1>1. /\ Result \in reply /\ Result \in Replies /\ Result.call = Top.call /\ stack # <<>>
      /\ Top.pc = "wait"
  BY ResultIs DEF Typed, Arrived, TopAt
<1>2. /\ Top = stack[1] /\ 1 \in DOMAIN stack /\ Top.request = plan[Top.call] /\ Asks(Top)
      /\ Top \in Frames
  BY <1>1, TopIs DEF Typed, FrameAt
<1>3. ReplyOK(Result)
  BY <1>1 DEF ResultInv
<1>4. Top.request.temporary => Top.token # 0
  BY <1>2 DEF Asks, Sends, Frames, CallRequests, Ops
<1> HIDE DEF Result
<1> QED  BY <1>1, <1>2, <1>3, <1>4 DEF ReplyOK

LEMMA ResultStep ==
  ASSUME Typed, StackInv, RequestInv, ResultInv, Call \/ RuntimeStep
  PROVE  ResultInv'
<1>1. StackMoves /\ ProgramTypes /\ log' = log /\ reply' \subseteq reply
  <2>1. CASE RequestTurn
    BY <2>1, ProgramStep DEF RequestTurn, Receive, Typed, RuntimeStep
  <2>2. CASE ~RequestTurn
    BY <2>2, ProgramStep, QuietSteps DEF Quiet, Typed
  <2> QED  BY <2>1, <2>2
<1>2. (\A r \in reply : ReplyOK(r))'
  BY <1>1, ReplyKept
<1>3. CASE Call
  <2>1. /\ \A k \in DOMAIN stack' : \/ stack'[k].pc = "resolve"
                                    \/ \E j \in DOMAIN stack : stack'[k] = stack[j]
        /\ plan' = plan /\ UNCHANGED <<token, conversation>> /\ returned' = <<>>
    BY <1>1, <1>3, CallStack DEF Call
  <2>2. (\A k \in DOMAIN stack : ReadOK(stack[k]))'
    BY <1>1, <2>1 DEF ResultInv, ReadOK, Made
  <2>3. (conversation # 0 => token # 0 /\ Begun(conversation, token))'
    BY <1>1, <2>1 DEF ResultInv, Begun
  <2>4. (\A k \in DOMAIN returned : ReturnOK(returned[k]))'
    BY <2>1
  <2> QED  BY <1>2, <2>2, <2>3, <2>4 DEF ResultInv
<1>4. CASE Resolve \/ Materialize \/ Dispatch \/ DispatchEnd \/ RequestTurn
  <2>1. stack # <<>> /\ UNCHANGED <<program, log, returned, conversation>>
    BY <1>1, <1>4 DEF Resolve, Materialize, Dispatch, DispatchEnd, RequestTurn, TopAt
  <2>2. \E f \in Frames : ReadOK(f) /\ Put(f)
    <3>1. \E f \in Frames : /\ Put(f)
                            /\ f.call = Top.call /\ f.request = Top.request
                            /\ f.pc = "read" => NormalResult
      BY <1>4, PutSteps
    <3>2. TopAt("resolve") \/ TopAt("dispatch") \/ TopAt("request")
      BY <1>4 DEF Resolve, Materialize, Dispatch, DispatchEnd, RequestTurn
    <3>3. ~NormalResult
      BY <3>2 DEF NormalResult, Arrived, TopAt
    <3>4. ASSUME NEW f \in Frames, Put(f), f.pc = "read" => NormalResult
          PROVE  \E g \in Frames : ReadOK(g) /\ Put(g)
      <4>1. ReadOK(f)
        BY <3>3, <3>4 DEF ReadOK
      <4> QED  BY <3>4, <4>1
    <3> QED  BY <3>1, <3>4
  <2>3. /\ (\A k \in DOMAIN stack : ReadOK(stack[k]))'
        /\ (\A k \in DOMAIN returned : ReturnOK(returned[k]))'
    BY <1>1, <2>1, <2>2, PutResult
  <2>4. conversation # 0 => token' = token
    BY <1>4 DEF Resolve, Materialize, Dispatch, DispatchEnd, RequestTurn, ResultInv
  <2>5. (conversation # 0 => token # 0 /\ Begun(conversation, token))'
    BY <1>1, <2>1, <2>4 DEF ResultInv, Begun
  <2> QED  BY <1>2, <2>3, <2>5 DEF ResultInv
<1>5. CASE NormalResult /\ Goto("read")
  <2>1. stack # <<>> /\ Result.ok /\ returned' = returned /\ UNCHANGED <<program, token, conversation>>
    <3>1. /\ stack # <<>> /\ UNCHANGED <<program, token, conversation>>
          /\ Arrived /\ TopAt("wait") /\ ~Top.request.temporary /\ Sends(Top.request)
          /\ IF Result.ok THEN Goto("read") /\ UNCHANGED <<scope, profile, returned>>
                          ELSE Leave(FALSE)
      BY <1>5 DEF NormalResult, Arrived, TopAt
    <3>2. stack' # Tail(stack)
      BY <1>1, <1>5, <3>1, TopIs, PutIsNotLeave DEF FramePCs
    <3> QED  BY <3>1, <3>2 DEF Leave
  <2>2. /\ Arrived /\ ~Top.request.temporary /\ Sends(Top.request) /\ Top \in Frames
    BY <1>1, <1>5, <2>1, TopIs DEF NormalResult
  <2>3. Made(Top.call)
    BY <2>1, <2>2, ArrivedIs
  <2>4. \E f \in Frames : ReadOK(f) /\ Put(f)
    <3>1. \E f \in Frames : /\ Put(f)
                            /\ f.call = Top.call /\ f.request = Top.request
                            /\ f.pc = "read" => NormalResult
      BY <1>5, PutSteps
    <3>2. ASSUME NEW f \in Frames, Put(f), f.call = Top.call, f.request = Top.request
          PROVE  \E g \in Frames : ReadOK(g) /\ Put(g)
      <4>1. ReadOK(f)
        BY <2>2, <2>3, <3>2 DEF ReadOK
      <4> QED  BY <3>2, <4>1
    <3> QED  BY <3>1, <3>2
  <2>5. /\ (\A k \in DOMAIN stack : ReadOK(stack[k]))'
        /\ (\A k \in DOMAIN returned : ReturnOK(returned[k]))'
    BY <1>1, <2>1, <2>4, PutResult
  <2>6. (conversation # 0 => token # 0 /\ Begun(conversation, token))'
    BY <1>1, <2>1 DEF ResultInv, Begun
  <2> QED  BY <1>2, <2>5, <2>6 DEF ResultInv
<1>6. CASE \/ Refuse \/ MediaFails \/ RefuseDispatch \/ NothingToEnd \/ Await \/ Busy
           \/ Abandon \/ TemporaryResult \/ Read \/ EndResult
           \/ NormalResult /\ Leave(FALSE)
  <2>1. stack # <<>> /\ UNCHANGED program
    BY <1>6 DEF Refuse, MediaFails, RefuseDispatch, NothingToEnd, Await, Busy, Abandon,
       TemporaryResult, Read, EndResult, NormalResult, Arrived, TopAt
  <2>2. \E ok \in BOOLEAN : Leave(ok) /\ (ok /\ Sends(Top.request) => Made(Top.call))
    <3>1. ASSUME TemporaryResult
          PROVE  \E ok \in BOOLEAN : Leave(ok) /\ (ok /\ Sends(Top.request) => Made(Top.call))
      <4>1. Arrived /\ \E whole \in BOOLEAN : Leave(Result.status /\ whole)
        BY <3>1 DEF TemporaryResult
      <4>2. Result.status \in BOOLEAN /\ (Result.status /\ Sends(Top.request) => Made(Top.call))
        BY <4>1, ArrivedIs DEF Replies
      <4> HIDE DEF Result
      <4>3. ASSUME NEW whole \in BOOLEAN, Leave(Result.status /\ whole)
            PROVE  \E ok \in BOOLEAN : Leave(ok) /\ (ok /\ Sends(Top.request) => Made(Top.call))
        <5>1. (Result.status /\ whole) \in BOOLEAN
          BY <4>2
        <5>2. (Result.status /\ whole) /\ Sends(Top.request) => Made(Top.call)
          BY <4>2
        <5> QED  BY <4>3, <5>1, <5>2
      <4> QED  BY <4>1, <4>3
    <3>2. ASSUME EndResult \/ Await
          PROVE  \E ok \in BOOLEAN : Leave(ok) /\ (ok /\ Sends(Top.request) => Made(Top.call))
      <4>1. \E ok \in BOOLEAN : Leave(ok)
        BY <3>2, LeaveSteps
      <4>2. ~Sends(Top.request)
        BY <3>2 DEF EndResult, Await, Sends
      <4> QED  BY <4>1, <4>2
    <3>3. ASSUME Read
          PROVE  \E ok \in BOOLEAN : Leave(ok) /\ (ok /\ Sends(Top.request) => Made(Top.call))
      <4>1. Made(Top.call)
        BY <1>1, <2>1, <3>3, TopIs DEF Read, TopAt, ResultInv, ReadOK
      <4> QED  BY <3>3, <4>1 DEF Read
    <3>4. ASSUME \/ Refuse \/ MediaFails \/ RefuseDispatch \/ NothingToEnd \/ Busy \/ Abandon
                 \/ NormalResult /\ Leave(FALSE)
          PROVE  Leave(FALSE)
      BY <3>4 DEF Refuse, MediaFails, RefuseDispatch, NothingToEnd, Busy, Abandon
    <3> QED  BY <1>6, <3>1, <3>2, <3>3, <3>4
  <2>3. /\ (\A k \in DOMAIN stack : ReadOK(stack[k]))'
        /\ (\A k \in DOMAIN returned : ReturnOK(returned[k]))'
    BY <1>1, <2>1, <2>2, LeaveResult
  <2>4. \/ UNCHANGED <<token, conversation>> \/ conversation' = 0
        \/ /\ TemporaryResult /\ Result.status
           /\ token' = Top.token /\ conversation' = Result.conversation
    <3>1. CASE Refuse \/ MediaFails \/ RefuseDispatch \/ NothingToEnd \/ Await \/ Read \/ NormalResult
      BY <3>1 DEF Refuse, MediaFails, RefuseDispatch, NothingToEnd, Await, Read, NormalResult
    <3>2. CASE Busy \/ Abandon \/ EndResult
      BY <3>2 DEF Busy, Abandon, EndResult, Lose, Forget
    <3>3. CASE TemporaryResult
      BY <3>3 DEF TemporaryResult, Forget
    <3> QED  BY <1>6, <3>1, <3>2, <3>3
  <2>5. (conversation # 0 => token # 0 /\ Begun(conversation, token))'
    <3>1. CASE UNCHANGED <<token, conversation>> \/ conversation' = 0
      BY <1>1, <3>1 DEF ResultInv, Begun
    <3>2. CASE /\ TemporaryResult /\ Result.status
               /\ token' = Top.token /\ conversation' = Result.conversation
      <4>1. Arrived /\ Top.request.temporary
        BY <3>2 DEF TemporaryResult
      <4>2. Result.conversation # 0 => Top.token # 0 /\ Begun(Result.conversation, Top.token)
        BY <3>2, <4>1, ArrivedIs
      <4> HIDE DEF Result
      <4> QED  BY <1>1, <3>2, <4>2 DEF Begun
    <3> QED  BY <2>4, <3>1, <3>2
  <2> QED  BY <1>2, <2>3, <2>5 DEF ResultInv
<1>7. NormalResult => Goto("read") \/ Leave(FALSE)
  BY DEF NormalResult
<1> QED  BY <1>3, <1>4, <1>5, <1>6, <1>7 DEF RuntimeStep

-----------------------------------------------------------------------------
(* The extension's steps: types and effects *)

LEMMA TurnIs ==
  ASSUME TabTypes, turn # <<>>
  PROVE  Now \in Turns /\ turn = <<Now>> /\ Now.message \in Messages
BY DEF TabTypes, Maybe, Now, Turns

LEMMA LiveIs ==
  ASSUME TabTypes, live # <<>>
  PROVE  live[1] \in Lives /\ live = <<live[1]>> /\ DOMAIN live = {1}
BY DEF TabTypes, Maybe

\* The lifecycle that was live, if there was one, is over.
LEMMA EndLiveIs ==
  ASSUME TabTypes, EndLive
  PROVE  /\ live' = <<>> /\ over \subseteq over' /\ over' \subseteq Tokens
         /\ live # <<>> => live[1].token \in over'
         /\ \A t \in over' : t \in over \/ (live # <<>> /\ t = live[1].token)
<1>1. live' = <<>> /\ over' = over \cup {live[k].token : k \in DOMAIN live}
  BY DEF EndLive
<1>2. CASE live = <<>>
  BY <1>1, <1>2 DEF TabTypes
<1>3. CASE live # <<>>
  <2>1. {live[k].token : k \in DOMAIN live} = {live[1].token} /\ live[1].token \in Tokens
    BY <1>3, LiveIs DEF Lives
  <2>2. over' = over \cup {live[1].token}
    BY <1>1, <2>1
  <2>3. over \subseteq Tokens
    BY DEF TabTypes
  <2> QED  BY <1>1, <1>3, <2>1, <2>2, <2>3
<1> QED  BY <1>2, <1>3

\* A page is changed in place.
LEMMA PageChanged ==
  ASSUME TabTypes, NEW k \in DOMAIN tabs, NEW page \in Pages,
         tabs' = [tabs EXCEPT ![k] = page]
  PROVE  /\ tabs' \in Seq(Pages) /\ Len(tabs') = Len(tabs) /\ DOMAIN tabs' = DOMAIN tabs
         /\ tabs'[k] = page /\ \A j \in DOMAIN tabs \ {k} : tabs'[j] = tabs[j]
<1>1. tabs \in Seq(Pages) /\ DOMAIN tabs = 1..Len(tabs)
  BY LenProperties DEF TabTypes
<1>2. tabs' \in Seq(Pages) /\ Len(tabs') = Len(tabs)
  BY <1>1, ExceptSeq
<1> QED  BY <1>1, <1>2

\* Closing opens nothing.
LEMMA CloseIs ==
  ASSUME TabTypes, NEW tab, Close(tab)
  PROVE  /\ tabs' \in Seq(Pages) /\ ~(tab \in DOMAIN tabs' /\ tabs'[tab].open)
         /\ \A k : k \in DOMAIN tabs' /\ tabs'[k].open => k \in DOMAIN tabs /\ tabs[k].open
<1>1. CASE tab \notin DOMAIN tabs
  BY <1>1 DEF Close, TabTypes
<1>2. CASE tab \in DOMAIN tabs
  <2> DEFINE page == [tabs[tab] EXCEPT !.open = FALSE]
  <2>1. tabs[tab] \in Pages
    BY <1>2 DEF TabTypes
  <2>2. page \in Pages /\ page.open = FALSE
    BY <2>1 DEF Pages
  <2>3. tabs' = [tabs EXCEPT ![tab] = page]
    BY <1>2 DEF Close
  <2> HIDE DEF page
  <2>4. /\ tabs' \in Seq(Pages) /\ DOMAIN tabs' = DOMAIN tabs
        /\ tabs'[tab] = page /\ \A j \in DOMAIN tabs \ {tab} : tabs'[j] = tabs[j]
    BY <1>2, <2>2, <2>3, PageChanged
  <2> QED  BY <2>2, <2>4
<1> QED  BY <1>1, <1>2

\* What a step of the extension may do beside moving its turn on.
Effect ==
  /\ \/ turn' = <<>>
     \/ turn # <<>> /\ turn' # <<>> /\ turn'[1].message = Now.message
  /\ live' # <<>> =>
       \/ live # <<>> /\ live'[1].token = live[1].token
       \/ /\ turn # <<>> /\ Now.message.op = "temporary" /\ Now.message.conversation = 0
          /\ live'[1].token = Now.message.token
  /\ \A t \in over' : t \in over \/ (live # <<>> /\ t = live[1].token)
  /\ \A r \in reply' : r \in reply \/ (turn # <<>> /\ r.call = Now.message.call)
  /\ log \subseteq log'
  /\ \A w \in log' :
       \/ w \in log
       \/ /\ turn # <<>> /\ Now.message.op # "end"
          /\ w.call = Now.message.call /\ w.op = Now.message.op
          /\ w.demands = Now.message.demands

\* A turn that goes on.
LEMMA MoveEffect ==
  ASSUME TabTypes, turn # <<>>, NEW t \in Turns, turn' = <<t>>, t.message = Now.message,
         UNCHANGED <<live, stored, tabs, log, reply, over>>
  PROVE  TabTypes' /\ Effect
<1>1. TabTypes'
  BY DEF TabTypes, Maybe
<1>2. Effect
  BY DEF Effect
<1> QED  BY <1>1, <1>2

\* A turn that goes on in its tab: it has sent what it had sent, and is past its
\* start.
Goes(t) ==
  /\ turn' = <<t>> /\ t.message = Now.message /\ t.tab = Now.tab /\ t.sent = Now.sent
  /\ Now.pc \in InTab /\ t.pc \in InTab \ {"run"}
  /\ t.pc \in {"proved", "finish"} => t.sent \/ Now.pc = "proved"

LEMMA GoIs ==
  ASSUME Now \in Turns, NEW pc \in InTab \ {"run"}, Go(pc), Now.pc \in InTab,
         pc = "proved" => Now.sent, pc = "finish" => Now.pc = "proved"
  PROVE  \E t \in Turns : Goes(t)
<1> DEFINE t == [Now EXCEPT !.pc = pc]
<1>1. t \in Turns /\ Goes(t)
  BY DEF Turns, TurnPCs, InTab, Goes, Go
<1> QED  BY <1>1

LEMMA TabMoves ==
  ASSUME TabTypes,
         Click \/ RunFails \/ PageSends \/ Abort \/ Prove \/ ProofFails \/ AnswerFails
  PROVE  /\ turn # <<>> /\ Now.message.op = "temporary"
         /\ UNCHANGED <<live, stored, tabs, log, reply, over>>
         /\ \E t \in Turns : Goes(t)
<1>1. /\ turn # <<>> /\ Now.message.op = "temporary"
      /\ UNCHANGED <<live, stored, tabs, log, reply, over>>
  BY DEF Click, RunFails, PageSends, Abort, Prove, ProofFails, AnswerFails, At
<1>2. Now \in Turns
  BY <1>1, TurnIs
<1>3. CASE RunFails \/ ProofFails \/ AnswerFails
  <2>1. Go("failing") /\ Now.pc \in InTab
    BY <1>3 DEF RunFails, ProofFails, AnswerFails, At, InTab
  <2>2. \E t \in Turns : Goes(t)
    BY <1>2, <2>1, GoIs DEF InTab
  <2> QED  BY <1>1, <2>2
<1>4. CASE Click
  <2> DEFINE t == [Now EXCEPT !.pc = "wait", !.clicked = TRUE]
  <2>1. t \in Turns /\ Goes(t)
    BY <1>2, <1>4 DEF Turns, TurnPCs, Click, Goes, At, InTab
  <2> QED  BY <1>1, <2>1
<1>5. CASE PageSends
  <2>1. tabs[Now.tab] \in Pages
    BY <1>5 DEF PageSends, PageOpen, TabTypes
  <2>2. <<Request(Now.tab)>> \in Maybe(Requests)
    BY <2>1 DEF Request, Pages, Maybe, Requests
  <2> DEFINE t == [Now EXCEPT !.clicked = FALSE, !.paused = <<Request(Now.tab)>>]
  <2>3. t \in Turns /\ Goes(t)
    BY <1>2, <1>5, <2>2 DEF Turns, PageSends, Goes, At, InTab
  <2> QED  BY <1>1, <2>3
<1>6. CASE Abort
  <2> DEFINE t == [Now EXCEPT !.paused = <<>>, !.pc = "failing"]
  <2>1. t \in Turns /\ Goes(t)
    BY <1>2, <1>6 DEF Turns, TurnPCs, Abort, Maybe, Goes, At, InTab
  <2> QED  BY <1>1, <2>1
<1>7. CASE Prove
  <2> DEFINE t == [Now EXCEPT !.proof = TRUE, !.pc = IF @ = "wait" THEN "proved" ELSE @]
  <2>1. t \in Turns /\ Goes(t)
    BY <1>2, <1>7 DEF Turns, TurnPCs, Prove, Goes, At, InTab
  <2> QED  BY <1>1, <2>1
<1> QED  BY <1>3, <1>4, <1>5, <1>6, <1>7

\* A turn that returns.
LEMMA ReturnIs ==
  ASSUME TabTypes, turn # <<>>, NEW ok \in BOOLEAN, NEW c \in Conversations,
         NEW status \in BOOLEAN, Return(ok, c, status)
  PROVE  /\ turn' = <<>> /\ reply' \subseteq Replies
         /\ \A r \in reply' : r \in reply \/ r.call = Now.message.call
         /\ \A r \in reply' : r \in reply \/ (r.ok = ok /\ r.conversation = c /\ r.status = status)
<1> DEFINE x == [call |-> Now.message.call, ok |-> ok, conversation |-> c, status |-> status]
<1>1. x \in Replies /\ x.call = Now.message.call
  BY TurnIs DEF Messages, Replies
<1>2. turn' = <<>> /\ \A r \in reply' : r \in reply \/ r = x
  BY DEF Return
<1>3. x.ok = ok /\ x.conversation = c /\ x.status = status
  OBVIOUS
<1> HIDE DEF x
<1> QED  BY <1>1, <1>2, <1>3 DEF TabTypes

\* A write that a failing turn loses is its own, and loose.
LEMMA LooseIs ==
  ASSUME TabTypes, turn # <<>>, \E out \in {FALSE, MayEscape} : Loose(out)
  PROVE  /\ log \subseteq log'
         /\ \A w \in log' :
              \/ w \in log
              \/ /\ Now.message.op = "temporary" /\ w.loose
                 /\ w.call = Now.message.call /\ w.op = Now.message.op
                 /\ w.demands = Now.message.demands
<1>1. CASE Loose(FALSE)
  BY <1>1 DEF Loose
<1>2. CASE Loose(MayEscape) /\ MayEscape
  <2>1. Now.message.op = "temporary"
    BY <1>2 DEF MayEscape
  <2> DEFINE request == IF Now.paused # <<>> THEN Now.paused[1] ELSE Request(Now.tab)
  <2>2. log' = log \cup {Written(Now.message, Now.tab, request, TRUE)}
    BY <1>2 DEF Loose
  <2> HIDE DEF request
  <2> QED  BY <2>1, <2>2 DEF Written
<1>3. CASE Loose(MayEscape) /\ ~MayEscape
  BY <1>3 DEF Loose
<1> QED  BY <1>1, <1>2, <1>3

LEMMA TabEffect ==
  ASSUME TabTypes, TabInv, TabStep \/ Outside
  PROVE  TabTypes' /\ Effect
<1>1. CASE Click \/ RunFails \/ PageSends \/ Abort \/ Prove \/ ProofFails \/ AnswerFails
  <2>1. turn # <<>> /\ UNCHANGED <<live, stored, tabs, log, reply, over>>
    BY <1>1, TabMoves
  <2>2. ASSUME NEW t \in Turns, Goes(t) PROVE TabTypes' /\ Effect
    BY <2>1, <2>2, MoveEffect DEF Goes
  <2> QED  BY <1>1, <2>2, TabMoves
<1>2. CASE Resume
  <2>1. /\ turn # <<>> /\ live # <<>>
        /\ turn' = <<[Now EXCEPT !.pc = "run", !.tab = live[1].tab]>>
        /\ UNCHANGED <<live, stored, tabs, log, reply, over>>
    BY <1>2 DEF Resume, At, Continuable, IsLive
  <2> DEFINE t == [Now EXCEPT !.pc = "run", !.tab = live[1].tab]
  <2>2. t \in Turns /\ t.message = Now.message
    BY <2>1, TurnIs, LiveIs DEF Turns, TurnPCs, Lives
  <2> QED  BY <2>1, <2>2, MoveEffect
<1>3. CASE Store
  <2>1. turn # <<>> /\ Now \in Turns
    BY <1>3, TurnIs DEF Store, At
  <2> DEFINE t == [Now EXCEPT !.pc = "load"]
  <2>2. /\ turn' = <<t>> /\ stored' = Now.tab
        /\ UNCHANGED <<live, tabs, log, reply, over>>
    BY <1>3 DEF Store, Go
  <2>3. t \in Turns /\ t.message = Now.message /\ Now.tab \in Nat
    BY <2>1 DEF Turns, TurnPCs
  <2> HIDE DEF t
  <2>4. TabTypes'
    BY <2>2, <2>3 DEF TabTypes, Maybe
  <2>5. Effect
    BY <2>1, <2>2, <2>3 DEF Effect
  <2> QED  BY <2>4, <2>5
<1>4. CASE Create
  <2>1. turn # <<>> /\ Now \in Turns /\ tabs \in Seq(Pages)
    BY <1>4, TurnIs DEF Create, At, TabTypes
  <2> DEFINE t == [Now EXCEPT !.pc = "store", !.tab = Len(tabs) + 1]
  <2>2. turn' = <<t>> /\ UNCHANGED <<live, stored, log, reply, over>>
    BY <1>4 DEF Create
  <2>3. t \in Turns /\ t.message = Now.message
    <3>1. Len(tabs) \in Nat
      BY <2>1, LenProperties
    <3>2. Len(tabs) + 1 \in Nat
      BY <3>1
    <3> QED  BY <2>1, <3>2 DEF Turns, TurnPCs
  <2>4. tabs' \in Seq(Pages)
    <3>1. ASSUME NEW temporary \in BOOLEAN,
                 tabs' = Append(tabs, [open |-> TRUE, temporary |-> temporary, conversation |-> 0])
          PROVE  tabs' \in Seq(Pages)
      <4>1. [open |-> TRUE, temporary |-> temporary, conversation |-> 0] \in Pages
        BY DEF Pages, Conversations
      <4> QED  BY <2>1, <3>1, <4>1, AppendProperties
    <3> QED  BY <1>4, <3>1 DEF Create
  <2> HIDE DEF t
  <2>5. TabTypes'
    BY <2>2, <2>3, <2>4 DEF TabTypes, Maybe
  <2>6. Effect
    BY <2>1, <2>2, <2>3 DEF Effect
  <2> QED  BY <2>5, <2>6
<1>5. CASE Answer
  <2>1. turn # <<>> /\ Now \in Turns /\ Now.tab \in DOMAIN tabs
    BY <1>5, TurnIs DEF Answer, At, PageOpen
  <2> DEFINE t == [Now EXCEPT !.pc = "finish"]
             page == [tabs[Now.tab] EXCEPT !.conversation = Opened]
  <2>2. turn' = <<t>> /\ UNCHANGED <<live, stored, log, reply, over>>
    BY <1>5 DEF Answer, Go
  <2>3. t \in Turns /\ t.message = Now.message
    BY <2>1 DEF Turns, TurnPCs
  <2>4. page \in Pages
    <3>1. tabs[Now.tab] \in Pages /\ Opened \in Conversations
      BY <2>1 DEF TabTypes, Opened, Turns, Messages, Conversations
    <3> QED  BY <3>1 DEF Pages
  <2>5. tabs' = [tabs EXCEPT ![Now.tab] = page]
    BY <1>5 DEF Answer
  <2> HIDE DEF t, page
  <2>6. tabs' \in Seq(Pages)
    BY <2>1, <2>4, <2>5, PageChanged
  <2>7. TabTypes'
    BY <2>2, <2>3, <2>6 DEF TabTypes, Maybe
  <2>8. Effect
    BY <2>1, <2>2, <2>3 DEF Effect
  <2> QED  BY <2>7, <2>8
<1>6. CASE Load
  <2>1. turn # <<>> /\ Now \in Turns /\ Now.message.op = "temporary" /\ Now.pc = "load"
    BY <1>6, TurnIs DEF Load, At
  <2>2. Now.message.conversation = 0
    BY <2>1 DEF TabInv, TurnOK
  <2> DEFINE t == [Now EXCEPT !.pc = "run"]
             l == [token |-> Now.message.token, tab |-> Now.tab, conversation |-> 0]
  <2>3. turn' = <<t>> /\ live' = <<l>> /\ UNCHANGED <<stored, tabs, log, reply, over>>
    BY <1>6 DEF Load, Go
  <2>4. t \in Turns /\ t.message = Now.message
    BY <2>1 DEF Turns, TurnPCs
  <2>5. l \in Lives /\ l.token = Now.message.token
    BY <2>1 DEF Lives, Turns, Messages, Conversations
  <2> HIDE DEF t, l
  <2>6. TabTypes'
    BY <2>3, <2>4, <2>5 DEF TabTypes, Maybe
  <2>7. Effect
    BY <2>1, <2>2, <2>3, <2>4, <2>5 DEF Effect
  <2> QED  BY <2>6, <2>7
<1>7. CASE Retire
  <2>1. turn # <<>> /\ Now \in Turns /\ EndLive
    BY <1>7, TurnIs DEF Retire, At
  <2> DEFINE t == [Now EXCEPT !.pc = "create"]
             tab == IF live # <<>> THEN live[1].tab ELSE stored
  <2>2. turn' = <<t>> /\ stored' = 0 /\ Close(tab) /\ UNCHANGED <<log, reply>>
    BY <1>7 DEF Retire, Go
  <2>3. t \in Turns /\ t.message = Now.message
    BY <2>1 DEF Turns, TurnPCs
  <2> HIDE DEF t, tab
  <2>4. tabs' \in Seq(Pages)
    BY <2>2, CloseIs
  <2>5. /\ live' = <<>> /\ over' \subseteq Tokens
        /\ \A x \in over' : x \in over \/ (live # <<>> /\ x = live[1].token)
    BY <2>1, EndLiveIs
  <2>6. TabTypes'
    BY <2>2, <2>3, <2>4, <2>5 DEF TabTypes, Maybe
  <2>7. Effect
    BY <2>1, <2>2, <2>3, <2>5 DEF Effect
  <2> QED  BY <2>6, <2>7
<1>8. CASE LoadFails \/ RefuseContinuation
  <2>1. turn # <<>> /\ Return(FALSE, 0, FALSE) /\ UNCHANGED <<live, stored, tabs, log, over>>
    BY <1>8 DEF LoadFails, RefuseContinuation, At, Fails
  <2>2. turn' = <<>> /\ reply' \subseteq Replies
        /\ \A r \in reply' : r \in reply \/ r.call = Now.message.call
    BY <2>1, ReturnIs DEF Conversations
  <2> QED  BY <2>1, <2>2 DEF TabTypes, Maybe, Effect
<1>9. CASE LetGo
  <2>1. turn # <<>> /\ Now \in Turns /\ Now.message.op = "temporary"
    BY <1>9, TurnIs DEF LetGo, At
  <2> DEFINE t == [Now EXCEPT !.paused = <<>>, !.sent = TRUE]
             w == Written(Now.message, Now.tab, Now.paused[1], FALSE)
  <2>2. turn' = <<t>> /\ log' = log \cup {w} /\ UNCHANGED <<live, stored, tabs, reply, over>>
    BY <1>9 DEF LetGo
  <2>3. t \in Turns /\ t.message = Now.message
    BY <2>1 DEF Turns, Maybe
  <2>4. w.call = Now.message.call /\ w.op = Now.message.op /\ w.demands = Now.message.demands
    BY DEF Written
  <2> HIDE DEF t, w
  <2>5. TabTypes'
    BY <2>2, <2>3 DEF TabTypes, Maybe
  <2>6. Effect
    BY <2>1, <2>2, <2>3, <2>4 DEF Effect
  <2> QED  BY <2>5, <2>6
<1>10. CASE Finish
  <2>1. turn # <<>> /\ Now \in Turns /\ UNCHANGED <<stored, tabs, log, over>>
    BY <1>10, TurnIs DEF Finish, At
  <2>2. Opened \in Conversations
    BY <2>1 DEF Opened, Turns, Messages, Conversations
  <2>3. CASE IsLive(Now.message.token)
    <3> DEFINE l == [live[1] EXCEPT !.conversation = Opened]
    <3>1. live # <<>> /\ live' = <<l>>
      BY <1>10, <2>3 DEF Finish, IsLive
    <3>2. l \in Lives /\ l.token = live[1].token
      BY <2>2, <3>1, LiveIs DEF Lives
    <3> HIDE DEF l
    <3>3. turn' = <<>> /\ reply' \subseteq Replies
          /\ \A r \in reply' : r \in reply \/ r.call = Now.message.call
      <4>1. ASSUME NEW status \in BOOLEAN, Return(TRUE, Opened, status)
            PROVE  turn' = <<>> /\ reply' \subseteq Replies
                   /\ \A r \in reply' : r \in reply \/ r.call = Now.message.call
        BY <2>1, <2>2, <4>1, ReturnIs
      <4> QED  BY <1>10, <2>3, <4>1 DEF Finish
    <3> QED  BY <2>1, <3>1, <3>2, <3>3 DEF TabTypes, Maybe, Effect
  <2>4. CASE ~IsLive(Now.message.token)
    <3> DEFINE t == [Now EXCEPT !.pc = "failing"]
    <3>1. turn' = <<t>> /\ UNCHANGED <<live, reply>>
      BY <1>10, <2>4 DEF Finish, Go
    <3>2. t \in Turns /\ t.message = Now.message
      BY <2>1 DEF Turns, TurnPCs
    <3> HIDE DEF t
    <3> QED  BY <2>1, <3>1, <3>2, MoveEffect
  <2> QED  BY <2>3, <2>4
<1>11. CASE Detach
  <2>1. turn # <<>> /\ Now \in Turns /\ Now.message.op = "temporary"
    BY <1>11, TurnIs DEF Detach, At
  <2> DEFINE t == [Now EXCEPT !.pc = "detached", !.clicked = FALSE, !.paused = <<>>]
  <2>2. turn' = <<t>> /\ UNCHANGED <<live, stored, tabs, reply, over>>
    BY <1>11 DEF Detach
  <2>3. t \in Turns /\ t.message = Now.message
    BY <2>1 DEF Turns, TurnPCs, Maybe
  <2>4. /\ log \subseteq log'
        /\ \A w \in log' : \/ w \in log
                           \/ /\ Now.message.op # "end" /\ w.call = Now.message.call
                              /\ w.op = Now.message.op /\ w.demands = Now.message.demands
    BY <1>11, <2>1, LooseIs DEF Detach
  <2> HIDE DEF t
  <2>5. TabTypes'
    BY <2>2, <2>3 DEF TabTypes, Maybe
  <2>6. Effect
    BY <2>1, <2>2, <2>3, <2>4 DEF Effect
  <2> QED  BY <2>5, <2>6
<1>12. CASE Catch
  <2>1. turn # <<>> /\ Now \in Turns /\ log' = log
    BY <1>12, TurnIs DEF Catch, At
  <2>2. Return(FALSE, 0, FALSE)
    BY <1>12 DEF Catch, Fails
  <2>3. turn' = <<>> /\ reply' \subseteq Replies
        /\ \A r \in reply' : r \in reply \/ r.call = Now.message.call
    BY <2>1, <2>2, ReturnIs DEF Conversations
  <2>4. EndLive \/ UNCHANGED <<live, over>>
    BY <1>12 DEF Catch
  <2>5. tabs' \in Seq(Pages) /\ stored' \in Nat
    <3>1. CASE Now.proof
      BY <1>12, <3>1 DEF Catch, TabTypes
    <3>2. CASE ~Now.proof
      <4>1. Close(Now.tab) /\ stored' = IF stored = Now.tab THEN 0 ELSE stored
        BY <1>12, <3>2 DEF Catch
      <4> QED  BY <4>1, CloseIs DEF TabTypes
    <3> QED  BY <3>1, <3>2
  <2>6. /\ live' \in Maybe(Lives) /\ over' \subseteq Tokens
        /\ live' = live \/ live' = <<>>
        /\ \A x \in over' : x \in over \/ (live # <<>> /\ x = live[1].token)
    BY <2>4, EndLiveIs DEF TabTypes, Maybe
  <2>7. TabTypes'
    BY <2>3, <2>5, <2>6 DEF TabTypes, Maybe
  <2>8. Effect
    BY <2>1, <2>3, <2>6 DEF Effect
  <2> QED  BY <2>7, <2>8
<1>13. CASE EndLifecycle
  <2>1. turn # <<>> /\ Now \in Turns /\ log' = log
    BY <1>13, TurnIs DEF EndLifecycle
  <2>2. CASE IsLive(Now.message.token)
    <3>1. live # <<>> /\ live[1].conversation \in Conversations
      BY <2>2, LiveIs DEF IsLive, Lives
    <3>2. /\ EndLive /\ Close(live[1].tab)
          /\ stored' = IF stored = live[1].tab THEN 0 ELSE stored
          /\ Return(TRUE, live[1].conversation, TRUE)
      BY <1>13, <2>2 DEF EndLifecycle
    <3>3. turn' = <<>> /\ reply' \subseteq Replies
          /\ \A r \in reply' : r \in reply \/ r.call = Now.message.call
      BY <2>1, <3>1, <3>2, ReturnIs
    <3>4. tabs' \in Seq(Pages) /\ stored' \in Nat
      BY <3>2, CloseIs DEF TabTypes
    <3>5. /\ live' = <<>> /\ over' \subseteq Tokens
          /\ \A x \in over' : x \in over \/ (live # <<>> /\ x = live[1].token)
      BY <3>2, EndLiveIs
    <3>6. TabTypes'
      BY <3>3, <3>4, <3>5 DEF TabTypes, Maybe
    <3>7. Effect
      BY <2>1, <3>3, <3>5 DEF Effect
    <3> QED  BY <3>6, <3>7
  <2>3. CASE ~IsLive(Now.message.token)
    <3>1. Return(FALSE, 0, FALSE) /\ UNCHANGED <<live, over, tabs, stored>>
      BY <1>13, <2>3 DEF EndLifecycle, Fails
    <3>2. turn' = <<>> /\ reply' \subseteq Replies
          /\ \A r \in reply' : r \in reply \/ r.call = Now.message.call
      BY <2>1, <3>1, ReturnIs DEF Conversations
    <3> QED  BY <2>1, <3>1, <3>2 DEF TabTypes, Maybe, Effect
  <2> QED  BY <2>2, <2>3
<1>14. CASE NormalTurn
  <2>1. turn # <<>> /\ Now \in Turns /\ Now.message.op = "normal"
        /\ UNCHANGED <<live, stored, tabs, over>>
    BY <1>14, TurnIs DEF NormalTurn
  <2> DEFINE c == IF Fresh THEN Now.message.call ELSE Now.message.conversation
             w == Written(Now.message, 0, [temporary |-> FALSE,
                            conversation |-> Now.message.conversation], FALSE)
  <2>2. c \in Conversations
    BY <2>1 DEF Turns, Messages, Conversations
  <2>3. w.call = Now.message.call /\ w.op = Now.message.op /\ w.demands = Now.message.demands
    BY DEF Written
  <2>4. ASSUME NEW out \in BOOLEAN, NEW ok \in BOOLEAN,
               log' = IF ~out THEN log ELSE log \cup {w}, Return(ok, c, ok)
        PROVE  /\ turn' = <<>> /\ reply' \subseteq Replies
               /\ \A r \in reply' : r \in reply \/ r.call = Now.message.call
               /\ log \subseteq log' /\ \A x \in log' : x \in log \/ x = w
    <3> HIDE DEF c, w
    <3>1. turn' = <<>> /\ reply' \subseteq Replies
          /\ \A r \in reply' : r \in reply \/ r.call = Now.message.call
      BY <2>1, <2>2, <2>4, ReturnIs
    <3> QED  BY <2>4, <3>1
  <2>5. \E out \in BOOLEAN, ok \in BOOLEAN :
          (log' = IF ~out THEN log ELSE log \cup {w}) /\ Return(ok, c, ok)
    BY <1>14 DEF NormalTurn
  <2> HIDE DEF c, w
  <2>6. /\ turn' = <<>> /\ reply' \subseteq Replies
        /\ \A r \in reply' : r \in reply \/ r.call = Now.message.call
        /\ log \subseteq log' /\ \A x \in log' : x \in log \/ x = w
    BY <2>4, <2>5
  <2>7. TabTypes'
    BY <2>1, <2>6 DEF TabTypes, Maybe
  <2>8. Effect
    BY <2>1, <2>3, <2>6 DEF Effect
  <2> QED  BY <2>7, <2>8
<1>15. CASE Sweep
  BY <1>15 DEF Sweep, TabTypes, Effect, Now
<1>16. CASE Restart
  <2>1. EndLive /\ turn' = <<>> /\ UNCHANGED <<stored, tabs, reply>>
    BY <1>16 DEF Restart
  <2>2. /\ log \subseteq log'
        /\ \A w \in log' : \/ w \in log
                           \/ /\ turn # <<>> /\ Now.message.op # "end"
                              /\ w.call = Now.message.call
                              /\ w.op = Now.message.op /\ w.demands = Now.message.demands
    <3>1. CASE turn = <<>>
      BY <1>16, <3>1 DEF Restart
    <3>2. CASE turn # <<>>
      BY <1>16, <3>2, LooseIs DEF Restart
    <3> QED  BY <3>1, <3>2
  <2>3. /\ live' = <<>> /\ over' \subseteq Tokens
        /\ \A x \in over' : x \in over \/ (live # <<>> /\ x = live[1].token)
    BY <2>1, EndLiveIs
  <2>4. TabTypes'
    BY <2>1, <2>3 DEF TabTypes, Maybe
  <2>5. Effect
    BY <2>1, <2>2, <2>3 DEF Effect
  <2> QED  BY <2>4, <2>5
<1>17. ASSUME NEW tab \in TabIds, UserCloses(tab) PROVE TabTypes' /\ Effect
  <2>1. Close(tab) /\ UNCHANGED <<turn, stored, log, reply>>
    BY <1>17 DEF UserCloses
  <2>2. EndLive \/ UNCHANGED <<live, over>>
    BY <1>17 DEF UserCloses
  <2>3. /\ live' \in Maybe(Lives) /\ over' \subseteq Tokens
        /\ live' = live \/ live' = <<>>
        /\ \A x \in over' : x \in over \/ (live # <<>> /\ x = live[1].token)
    BY <2>2, EndLiveIs DEF TabTypes, Maybe
  <2>4. tabs' \in Seq(Pages)
    BY <2>1, CloseIs
  <2>5. TabTypes'
    BY <2>1, <2>3, <2>4 DEF TabTypes
  <2>6. Effect
    BY <2>1, <2>3 DEF Effect, Now
  <2> QED  BY <2>5, <2>6
<1>18. ASSUME NEW tab \in TabIds, UserNavigates(tab) PROVE TabTypes' /\ Effect
  <2>1. tab \in DOMAIN tabs /\ UNCHANGED <<turn, live, stored, log, reply, over>>
    BY <1>18 DEF UserNavigates, PageOpen
  <2>2. tabs' \in Seq(Pages)
    <3>1. ASSUME NEW temporary \in BOOLEAN, NEW c \in {0, Other},
                 tabs' = [tabs EXCEPT ![tab].temporary = temporary, ![tab].conversation = c]
          PROVE  tabs' \in Seq(Pages)
      <4> DEFINE page == [tabs[tab] EXCEPT !.temporary = temporary, !.conversation = c]
      <4>1. tabs[tab] \in Pages /\ c \in Conversations
        BY <2>1 DEF TabTypes, Conversations
      <4>2. page \in Pages
        BY <4>1 DEF Pages
      <4>3. tabs' = [tabs EXCEPT ![tab] = page]
        BY <2>1, <3>1 DEF TabTypes
      <4> HIDE DEF page
      <4> QED  BY <2>1, <4>2, <4>3, PageChanged
    <3> QED  BY <1>18, <3>1 DEF UserNavigates
  <2>3. TabTypes'
    BY <2>1, <2>2 DEF TabTypes
  <2>4. Effect
    BY <2>1 DEF Effect, Now
  <2> QED  BY <2>3, <2>4
<1> QED
  BY <1>1, <1>2, <1>3, <1>4, <1>5, <1>6, <1>7, <1>8, <1>9, <1>10, <1>11, <1>12, <1>13,
     <1>14, <1>15, <1>16, <1>17, <1>18 DEF TabStep, Outside

\* Whatever the extension does is for a call that has made its request.
LEMMA EffectRequest ==
  ASSUME TabTypes, RequestInv, Effect, UNCHANGED <<program, stack>>
  PROVE  RequestInv'
<1>1. UNCHANGED <<plan, calls, nested, stack>>
  BY DEF program
<1>2. /\ \A c : Requested(c) => Requested(c)'
      /\ \A m : MessageOK(m) => MessageOK(m)'
      /\ \A c, op, demands : Carries(c, op, demands) => Carries(c, op, demands)'
  BY <1>1 DEF Requested, MessageOK, Carries
<1>3. turn' # <<>> => MessageOK(Now.message)'
  <2>1. ASSUME turn' # <<>> PROVE turn # <<>> /\ Now'.message = Now.message /\ MessageOK(Now.message)
    BY <2>1 DEF Effect, RequestInv, Now
  <2>2. ASSUME NEW x, x = Now'.message, MessageOK(x)' PROVE MessageOK(Now.message)'
    BY <2>2 DEF MessageOK, Requested, Carries
  <2>3. ASSUME NEW x, x = Now.message, MessageOK(x), Now'.message = x PROVE MessageOK(Now.message)'
    BY <1>2, <2>2, <2>3
  <2> QED  BY <2>1, <2>3
<1>4. live' # <<>> => Requested(live[1].token)'
  <2>1. ASSUME live' # <<>> PROVE Requested(live'[1].token)
    <3>1. CASE live # <<>> /\ live'[1].token = live[1].token
      BY <3>1 DEF RequestInv
    <3>2. CASE /\ turn # <<>> /\ Now.message.op = "temporary" /\ Now.message.conversation = 0
               /\ live'[1].token = Now.message.token
      BY <3>2 DEF RequestInv, MessageOK
    <3> QED  BY <2>1, <3>1, <3>2 DEF Effect
  <2>2. Requested(live'[1].token) => Requested(live[1].token)'
    BY <1>1 DEF Requested
  <2> QED  BY <2>1, <2>2
<1>5. ASSUME NEW t \in over' PROVE Requested(t)'
  <2>1. Requested(t)
    BY <1>5 DEF Effect, RequestInv
  <2> QED  BY <1>2, <2>1
<1>6. ASSUME NEW r \in reply' PROVE Requested(r.call)'
  <2>1. Requested(r.call)
    BY <1>6 DEF Effect, RequestInv, MessageOK
  <2> QED  BY <1>2, <2>1
<1>7. ASSUME NEW w \in log' PROVE Carries(w.call, w.op, w.demands)'
  <2>1. Carries(w.call, w.op, w.demands)
    BY <1>7 DEF Effect, RequestInv, MessageOK
  <2> QED  BY <1>2, <2>1
<1> QED  BY <1>3, <1>4, <1>5, <1>6, <1>7 DEF RequestInv

-----------------------------------------------------------------------------
(* The lifecycle, its tab and its writes *)

\* What has been written stays so, and closed tabs stay closed.
LEMMA OpensKept ==
  ASSUME log \subseteq log'
  PROVE  /\ \A c, t, tab : Opens(c, t, tab) => Opens(c, t, tab)'
         /\ \A c, t, tab : Wrote(c, t, tab) => Wrote(c, t, tab)'
         /\ \A c, t : Begun(c, t) => Begun(c, t)'
BY DEF Opens, Wrote, Begun

\* A step that lets nothing go in a Temporary turn.
LEMMA LogKept ==
  ASSUME TabInv, log \subseteq log',
         \A w \in log' : w \in log \/ w.loose \/ w.op # "temporary"
  PROVE  (\A w \in log : WriteOK(w))'
<1> SUFFICES ASSUME NEW w \in log' PROVE WriteOK(w)'
  OBVIOUS
<1>1. CASE w \in log
  BY <1>1, OpensKept DEF TabInv, WriteOK
<1>2. CASE w.loose \/ w.op # "temporary"
  BY <1>2 DEF WriteOK
<1> QED  BY <1>1, <1>2

\* A turn that goes on in its tab, or loses what it has not proven.
LEMMA InTabKept ==
  ASSUME TabTypes, TabInv, turn # <<>>, Now.message.op = "temporary",
         NEW t \in Turns, Goes(t),
         live' = live, over' = over, log \subseteq log',
         \A w \in log' : w \in log \/ w.loose,
         \A k : PageOpen(k)' => PageOpen(k)
  PROVE  TabInv'
<1>1. TurnOK(Now) /\ Now.pc \in InTab
  BY DEF TabInv, Goes
<1>2. /\ Now' = t /\ turn' # <<>>
  BY DEF Now, Goes
<1>3. TurnOK(t)'
  <2>1. t.sent => Wrote(t.message.call, t.message.token, t.tab)'
    BY <1>1, OpensKept DEF TurnOK, Goes
  <2>2. t.pc \in {"proved", "finish"} => t.sent
    BY <1>1 DEF TurnOK, Goes
  <2>3. t.message.conversation # 0 => Opens(t.message.conversation, t.message.token, t.tab)'
    BY <1>1, OpensKept DEF TurnOK, Goes
  <2>4. IsLive(t.message.token)' => live'[1].tab = t.tab
    BY <1>1 DEF TurnOK, Goes, IsLive
  <2>5. t.message.token \in over' => ~PageOpen(t.tab)'
    BY <1>1 DEF TurnOK, Goes
  <2>6. t.pc \in InTab /\ t.pc \notin {"start", "create", "store", "load", "run"}
    BY DEF Goes, InTab
  <2> QED  BY <2>1, <2>2, <2>3, <2>4, <2>5, <2>6 DEF TurnOK
<1>4. TurnOK(Now)'
  BY <1>2, <1>3 DEF TurnOK, Wrote, Opens, IsLive, PageOpen
<1>5. (live # <<>> => LiveOK(live[1]))'
  BY OpensKept DEF TabInv, LiveOK, Opens
<1>6. (\A w \in log : WriteOK(w))'
  BY LogKept
<1> QED  BY <1>4, <1>5, <1>6 DEF TabInv

\* A turn that is over leaves the lifecycle as it is, or ends it.
LEMMA TurnEnds ==
  ASSUME TabInv, turn' = <<>>, live' = <<>> \/ (live' = live /\ over' = over),
         log \subseteq log', \A w \in log' : w \in log \/ w.loose \/ w.op # "temporary"
  PROVE  TabInv'
<1>1. (live # <<>> => LiveOK(live[1]))'
  BY OpensKept DEF TabInv, LiveOK, Opens
<1>2. (\A w \in log : WriteOK(w))'
  BY LogKept
<1> QED  BY <1>1, <1>2 DEF TabInv

\* A turn on the way to its tab.
LEMMA TurnBegins ==
  ASSUME TabInv, NEW t \in Turns, turn' = <<t>>, TurnOK(t)', log' = log,
         (live # <<>> => LiveOK(live[1]))'
  PROVE  TabInv'
<1>1. TurnOK(Now)'
  BY DEF Now, TurnOK, Wrote, Opens, IsLive, PageOpen
<1>2. (\A w \in log : WriteOK(w))'
  BY LogKept
<1> QED  BY <1>1, <1>2 DEF TabInv

LEMMA BeginSteps ==
  ASSUME TabTypes, TabInv, Retire \/ Create \/ Store \/ Load \/ Resume
  PROVE  TabInv' /\ log' = log
<1>1. turn # <<>> /\ Now \in Turns /\ Now.message.op = "temporary" /\ log' = log
  BY TurnIs DEF Retire, Create, Store, Load, Resume, At
<1>2. TurnOK(Now)
  BY <1>1 DEF TabInv
<1>3. CASE Retire
  <2> SUFFICES ASSUME NEW t, t = [Now EXCEPT !.pc = "create"] PROVE TabInv'
    BY <1>1
  <2>1. /\ turn' = <<t>> /\ EndLive /\ Now.pc = "start" /\ Now.message.conversation = 0
    BY <1>3 DEF Retire, Go, At, Fresh
  <2>2. t \in Turns /\ t.message = Now.message /\ t.pc = "create" /\ t.sent = Now.sent
    BY <1>1 DEF Turns, TurnPCs
  <2>3. ~Now.sent /\ Now.message.token \notin over /\ ~IsLive(Now.message.token)
    BY <1>2, <2>1 DEF TurnOK
  <2>4. live' = <<>> /\ Now.message.token \notin over'
    BY <2>1, <2>3, EndLiveIs DEF IsLive
  <2>5. TurnOK(t)'
    BY <2>1, <2>2, <2>3, <2>4 DEF TurnOK, InTab
  <2> QED  BY <1>1, <2>1, <2>2, <2>4, <2>5, TurnBegins
<1>4. CASE Create
  <2> SUFFICES ASSUME NEW t, t = [Now EXCEPT !.pc = "store", !.tab = Len(tabs) + 1] PROVE TabInv'
    BY <1>1
  <2>1. /\ turn' = <<t>> /\ Now.pc = "create" /\ UNCHANGED <<live, over>>
    BY <1>4 DEF Create, At
  <2>2. t.message = Now.message /\ t.pc = "store" /\ t.sent = Now.sent
    BY <1>1 DEF Turns, TurnPCs
  <2>3. t \in Turns
    <3>1. Len(tabs) + 1 \in Nat
      BY LenProperties DEF TabTypes
    <3> QED  BY <1>1, <3>1 DEF Turns, TurnPCs
  <2>4. /\ ~Now.sent /\ Now.message.token \notin over
        /\ live = <<>> /\ Now.message.conversation = 0
    BY <1>2, <2>1 DEF TurnOK
  <2>5. TurnOK(t)'
    BY <2>1, <2>2, <2>4 DEF TurnOK, InTab
  <2> QED  BY <1>1, <2>1, <2>3, <2>4, <2>5, TurnBegins
<1>5. CASE Store
  <2> SUFFICES ASSUME NEW t, t = [Now EXCEPT !.pc = "load"] PROVE TabInv'
    BY <1>1
  <2>1. /\ turn' = <<t>> /\ Now.pc = "store" /\ UNCHANGED <<live, over>>
    BY <1>5 DEF Store, At, Go
  <2>2. t \in Turns /\ t.message = Now.message /\ t.pc = "load" /\ t.sent = Now.sent
    BY <1>1 DEF Turns, TurnPCs
  <2>3. /\ ~Now.sent /\ Now.message.token \notin over
        /\ live = <<>> /\ Now.message.conversation = 0
    BY <1>2, <2>1 DEF TurnOK
  <2>4. TurnOK(t)'
    BY <2>1, <2>2, <2>3 DEF TurnOK, InTab
  <2> QED  BY <1>1, <2>1, <2>2, <2>3, <2>4, TurnBegins
<1>6. CASE Load
  <2> SUFFICES ASSUME NEW t, t = [Now EXCEPT !.pc = "run"],
                      NEW l, l = [token |-> Now.message.token, tab |-> Now.tab, conversation |-> 0]
               PROVE  TabInv'
    BY <1>1
  <2>1. turn' = <<t>> /\ live' = <<l>> /\ Now.pc = "load" /\ over' = over
    BY <1>6 DEF Load, At, Go
  <2>2. t \in Turns /\ t.message = Now.message /\ t.pc = "run" /\ t.sent = Now.sent /\ t.tab = Now.tab
    BY <1>1 DEF Turns, TurnPCs
  <2>3. l.token = Now.message.token /\ l.tab = Now.tab /\ l.conversation = 0
    OBVIOUS
  <2>4. ~Now.sent /\ Now.message.token \notin over /\ Now.message.conversation = 0
    BY <1>2, <2>1 DEF TurnOK
  <2>5. TurnOK(t)'
    BY <2>1, <2>2, <2>3, <2>4 DEF TurnOK, InTab
  <2>6. (live # <<>> => LiveOK(live[1]))'
    BY <2>1, <2>3, <2>4 DEF LiveOK
  <2> QED  BY <1>1, <2>1, <2>2, <2>5, <2>6, TurnBegins
<1>7. CASE Resume
  <2> SUFFICES ASSUME NEW t, t = [Now EXCEPT !.pc = "run", !.tab = live[1].tab] PROVE TabInv'
    BY <1>1
  <2>1. /\ turn' = <<t>> /\ Now.pc = "start" /\ UNCHANGED <<live, over, tabs>> /\ live # <<>>
        /\ live[1].token = Now.message.token
        /\ live[1].conversation = Now.message.conversation
    BY <1>7 DEF Resume, At, Continuable, IsLive
  <2>2. /\ t \in Turns /\ t.message = Now.message /\ t.pc = "run" /\ t.sent = Now.sent
        /\ t.tab = live[1].tab
    BY <1>1, <2>1, LiveIs DEF Turns, TurnPCs, Lives
  <2>3. ~Now.sent /\ LiveOK(live[1])
    BY <1>2, <2>1 DEF TurnOK, TabInv
  <2>4. TurnOK(t)'
    BY <1>1, <2>1, <2>2, <2>3 DEF TurnOK, InTab, LiveOK, Opens, IsLive
  <2>5. (live # <<>> => LiveOK(live[1]))'
    BY <1>1, <2>1, <2>3 DEF LiveOK, Opens
  <2> QED  BY <1>1, <2>1, <2>2, <2>4, <2>5, TurnBegins
<1> QED  BY <1>1, <1>3, <1>4, <1>5, <1>6, <1>7

\* A write let go is temporary, into the conversation the turn names, which was
\* opened under its lifecycle and in its tab; and its lifecycle is not over, for
\* its tab is still open.
LEMMA LetGoStep ==
  ASSUME TabTypes, TabInv, LetGo
  PROVE  TabInv' /\ \A w \in log' \ log : w.token \notin over
<1>1. /\ turn # <<>> /\ Now \in Turns /\ Now.message.op = "temporary"
      /\ Now.pc \in {"wait", "failing"}
      /\ Proven(Now.paused[1]) /\ PageOpen(Now.tab)
      /\ UNCHANGED <<live, tabs, over>>
  BY TurnIs DEF LetGo, At
<1> SUFFICES ASSUME NEW w, w = Written(Now.message, Now.tab, Now.paused[1], FALSE),
                    NEW t, t = [Now EXCEPT !.paused = <<>>, !.sent = TRUE]
             PROVE  TabInv' /\ \A x \in log' \ log : x.token \notin over
  OBVIOUS
<1>2. turn' = <<t>> /\ log' = log \cup {w}
  BY DEF LetGo
<1>3. /\ t.message = Now.message /\ t.pc = Now.pc /\ t.tab = Now.tab /\ t.sent = TRUE
  BY <1>1 DEF Turns
<1>4. /\ w.call = Now.message.call /\ w.token = Now.message.token /\ w.tab = Now.tab
      /\ w.op = "temporary" /\ w.loose = FALSE /\ w.asked = Now.message.conversation
      /\ w.conversation = Now.paused[1].conversation
      /\ w.temporary = Now.paused[1].temporary
  BY <1>1 DEF Written
<1>5. /\ Now.message.conversation # 0 =>
           Opens(Now.message.conversation, Now.message.token, Now.tab)
      /\ IsLive(Now.message.token) => live[1].tab = Now.tab
      /\ Now.message.token \notin over
  BY <1>1 DEF TabInv, TurnOK, InTab
<1>6. Now.paused[1].temporary = TRUE /\ Now.paused[1].conversation = Now.message.conversation
  <2>1. Now.paused \in Maybe(Requests) /\ Now.paused # <<>>
    BY <1>1 DEF Turns, LetGo
  <2>2. Now.paused[1].temporary \in BOOLEAN
    BY <2>1 DEF Maybe, Requests
  <2> QED  BY <1>1, <2>2 DEF Proven
<1>7. TurnOK(t)'
  <2>1. Wrote(t.message.call, t.message.token, t.tab)'
    BY <1>2, <1>3, <1>4, <1>6 DEF Wrote
  <2>2. t.message.conversation # 0 => Opens(t.message.conversation, t.message.token, t.tab)'
    BY <1>2, <1>3, <1>5, OpensKept
  <2> QED  BY <1>1, <1>3, <1>5, <2>1, <2>2 DEF TurnOK, IsLive
<1>8. TurnOK(Now)'
  BY <1>2, <1>7 DEF Now, TurnOK, Wrote, Opens, IsLive, PageOpen
<1>9. (live # <<>> => LiveOK(live[1]))'
  BY <1>1, <1>2, OpensKept DEF TabInv, LiveOK, Opens
<1>10. (\A x \in log : WriteOK(x))'
  <2> SUFFICES ASSUME NEW x \in log' PROVE WriteOK(x)'
    OBVIOUS
  <2>1. CASE x \in log
    BY <1>2, <2>1, OpensKept DEF TabInv, WriteOK
  <2>2. CASE x = w
    <3>1. x.asked # 0 => Opens(x.asked, x.token, x.tab)'
      BY <1>2, <1>4, <1>5, <2>2, OpensKept
    <3> QED  BY <1>4, <1>6, <2>2, <3>1 DEF WriteOK
  <2> QED  BY <1>2, <2>1, <2>2
<1>11. TabInv'
  BY <1>8, <1>9, <1>10 DEF TabInv
<1>12. \A x \in log' \ log : x.token \notin over
  BY <1>2, <1>4, <1>5
<1> QED  BY <1>11, <1>12

\* What a step of the extension does to the lifecycle, and that it lets nothing go
\* under one that is over.
LEMMA TabKept ==
  ASSUME TabTypes, TabInv, TabStep \/ Outside
  PROVE  /\ TabInv'
         /\ \A w \in log' \ log : w.op = "temporary" /\ ~w.loose => w.token \notin over
<1>1. CASE Click \/ RunFails \/ PageSends \/ Abort \/ Prove \/ ProofFails \/ AnswerFails
  <2>1. /\ turn # <<>> /\ Now.message.op = "temporary"
        /\ UNCHANGED <<live, stored, tabs, log, reply, over>>
    BY <1>1, TabMoves
  <2>2. \A k : PageOpen(k)' => PageOpen(k)
    BY <2>1 DEF PageOpen
  <2>3. ASSUME NEW t \in Turns, Goes(t) PROVE TabInv'
    BY <2>1, <2>2, <2>3, InTabKept
  <2> QED  BY <1>1, <2>1, <2>3, TabMoves
<1>2. CASE Answer
  <2>1. /\ turn # <<>> /\ Now \in Turns /\ Now.message.op = "temporary" /\ Now.pc = "proved"
        /\ UNCHANGED <<live, log, over>> /\ Now.tab \in DOMAIN tabs
    BY <1>2, TurnIs DEF Answer, At, PageOpen
  <2>2. \A k : PageOpen(k)' => PageOpen(k)
    <3>1. tabs' = [tabs EXCEPT ![Now.tab].conversation = Opened] /\ tabs[Now.tab] \in Pages
      BY <1>2, <2>1 DEF Answer, TabTypes
    <3> QED  BY <2>1, <3>1 DEF PageOpen, TabTypes, Pages
  <2>3. \E t \in Turns : Goes(t)
    <3>1. Go("finish")
      BY <1>2 DEF Answer
    <3> QED  BY <2>1, <3>1, GoIs DEF InTab
  <2>4. ASSUME NEW t \in Turns, Goes(t) PROVE TabInv'
    BY <2>1, <2>2, <2>4, InTabKept
  <2> QED  BY <2>1, <2>3, <2>4
<1>3. CASE Detach
  <2>1. /\ turn # <<>> /\ Now \in Turns /\ Now.message.op = "temporary" /\ Now.pc = "failing"
        /\ UNCHANGED <<live, tabs, over>>
    BY <1>3, TurnIs DEF Detach, At
  <2>2. log \subseteq log' /\ \A w \in log' : w \in log \/ w.loose
    BY <1>3, <2>1, LooseIs DEF Detach
  <2>3. \E t \in Turns : Goes(t)
    <3> DEFINE t == [Now EXCEPT !.pc = "detached", !.clicked = FALSE, !.paused = <<>>]
    <3>1. t \in Turns /\ Goes(t)
      BY <1>3, <2>1 DEF Turns, TurnPCs, Maybe, Detach, Goes, InTab
    <3> QED  BY <3>1
  <2>4. \A k : PageOpen(k)' => PageOpen(k)
    BY <2>1 DEF PageOpen
  <2>5. ASSUME NEW t \in Turns, Goes(t) PROVE TabInv'
    BY <2>1, <2>2, <2>4, <2>5, InTabKept
  <2> QED  BY <2>2, <2>3, <2>5
<1>4. CASE Finish
  <2>1. /\ turn # <<>> /\ Now \in Turns /\ Now.message.op = "temporary" /\ Now.pc = "finish"
        /\ UNCHANGED <<tabs, log, over>>
    BY <1>4, TurnIs DEF Finish, At
  <2>2. CASE IsLive(Now.message.token)
    <3> SUFFICES ASSUME NEW l, l = [live[1] EXCEPT !.conversation = Opened] PROVE TabInv'
      BY <2>1
    <3>1. live # <<>> /\ live' = <<l>> /\ live[1].token = Now.message.token /\ turn' = <<>>
      BY <1>4, <2>2 DEF Finish, IsLive, Return
    <3>2. l.token = live[1].token /\ l.tab = live[1].tab /\ l.conversation = Opened
      BY <3>1, LiveIs DEF Lives
    <3>3. TurnOK(Now) /\ live[1].token \notin over
      BY <2>1, <3>1 DEF TabInv, LiveOK
    <3>4. /\ Wrote(Now.message.call, Now.message.token, Now.tab) /\ live[1].tab = Now.tab
          /\ Now.message.conversation # 0 =>
               Opens(Now.message.conversation, Now.message.token, Now.tab)
      BY <2>1, <2>2, <3>3 DEF TurnOK, InTab
    <3>5. Opens(Opened, l.token, l.tab)
      BY <3>1, <3>2, <3>4 DEF Opened, Fresh, Wrote, Opens
    <3>6. (live # <<>> => LiveOK(live[1]))'
      <4>1. live'[1] = l /\ log' = log /\ over' = over /\ l.token \notin over
        BY <2>1, <3>1, <3>2, <3>3
      <4> QED  BY <3>5, <4>1 DEF LiveOK, Opens
    <3>7. (\A w \in log : WriteOK(w))'
      BY <2>1, LogKept
    <3> QED  BY <3>1, <3>6, <3>7 DEF TabInv
  <2>3. CASE ~IsLive(Now.message.token)
    <3>1. Go("failing") /\ live' = live
      BY <1>4, <2>3 DEF Finish
    <3>2. \E t \in Turns : Goes(t)
      BY <2>1, <3>1, GoIs DEF InTab
    <3>3. \A k : PageOpen(k)' => PageOpen(k)
      BY <2>1 DEF PageOpen
    <3>4. ASSUME NEW t \in Turns, Goes(t) PROVE TabInv'
      <4>1. /\ live' = live /\ over' = over /\ log \subseteq log'
            /\ \A w \in log' : w \in log \/ w.loose
        BY <2>1, <3>1
      <4> QED  BY <2>1, <3>3, <3>4, <4>1, InTabKept
    <3> QED  BY <2>1, <3>2, <3>4
  <2> QED  BY <2>1, <2>2, <2>3
<1>5. CASE LetGo
  BY <1>5, LetGoStep
<1>6. CASE Retire \/ Create \/ Store \/ Load \/ Resume
  BY <1>6, BeginSteps
<1>7. CASE LoadFails \/ RefuseContinuation \/ Catch \/ EndLifecycle \/ NormalTurn \/ Restart
  <2>1. turn' = <<>>
    BY <1>7 DEF LoadFails, RefuseContinuation, Catch, EndLifecycle, NormalTurn, Restart,
       Fails, Return
  <2>2. live' = <<>> \/ (live' = live /\ over' = over)
    BY <1>7 DEF LoadFails, RefuseContinuation, Catch, EndLifecycle, NormalTurn, Restart,
       EndLive
  <2>3. log \subseteq log' /\ \A w \in log' : w \in log \/ w.loose \/ w.op # "temporary"
    <3>1. CASE LoadFails \/ RefuseContinuation \/ Catch \/ EndLifecycle
      BY <3>1 DEF LoadFails, RefuseContinuation, Catch, EndLifecycle
    <3>2. CASE NormalTurn
      BY <3>2 DEF NormalTurn, Written
    <3>3. CASE Restart
      <4>1. CASE turn = <<>>
        BY <3>3, <4>1 DEF Restart
      <4>2. CASE turn # <<>>
        BY <3>3, <4>2, LooseIs DEF Restart
      <4> QED  BY <4>1, <4>2
    <3> QED  BY <1>7, <3>1, <3>2, <3>3
  <2> QED  BY <2>1, <2>2, <2>3, TurnEnds
<1>8. CASE Sweep
  BY <1>8 DEF Sweep, TabInv, TurnOK, LiveOK, WriteOK, Wrote, Opens, IsLive, PageOpen, Now
<1>9. ASSUME NEW tab \in TabIds, UserCloses(tab) \/ UserNavigates(tab) PROVE TabInv' /\ log' = log
  <2>1. turn' = turn /\ log' = log
    BY <1>9 DEF UserCloses, UserNavigates
  <2>2. \A k : PageOpen(k)' => PageOpen(k)
    <3>1. CASE UserCloses(tab)
      BY <3>1, CloseIs DEF UserCloses, PageOpen
    <3>2. CASE UserNavigates(tab)
      BY <3>2 DEF UserNavigates, PageOpen, TabTypes, Pages
    <3> QED  BY <1>9, <3>1, <3>2
  <2>3. \/ UNCHANGED <<live, over>>
        \/ /\ live # <<>> /\ live' = <<>> /\ ~PageOpen(tab)' /\ live[1].tab = tab
           /\ \A x \in over' : x \in over \/ x = live[1].token
    <3>1. CASE UserCloses(tab)
      <4>1. Close(tab) /\ (UNCHANGED <<live, over>> \/ (live # <<>> /\ live[1].tab = tab /\ EndLive))
        BY <3>1 DEF UserCloses
      <4>2. ~PageOpen(tab)'
        BY <4>1, CloseIs DEF PageOpen
      <4> QED  BY <4>1, <4>2, EndLiveIs
    <3>2. CASE UserNavigates(tab)
      BY <3>2 DEF UserNavigates
    <3> QED  BY <1>9, <3>1, <3>2
  <2>4. (turn # <<>> /\ Now.message.op = "temporary" => TurnOK(Now))'
    <3> SUFFICES ASSUME NEW t, t = Now, turn # <<>>, t.message.op = "temporary" PROVE TurnOK(Now)'
      BY <2>1 DEF Now
    <3>1. TurnOK(t) /\ Now' = t
      BY <2>1 DEF TabInv, Now
    <3>2. /\ t.sent => Wrote(t.message.call, t.message.token, t.tab)'
          /\ \A c, k, p : Opens(c, k, p) => Opens(c, k, p)'
      BY <2>1, <3>1, OpensKept DEF TurnOK
    <3>3. \A k : IsLive(k)' => IsLive(k) /\ live' = live
      BY <2>3 DEF IsLive
    <3>4. t.message.token \in over' =>
            \/ t.message.token \in over
            \/ IsLive(t.message.token) /\ live[1].tab = tab /\ ~PageOpen(tab)'
      BY <2>3 DEF IsLive
    <3>5. t.pc \in InTab /\ t.message.token \in over' => ~PageOpen(t.tab)'
      BY <2>2, <3>1, <3>4 DEF TurnOK
    <3>6. t.pc \in InTab /\ IsLive(t.message.token)' => live'[1].tab = t.tab
      BY <3>1, <3>3 DEF TurnOK
    <3>7. /\ t.pc = "start" /\ t.message.conversation = 0 =>
               t.message.token \notin over' /\ ~IsLive(t.message.token)'
          /\ t.pc \in {"create", "store", "load"} =>
               t.message.conversation = 0 /\ live' = <<>> /\ t.message.token \notin over'
      BY <2>3, <3>1, <3>3, <3>4 DEF TurnOK
    <3>8. TurnOK(t)'
      BY <3>1, <3>2, <3>5, <3>6, <3>7 DEF TurnOK
    <3> QED  BY <3>1, <3>8 DEF TurnOK, Wrote, Opens, IsLive, PageOpen
  <2>5. (live # <<>> => LiveOK(live[1]))'
    BY <2>1, <2>3 DEF TabInv, LiveOK, Opens
  <2>6. (\A w \in log : WriteOK(w))'
    BY <2>1, LogKept
  <2> QED  BY <2>1, <2>4, <2>5, <2>6 DEF TabInv
<1> QED
  BY <1>1, <1>2, <1>3, <1>4, <1>5, <1>6, <1>7, <1>8, <1>9 DEF TabStep, Outside

-----------------------------------------------------------------------------
(* Results *)

\* A reply is no more than what has been written.
LEMMA Replied ==
  ASSUME Typed, RequestInv, TabInv, Effect, TabStep \/ Outside, UNCHANGED <<plan, stack>>,
         NEW r \in reply', r \notin reply
  PROVE  ReplyOK(r)'
<1>1. /\ turn # <<>> /\ Now \in Turns /\ r.call = Now.message.call /\ MessageOK(Now.message)
      /\ TabTypes /\ log \subseteq log'
  BY TurnIs DEF Typed, Effect, RequestInv
<1>2. /\ plan[r.call].temporary \in BOOLEAN
      /\ \A k \in DOMAIN stack' : stack'[k].call = r.call => stack'[k].token = Now.message.token
  <2>1. r.call \in RuntimeCalls
    BY <1>1 DEF Turns, Messages
  <2> QED  BY <1>1, <2>1, RuntimeAssumption DEF MessageOK, Typed, ProgramTypes, CallRequests
<1>3. ASSUME Fails PROVE ReplyOK(r)'
  <2>1. r.ok = FALSE /\ r.status = FALSE
    BY <1>1, <1>3, ReturnIs DEF Fails, Conversations
  <2> QED  BY <2>1 DEF ReplyOK
<1>4. CASE Finish
  <2>1. Now.message.op = "temporary" /\ Now.pc = "finish" /\ log' = log
    BY <1>4 DEF Finish, At
  <2>2. reply' # reply
    OBVIOUS
  <2>3. IsLive(Now.message.token) /\ \E status \in BOOLEAN : Return(TRUE, Opened, status)
    BY <1>4, <2>2 DEF Finish
  <2>4. Opened \in Conversations
    BY <1>1 DEF Opened, Turns, Messages, Conversations
  <2>5. r.ok = TRUE /\ r.conversation = Opened
    BY <1>1, <2>3, <2>4, ReturnIs
  <2>6. /\ Wrote(Now.message.call, Now.message.token, Now.tab)
        /\ Now.message.conversation # 0 =>
             Opens(Now.message.conversation, Now.message.token, Now.tab)
    BY <1>1, <2>1 DEF TabInv, TurnOK, InTab
  <2>7. plan[r.call].temporary = TRUE
    BY <1>1, <1>2, <2>1 DEF MessageOK, Carries
  <2>8. Made(r.call)
    BY <1>1, <2>6, <2>7 DEF Wrote, Made
  <2>9. Begun(Opened, Now.message.token)
    BY <2>6 DEF Opened, Fresh, Wrote, Opens, Begun
  <2> QED  BY <1>2, <2>1, <2>5, <2>8, <2>9 DEF ReplyOK, Made, Begun
<1>5. CASE EndLifecycle
  <2>1. plan[r.call].op = "end"
    BY <1>1, <1>5 DEF EndLifecycle, MessageOK
  <2>2. CASE IsLive(Now.message.token)
    <3>1. /\ live # <<>> /\ live[1].token = Now.message.token
          /\ Return(TRUE, live[1].conversation, TRUE) /\ log' = log
      BY <1>5, <2>2 DEF EndLifecycle, IsLive
    <3>2. live[1].conversation \in Conversations
      BY <1>1, <3>1, LiveIs DEF Lives
    <3>3. r.ok = TRUE /\ r.conversation = live[1].conversation
      BY <1>1, <3>1, <3>2, ReturnIs
    <3>4. r.conversation # 0 => Begun(r.conversation, Now.message.token)
      BY <3>1, <3>3 DEF TabInv, LiveOK, Opens, Begun
    <3> QED  BY <1>2, <2>1, <3>1, <3>3, <3>4 DEF ReplyOK, Sends, Begun
  <2>3. CASE ~IsLive(Now.message.token)
    BY <1>3, <1>5, <2>3 DEF EndLifecycle
  <2> QED  BY <2>2, <2>3
<1>6. CASE NormalTurn
  <2>1. Now.message.op = "normal"
    BY <1>6 DEF NormalTurn
  <2>2. plan[r.call].temporary = FALSE
    BY <1>1, <1>2, <2>1 DEF MessageOK, Carries
  <2> DEFINE c == IF Fresh THEN Now.message.call ELSE Now.message.conversation
             w == Written(Now.message, 0, [temporary |-> FALSE,
                            conversation |-> Now.message.conversation], FALSE)
  <2>3. w.call = Now.message.call /\ w.loose = FALSE /\ w.temporary = FALSE
    BY DEF Written
  <2>4. c \in Conversations
    BY <1>1 DEF Turns, Messages, Conversations
  <2>5. \E out \in BOOLEAN, ok \in BOOLEAN :
          (ok => out) /\ (log' = IF ~out THEN log ELSE log \cup {w}) /\ Return(ok, c, ok)
    BY <1>6 DEF NormalTurn
  <2> HIDE DEF c, w
  <2>6. ASSUME NEW out \in BOOLEAN, NEW ok \in BOOLEAN, ok => out,
               log' = IF ~out THEN log ELSE log \cup {w}, Return(ok, c, ok)
        PROVE  (r.status => r.ok) /\ (r.ok => w \in log')
    <3>1. r.ok = ok /\ r.status = ok
      BY <1>1, <2>4, <2>6, ReturnIs
    <3> QED  BY <2>6, <3>1
  <2>7. (r.status => r.ok) /\ (r.ok => w \in log')
    BY <2>5, <2>6
  <2>8. r.ok => Made(r.call)'
    BY <1>1, <2>2, <2>3, <2>7 DEF Made
  <2> QED  BY <2>2, <2>7, <2>8 DEF ReplyOK
<1>7. CASE LoadFails \/ RefuseContinuation \/ Catch
  BY <1>3, <1>7 DEF LoadFails, RefuseContinuation, Catch
<1>8. CASE Click \/ RunFails \/ PageSends \/ Abort \/ Prove \/ ProofFails \/ AnswerFails
  BY <1>1, <1>8, TabMoves
<1>9. CASE Retire \/ Create \/ Store \/ Load \/ Resume \/ LetGo \/ Answer \/ Detach \/ Sweep \/ Outside
  BY <1>9 DEF Retire, Create, Store, Load, Resume, LetGo, Answer, Detach, Sweep, Outside,
     Restart, UserCloses, UserNavigates
<1> QED  BY <1>4, <1>5, <1>6, <1>7, <1>8, <1>9 DEF TabStep

LEMMA EffectResult ==
  ASSUME Typed, RequestInv, TabInv, ResultInv, Effect, TabStep \/ Outside,
         UNCHANGED <<plan, stack, token, conversation, returned>>
  PROVE  ResultInv'
<1>1. log \subseteq log'
  BY DEF Effect
<1>2. /\ \A c : Made(c) => Made(c)'
      /\ \A c, t : Begun(c, t) => Begun(c, t)'
  BY <1>1 DEF Made, Begun
<1>3. ASSUME NEW r \in reply' PROVE ReplyOK(r)'
  <2>1. CASE r \in reply
    <3>1. ReplyOK(r)
      BY <2>1 DEF ResultInv
    <3> QED  BY <1>2, <3>1 DEF ReplyOK
  <2>2. CASE r \notin reply
    BY <2>2, Replied
  <2> QED  BY <2>1, <2>2
<1>4. ASSUME NEW k \in DOMAIN stack' PROVE ReadOK(stack[k])'
  BY <1>1 DEF ResultInv, ReadOK, Made
<1>5. (conversation # 0 => token # 0 /\ Begun(conversation, token))'
  BY <1>1 DEF ResultInv, Begun
<1>6. ASSUME NEW k \in DOMAIN returned' PROVE ReturnOK(returned[k])'
  BY <1>1 DEF ResultInv, ReturnOK, Made
<1> QED  BY <1>3, <1>4, <1>5, <1>6 DEF ResultInv

-----------------------------------------------------------------------------
(* The inductive invariant and the theorems *)

LEMMA RuntimeInvInit == Init => RuntimeInv
<1> SUFFICES ASSUME Init PROVE RuntimeInv
  OBVIOUS
<1>1. Typed
  <2>1. 0 \in Tokens /\ 0 \in Conversations /\ <<>> \in Seq(Frames) /\ <<>> \in Seq(Pages)
    BY EmptySeq DEF Tokens, Conversations
  <2>2. Len(stack) = 0 /\ 0 \in 0..MaxCalls
    BY TabAssumption DEF Init
  <2> QED
    BY <2>1, <2>2 DEF Init, TabInit, Typed, TabTypes, ProgramTypes, Maybe
<1>2. StackInv /\ RequestInv /\ TabInv /\ ResultInv
  <2>1. DOMAIN stack = {} /\ DOMAIN returned = {}
    BY DEF Init
  <2> QED
    BY <2>1 DEF Init, TabInit, StackInv, RequestInv, TabInv, ResultInv
<1> QED  BY <1>1, <1>2 DEF RuntimeInv

LEMMA RuntimeInvStep == RuntimeInv /\ [Next]_vars => RuntimeInv'
<1> SUFFICES ASSUME RuntimeInv, [Next]_vars PROVE RuntimeInv'
  OBVIOUS
<1>1. Typed /\ TabTypes /\ ProgramTypes /\ StackInv /\ RequestInv /\ TabInv /\ ResultInv
  BY DEF RuntimeInv, Typed
<1>2. CASE Call \/ RuntimeStep
  <2>1. ProgramTypes' /\ StackInv' /\ StackMoves /\ ResultInv'
    BY <1>1, <1>2, ProgramStep, ResultStep
  <2>2. TabTypes' /\ RequestInv' /\ TabInv'
    <3>1. CASE RequestTurn
      BY <1>1, <3>1, RequestStep
    <3>2. CASE ~RequestTurn
      BY <1>1, <1>2, <2>1, <3>2, QuietSteps, QuietTab, QuietRequest
    <3> QED  BY <3>1, <3>2
  <2> QED  BY <2>1, <2>2 DEF RuntimeInv, Typed
<1>3. CASE Extension
  <2>1. /\ TabStep \/ Outside
        /\ UNCHANGED <<program, token, conversation, pending, scope, profile, stack, returned>>
    BY <1>3 DEF Extension
  <2>2. TabTypes' /\ Effect
    BY <1>1, <2>1, TabEffect
  <2>3. ProgramTypes' /\ StackInv'
    BY <1>1, <2>1 DEF ProgramTypes, StackInv, FrameOK, program
  <2>4. RequestInv' /\ TabInv' /\ ResultInv'
    BY <1>1, <2>1, <2>2, EffectRequest, TabKept, EffectResult DEF program
  <2> QED  BY <2>2, <2>3, <2>4 DEF RuntimeInv, Typed
<1>4. CASE UNCHANGED vars
  <2> USE <1>4 DEF vars
  <2>1. Typed'
    BY <1>1 DEF Typed, TabTypes, ProgramTypes
  <2>2. StackInv'
    BY <1>1 DEF StackInv, FrameOK
  <2>3. RequestInv'
    BY <1>1 DEF RequestInv, MessageOK, Requested, Carries, Now
  <2>4. TabInv'
    BY <1>1 DEF TabInv, TurnOK, LiveOK, WriteOK, Wrote, Opens, IsLive, PageOpen, Now
  <2>5. ResultInv'
    BY <1>1 DEF ResultInv, ReplyOK, ReadOK, ReturnOK, Made, Begun
  <2> QED  BY <2>1, <2>2, <2>3, <2>4, <2>5 DEF RuntimeInv
<1> QED  BY <1>2, <1>3, <1>4 DEF Next

LEMMA RuntimeInvHolds == Spec => []RuntimeInv
BY RuntimeInvInit, RuntimeInvStep, PTL DEF Spec

\* The runtime's and the extension's variables keep their types.
THEOREM TypeCorrect == Spec => []TypeOK
<1>1. RuntimeInv => TypeOK
  <2> SUFFICES ASSUME RuntimeInv PROVE TypeOK
    OBVIOUS
  <2>1. TabTypes /\ ProgramTypes
    BY DEF RuntimeInv, Typed
  <2>2. \A k \in DOMAIN stack : stack[k] \in Frames
    BY <2>1, StackShape
  <2>3. \A k \in DOMAIN turn : turn[k].message \in Messages /\ turn[k].pc \in TurnPCs
    BY <2>1 DEF TabTypes, Maybe, Turns
  <2>4. \A k \in DOMAIN tabs : tabs[k] \in Pages
    BY <2>1 DEF TabTypes
  <2>5. calls <= MaxCalls
    BY <2>1, TabAssumption DEF ProgramTypes
  <2> QED  BY <2>1, <2>2, <2>3, <2>4, <2>5 DEF TypeOK, TabTypes, ProgramTypes
<1> QED  BY <1>1, RuntimeInvHolds, PTL

\* What the worker lets go in a Temporary turn is a temporary write into the
\* conversation the turn names, which was opened in the same lifecycle and tab, and
\* the pair the runtime keeps is that of such a write.
THEOREM TemporaryIsTemporaryHolds == Spec => []TemporaryIsTemporary
<1>1. RuntimeInv => TemporaryIsTemporary
  BY DEF RuntimeInv, TabInv, WriteOK, Opens, ResultInv, Begun, TemporaryIsTemporary
<1> QED  BY <1>1, RuntimeInvHolds, PTL

\* Nothing is let go under a lifecycle once it has ended, by its owner, the user, a
\* failed turn, a new lifecycle or a restart of the worker.
THEOREM EndedIsFinalHolds == Spec => EndedIsFinal
<1>1. RuntimeInv /\ [Next]_vars =>
        [\A w \in log' \ log : w.op = "temporary" /\ ~w.loose => w.token \notin over]_vars
  <2> SUFFICES ASSUME RuntimeInv, Next
               PROVE  \A w \in log' \ log : w.op = "temporary" /\ ~w.loose => w.token \notin over
    OBVIOUS
  <2>1. CASE Extension
    BY <2>1, TabKept DEF Extension, RuntimeInv, Typed
  <2>2. CASE Call \/ RuntimeStep
    <3>1. log' = log
      BY <2>2, QuietSteps DEF Quiet, RequestTurn, Receive
    <3> QED  BY <3>1
  <2> QED  BY <2>1, <2>2 DEF Next
<1> QED  BY <1>1, RuntimeInvHolds, PTL DEF Spec, EndedIsFinal

\* A write carries exactly the policy, the model profile and the attachments its
\* call asked for, in the mode it asked for; a call that returns successfully has
\* made its write in the mode its provenance claims; no scope outlives its call.
THEOREM DeliveredExactlyHolds == Spec => []DeliveredExactly
<1>1. RuntimeInv => DeliveredExactly
  <2> SUFFICES ASSUME RuntimeInv PROVE DeliveredExactly
    OBVIOUS
  <2>1. ASSUME NEW w \in log
        PROVE  /\ (w.op = "temporary") = plan[w.call].temporary
               /\ w.demands.policy = plan[w.call].policy
               /\ \/ w.demands.profile = IF plan[w.call].profile THEN w.call ELSE 0
                  \/ w.call \in nested /\ ~plan[w.call].profile
               /\ \/ w.demands.media = IF plan[w.call].media THEN w.call ELSE 0
                  \/ w.call \in nested /\ ~plan[w.call].media
    <3>1. Carries(w.call, w.op, w.demands)
      BY DEF RuntimeInv, RequestInv
    <3>2. plan[w.call] \in CallRequests
      BY <3>1, RuntimeAssumption DEF Carries, RuntimeInv, Typed, ProgramTypes
    <3>3. /\ plan[w.call].temporary \in BOOLEAN /\ plan[w.call].policy \in BOOLEAN
          /\ w.demands.policy \in BOOLEAN
      BY <3>1, <3>2 DEF Carries, CallRequests
    <3> QED  BY <3>1, <3>3 DEF Carries
  <2>2. ASSUME NEW k \in DOMAIN returned, returned[k].ok, Sends(returned[k].request)
        PROVE  \E w \in log : /\ w.call = returned[k].call /\ ~w.loose
                               /\ returned[k].claims.temporary = w.temporary
                               /\ returned[k].claims.canonical => ~w.temporary
    <3>1. ReturnOK(returned[k])
      BY DEF RuntimeInv, ResultInv
    <3>2. returned[k].request = plan[returned[k].call] /\ Made(returned[k].call)
      BY <2>2, <3>1 DEF ReturnOK
    <3>3. returned[k].claims = Claims(returned[k].request)
      BY <3>1 DEF ReturnOK
    <3>4. /\ returned[k].claims.temporary = returned[k].request.temporary
          /\ returned[k].claims.canonical => ~returned[k].request.temporary
      <4>1. /\ returned[k].claims.temporary = ModeClaim(returned[k].request)
            /\ returned[k].claims.canonical = CompletionClaim(returned[k].request)
        BY <3>3 DEF Claims
      <4>2. CompletionClaim(returned[k].request) => ~returned[k].request.temporary
        BY DEF CompletionClaim
      <4> QED  BY <4>1, <4>2 DEF ModeClaim
    <3> QED  BY <3>2, <3>4 DEF Made
  <2>3. stack = <<>> => scope = 0 /\ profile = 0
    <3>1. stack = <<>> => DOMAIN stack = {}
      OBVIOUS
    <3> QED  BY <3>1 DEF RuntimeInv, StackInv
  <2> QED  BY <2>1, <2>2, <2>3 DEF DeliveredExactly
<1> QED  BY <1>1, RuntimeInvHolds, PTL
=============================================================================
