--------------------------- MODULE ApprovalsProofs ---------------------------
(***************************************************************************)
(* Proofs about Approvals: that every approval was permitted by the policy *)
(* of the call that sent it, that no card is approved twice, and that a    *)
(* call answers with a complete message which follows its card, for any    *)
(* number of calls, cards, policies, rounds and edits.                     *)
(***************************************************************************)
EXTENDS Approvals, WellFoundedInduction, FiniteSetTheorems, SequenceTheorems, TLAPS

\* A call of send_and_auto_approve has the client's loop to itself: beside it there are
\* calls that approve one card, or wait for a message.
AutoAlone ==
  \A p \in Plans : \A c, d \in Callers :
    c # d /\ p[c].op = "auto" => p[d].op \in {"approve", "until"}

NodeRecords ==
  [kind : Kinds, parent : Nat, recipient : Recipients \cup {NoRecipient},
   readOnly : BOOLEAN, by : Callers \cup {NoCaller}]

IsCall(r) ==
  /\ r = [pc |-> r.pc, policy |-> r.policy, card |-> r.card, round |-> r.round,
          finder |-> r.finder, waiter |-> r.waiter, seen |-> r.seen, result |-> r.result]
  /\ r.pc \in PCs

Typed ==
  /\ nodes \in Seq(NodeRecords)
  /\ current \in Ids
  /\ late \subseteq Callers \X Ids
  /\ lock \in Callers \cup {NoCaller}
  /\ plan \in Plans
  /\ DOMAIN call = Callers
  /\ \A c \in Callers : IsCall(call[c])

\* Between taking the fence and leaving it, and in the loop around that.
Inside == {"read", "prepare", "stream", "poll"}
Loop == {"look", "idle"}

\* Which places a call may come to, and whose policy it has with it there.
CallOK(c) ==
  /\ At(c, "send") \/ At(c, "find") => plan[c].op = "auto"
  /\ At(c, "enter") \/ call[c].pc \in Loop => plan[c].op \in {"auto", "wait"}
  /\ call[c].pc \in Inside \cup {"fence"} => plan[c].op # "until"
  /\ call[c].pc \in {"status", "message", "approval"} => plan[c].op = "until"
  /\ call[c].pc \in Loop \cup Inside \cup {"fence"} => call[c].policy = OwnPolicy(c)

CallInv == \A c \in Callers : CallOK(c)

\* A policy is in front of the loop only while send_and_auto_approve is at work, and it
\* is the policy of that call.
WaiterInv ==
  /\ \A c \in Callers : plan[c].op = "auto" =>
       /\ call[c].waiter = <<>>
       /\ waiter = IF call[c].pc \in {"start", "done"} THEN <<>> ELSE <<OwnPolicy(c)>>
  /\ (\A c \in Callers : plan[c].op # "auto") => waiter = <<>>

\* The guards in front of the finder are the one the call inside the fence has put
\* there, if any.
FinderInv ==
  /\ lock = NoCaller => finder = <<>>
  /\ \A c \in Callers :
       /\ lock = c <=> call[c].pc \in Inside
       /\ call[c].pc \in Inside =>
            /\ call[c].finder = <<>>
            /\ finder = IF OwnPolicy(c) = NoPolicy THEN <<>> ELSE <<OwnPolicy(c)>>

\* The policy of a call permits the card.
Permitted(c, id) ==
  OwnPolicy(c) = NoPolicy \/ Permits(OwnPolicy(c), nodes[id])

\* The card a call is about to approve is permitted, and nobody has approved it.
CardOK(c) ==
  call[c].pc \in {"prepare", "stream"} =>
    /\ call[c].card \in Ids /\ nodes[call[c].card].kind = "card"
    /\ Permitted(c, call[c].card)
    /\ \A m \in Ids : nodes[m].kind = "allow" => nodes[m].parent # call[c].card

\* The approvals of the mapping are permitted, and so are those that may still arrive;
\* no card has two from calls whose write went through.
TreeInv ==
  /\ \A n \in Ids : nodes[n].kind \in {"allow", "late"} =>
       /\ nodes[n].by \in Callers /\ nodes[n].parent \in Ids
       /\ Permitted(nodes[n].by, nodes[n].parent)
  /\ \A m, n \in Ids :
       nodes[m].kind = "allow" /\ nodes[n].kind = "allow"
         /\ nodes[m].parent = nodes[n].parent => m = n
  /\ \A w \in late : nodes[w[2]].kind = "card" /\ Permitted(w[1], w[2])

CardInv == \A c \in Callers : CardOK(c)

-----------------------------------------------------------------------------
(* Least and greatest elements, cards and policies *)

\* A nonempty set of natural numbers has a least element.
LEMMA Least ==
  ASSUME NEW S \in SUBSET Nat, S # {}
  PROVE  \E y \in S : \A z \in S : y <= z
<1>1. PICK y \in S : \A z \in S : ~ (<<z, y>> \in OpToRel(<, Nat))
  BY NatLessThanWellFounded, WFMin
<1>2. \A z, w \in Nat : z < w => <<z, w>> \in OpToRel(<, Nat)
  BY DEF OpToRel
<1>3. y \in Nat /\ \A z \in S : z \in Nat /\ ~ (z < y)
  BY <1>1, <1>2
<1> QED  BY <1>3

\* A nonempty set of natural numbers up to n has a greatest element.
LEMMA Greatest ==
  ASSUME NEW n \in Nat, NEW S \in SUBSET (0 .. n), S # {}
  PROVE  Max(S) \in S /\ \A x \in S : x <= Max(S)
<1> DEFINE Below == {n - x : x \in S}
<1>1. Below \subseteq Nat /\ Below # {}
  <2>1. PICK x \in S : TRUE
    OBVIOUS
  <2>2. n - x \in Below
    BY <2>1
  <2>3. \A z \in Below : z \in Nat
    <3> SUFFICES ASSUME NEW x1 \in S PROVE n - x1 \in Nat
      OBVIOUS
    <3>1. x1 \in 0 .. n
      OBVIOUS
    <3> QED  BY <3>1
  <2> QED  BY <2>2, <2>3
<1>2. PICK y \in Below : \A z \in Below : y <= z
  <2> HIDE DEF Below
  <2> QED  BY <1>1, Least
<1>9. PICK x \in S : y = n - x
  BY <1>2
<1>3. \A w \in S : x >= w
  <2> SUFFICES ASSUME NEW w \in S PROVE x >= w
    OBVIOUS
  <2>1. n - x <= n - w
    BY <1>2, <1>9
  <2> QED  BY <2>1
<1> QED  BY <1>9, <1>3 DEF Max

\* What the finder finds is a card nobody has answered.
LEMMA FoundLeaf ==
  ASSUME Len(nodes) \in Nat, ConfirmActionLeaf # 0
  PROVE  /\ ConfirmActionLeaf \in Ids /\ nodes[ConfirmActionLeaf].kind = "card"
         /\ IsLeaf(ConfirmActionLeaf)
<1> DEFINE leaves == {n \in Ids : nodes[n].kind = "card" /\ IsLeaf(n)}
<1>1. ConfirmActionLeaf = Max(leaves) /\ leaves # {}
  BY DEF ConfirmActionLeaf, Latest
<1>2. leaves \in SUBSET (0 .. Len(nodes))
  BY DEF Ids
<1>3. Max(leaves) \in leaves
  <2> HIDE DEF leaves
  <2> QED  BY <1>1, <1>2, Greatest
<1> QED  BY <1>1, <1>3

\* A policy that lets a card through permits it.
LEMMA AllowedIsPermitted ==
  ASSUME NEW policy \in PolicyFields, NEW card, card.readOnly \in BOOLEAN,
         Allows(policy, card)
  PROVE  Permits(policy, card)
<1>1. policy.auto \in BOOLEAN
  BY DEF PolicyFields
<1>2. CASE card.recipient \in policy.denied
  <2>1. Evaluate(policy, card.recipient, card.readOnly) = "recipient_denied"
    BY <1>2 DEF Evaluate
  <2> QED  BY <2>1 DEF Allows
<1>3. CASE card.recipient \in policy.allowed \ policy.denied
  BY <1>3 DEF Permits
<1>4. CASE card.recipient \notin policy.allowed \cup policy.denied
  <2>1. Evaluate(policy, card.recipient, card.readOnly)
          = IF card.readOnly
            THEN IF policy.auto THEN "read_only_auto_approved"
                                ELSE "read_only_auto_approve_disabled"
            ELSE IF policy.manual THEN "manual_required_for_unknown_recipient"
                                  ELSE "unknown_recipient_denied"
    BY <1>4 DEF Evaluate
  <2>2. card.readOnly /\ policy.auto
    BY <2>1, <1>1 DEF Allows
  <2> QED  BY <2>2, <1>4 DEF Permits
<1> QED  BY <1>2, <1>3, <1>4

\* What stands in for a policy that was not passed is a policy.
LEMMA DefaultIsPolicy == DefaultPolicy \in PolicyFields /\ DefaultPolicy # NoPolicy
<1>1. DefaultPolicy \in PolicyFields
  BY DEF DefaultPolicy, PolicyFields
<1> QED  BY <1>1, ApprovalsAssumption

-----------------------------------------------------------------------------
(* What a step does to its call *)

Holds == Typed /\ CallInv /\ WaiterInv /\ FinderInv

\* The fence and the guards behind it: untouched, taken, kept or given back.
FenceMove(c) ==
  \/ /\ call[c].pc \notin Inside /\ call'[c].pc \notin Inside
     /\ UNCHANGED <<lock, finder>>
  \/ /\ call[c].pc \notin Inside /\ call'[c].pc \in Inside
     /\ lock = NoCaller /\ lock' = c /\ call'[c].finder = <<>>
     /\ finder' = IF OwnPolicy(c) = NoPolicy THEN <<>> ELSE <<OwnPolicy(c)>>
  \/ /\ call[c].pc \in Inside /\ call'[c].pc \in Inside
     /\ UNCHANGED <<lock, finder>> /\ call'[c].finder = call[c].finder
  \/ /\ call[c].pc \in Inside /\ call'[c].pc \notin Inside
     /\ lock' = NoCaller /\ finder' = <<>>

WaiterMove(c) ==
  IF plan[c].op = "auto"
  THEN /\ call'[c].waiter = <<>>
       /\ waiter' = IF call'[c].pc \in {"start", "done"} THEN <<>> ELSE <<OwnPolicy(c)>>
  ELSE waiter' = waiter

Moves(c) ==
  /\ plan' = plan
  /\ DOMAIN call' = Callers /\ \A d \in Callers \ {c} : call'[d] = call[d]
  /\ IsCall(call'[c]) /\ CallOK(c)'
  /\ WaiterMove(c) /\ FenceMove(c)

\* A step of one call leaves the others as they are.
LEMMA Became ==
  ASSUME DOMAIN call = Callers, NEW c \in Callers, NEW new, Become(c, new)
  PROVE  /\ DOMAIN call' = Callers /\ \A d \in Callers \ {c} : call'[d] = call[d]
         /\ call'[c] = new
BY DEF Become

\* A call goes on without the waiter, the fence and the guards.
LEMMA Goes ==
  ASSUME Holds, NEW c \in Callers, NEW new, Become(c, new), IsCall(new),
         UNCHANGED <<finder, waiter, lock, plan>>,
         call[c].pc \in Inside <=> new.pc \in Inside,
         call[c].pc \notin {"start", "done"}, new.pc \notin {"start", "done"},
         new.waiter = call[c].waiter, new.finder = call[c].finder,
         CallOK(c)'
  PROVE  Moves(c)
<1>1. /\ DOMAIN call' = Callers /\ \A d \in Callers \ {c} : call'[d] = call[d]
      /\ call'[c] = new
  BY Became DEF Holds, Typed
<1>2. WaiterMove(c)
  BY <1>1 DEF WaiterMove, Holds, WaiterInv
<1>3. FenceMove(c)
  BY <1>1 DEF FenceMove
<1> QED  BY <1>1, <1>2, <1>3 DEF Moves

\* A call ends outside the fence.
LEMMA Finishes ==
  ASSUME Holds, NEW c \in Callers, NEW result, NEW seen, Finish(c, result, seen),
         call[c].pc \notin Inside
  PROVE  Moves(c) /\ call'[c].pc = "done"
<1>1. /\ DOMAIN call' = Callers /\ \A d \in Callers \ {c} : call'[d] = call[d]
      /\ call'[c] = [call[c] EXCEPT !.pc = "done", !.result = result, !.seen = seen]
  BY Became DEF Holds, Typed, Finish
<1>2. IsCall(call[c])
  BY DEF Holds, Typed
<1>3. IsCall(call'[c]) /\ call'[c].pc = "done" /\ call'[c].waiter = call[c].waiter
  BY <1>1, <1>2 DEF IsCall, PCs
<1>4. WaiterMove(c)
  BY <1>3 DEF WaiterMove, Holds, WaiterInv, Finish
<1>5. FenceMove(c)
  BY <1>3 DEF FenceMove, Finish, Inside
<1>6. CallOK(c)'
  BY <1>3 DEF CallOK, At, Inside, Loop
<1> QED  BY <1>1, <1>3, <1>4, <1>5, <1>6 DEF Moves, Finish

\* An approval gives the finder and the fence back.
LEMMA Leaves ==
  ASSUME Holds, NEW c \in Callers, LeaveApproval(c), call[c].pc \in Inside
  PROVE  lock' = NoCaller /\ finder' = <<>> /\ plan' = plan
<1>1. call[c].policy = OwnPolicy(c)
  BY DEF Holds, CallInv, CallOK
<1> QED  BY <1>1 DEF LeaveApproval, Holds, FinderInv

\* An approval that returns or raises takes its call with it, and leaves the fence.
LEMMA EndsApproval ==
  ASSUME Holds, NEW c \in Callers, NEW result, NEW seen, EndApproval(c, result, seen),
         call[c].pc \in Inside
  PROVE  Moves(c) /\ call'[c].pc = "done"
<1>1. /\ DOMAIN call' = Callers /\ \A d \in Callers \ {c} : call'[d] = call[d]
      /\ call'[c] = [call[c] EXCEPT !.pc = "done", !.result = result, !.seen = seen]
  BY Became DEF Holds, Typed, EndApproval
<1>2. IsCall(call[c])
  BY DEF Holds, Typed
<1>3. IsCall(call'[c]) /\ call'[c].pc = "done" /\ call'[c].waiter = call[c].waiter
  BY <1>1, <1>2 DEF IsCall, PCs
<1>4. WaiterMove(c)
  BY <1>3 DEF WaiterMove, Holds, WaiterInv, EndApproval
<1>5. lock' = NoCaller /\ finder' = <<>> /\ plan' = plan
  BY Leaves DEF EndApproval
<1>6. FenceMove(c)
  BY <1>3, <1>5 DEF FenceMove, Inside
<1>7. CallOK(c)'
  BY <1>3 DEF CallOK, At, Inside, Loop
<1> QED  BY <1>1, <1>3, <1>4, <1>5, <1>6, <1>7 DEF Moves

\* The rest of the calls is as it was: what holds of them, and of the client, stays.
LEMMA MovesKeep ==
  ASSUME AutoAlone, Holds, NEW c \in Callers, Moves(c)
  PROVE  /\ CallInv' /\ WaiterInv' /\ FinderInv'
         /\ lock' \in Callers \cup {NoCaller} /\ plan' \in Plans
         /\ DOMAIN call' = Callers /\ \A d \in Callers : IsCall(call'[d])
<1>1. plan \in [Callers -> Calls] /\ plan \in Plans
  BY ApprovalsAssumption DEF Holds, Typed
<1>2. \A d \in Callers : OwnPolicy(d)' = OwnPolicy(d)
  BY DEF Moves, OwnPolicy
<1>3. CallInv'
  <2> SUFFICES ASSUME NEW d \in Callers, d # c PROVE CallOK(d)'
    BY DEF CallInv, Moves
  <2>1. call'[d] = call[d] /\ CallOK(d)
    BY DEF Moves, Holds, CallInv
  <2> QED  BY <1>2, <2>1 DEF CallOK, At, Moves
<1>4. WaiterInv'
  <2>1. CASE plan[c].op = "auto"
    <3>1. \A d \in Callers : d # c => plan[d].op # "auto"
      BY <2>1, <1>1 DEF AutoAlone
    <3> QED  BY <2>1, <3>1, <1>2 DEF WaiterInv, Moves, WaiterMove
  <2>2. CASE plan[c].op # "auto"
    <3>1. waiter' = waiter /\ \A d \in Callers : plan[d].op = "auto" => call'[d] = call[d]
      BY <2>2 DEF Moves, WaiterMove
    <3> QED  BY <3>1, <1>2 DEF WaiterInv, Moves, Holds
  <2> QED  BY <2>1, <2>2
<1>5. FinderInv'
  <2>1. NoCaller \notin Callers
    BY ApprovalsAssumption
  <2>2. \A d \in Callers \ {c} : call'[d] = call[d]
    BY DEF Moves
  <2> QED  BY <1>2, <2>1, <2>2 DEF FinderInv, Moves, FenceMove, Holds
<1>6. lock' \in Callers \cup {NoCaller}
  BY DEF Moves, FenceMove, Holds, Typed
<1> QED  BY <1>1, <1>3, <1>4, <1>5, <1>6 DEF Moves, Holds, Typed

-----------------------------------------------------------------------------
(* What a step does to the mapping *)

\* Nodes stay, but for a message that is completed.
Grows ==
  /\ nodes' \in Seq(NodeRecords) /\ Len(nodes') >= Len(nodes)
  /\ \A n \in Ids :
       /\ nodes'[n].parent = nodes[n].parent /\ nodes'[n].by = nodes[n].by
       /\ nodes'[n].recipient = nodes[n].recipient
       /\ nodes'[n].readOnly = nodes[n].readOnly
       /\ \/ nodes'[n].kind = nodes[n].kind
          \/ nodes[n].kind = "partial" /\ nodes'[n].kind = "final"

\* No node is ever removed.
LEMMA IdsGrow ==
  ASSUME nodes \in Seq(NodeRecords), Grows
  PROVE  Ids \subseteq Ids'
<1>1. Len(nodes) \in Nat /\ Len(nodes') \in Nat
  BY DEF Grows
<1> QED  BY <1>1 DEF Ids, Grows

\* A mapping with one more node has the nodes it had.
LEMMA Appended ==
  ASSUME nodes \in Seq(NodeRecords), NEW x \in NodeRecords, nodes' = Append(nodes, x)
  PROVE  /\ Grows /\ Len(nodes) \in Nat /\ Len(nodes') = Len(nodes) + 1
         /\ \A n \in Ids : nodes'[n] = nodes[n]
         /\ nodes'[Len(nodes) + 1] = x /\ Ids' = Ids \cup {Len(nodes) + 1}
<1>1. /\ nodes' \in Seq(NodeRecords) /\ Len(nodes) \in Nat /\ Len(nodes') = Len(nodes) + 1
      /\ \A n \in 1 .. Len(nodes) : nodes'[n] = nodes[n]
      /\ nodes'[Len(nodes) + 1] = x
  BY AppendProperties
<1>2. Ids' = Ids \cup {Len(nodes) + 1}
  BY <1>1 DEF Ids
<1> QED  BY <1>1, <1>2 DEF Ids, Grows

\* A card that was permitted stays so, since neither it nor the plan changes.
LEMMA StaysPermitted ==
  ASSUME Grows, plan' = plan, NEW c, NEW id \in Ids
  PROVE  Permitted(c, id)' = Permitted(c, id)
BY DEF Grows, Permitted, Permits, OwnPolicy

\* The nodes of a step, one at most, are in order: an approval is permitted, and is
\* the first of its card by a call whose write went through.
AddsRightly ==
  \A n \in Ids' \ Ids :
    /\ n = Len(nodes) + 1
    /\ nodes'[n].kind \in {"allow", "late"} =>
         /\ nodes'[n].by \in Callers /\ nodes'[n].parent \in Ids
         /\ Permitted(nodes'[n].by, nodes'[n].parent)
    /\ nodes'[n].kind = "allow" =>
         \A m \in Ids : nodes[m].kind = "allow" => nodes[m].parent # nodes'[n].parent

\* The broken streams of a step are those of permitted approvals.
LateRightly ==
  \A w \in late' :
    /\ w[1] \in Callers /\ w[2] \in Ids /\ w = <<w[1], w[2]>>
    /\ nodes[w[2]].kind = "card" /\ Permitted(w[1], w[2])

\* The approvals of a mapping that grows rightly are right.
LEMMA TreeKept ==
  ASSUME Typed, TreeInv, plan' = plan, Grows, AddsRightly, LateRightly
  PROVE  TreeInv' /\ late' \subseteq Callers \X Ids'
<1>1. Ids \subseteq Ids'
  BY IdsGrow DEF Typed
<1>2. \A d : \A id \in Ids : Permitted(d, id) = Permitted(d, id)'
  BY StaysPermitted
<1>3. \A n \in Ids : nodes'[n].kind \in {"allow", "late"} => nodes'[n].kind = nodes[n].kind
  BY DEF Grows
<1>4. ASSUME NEW n \in Ids', nodes'[n].kind \in {"allow", "late"}
      PROVE  (/\ nodes[n].by \in Callers /\ nodes[n].parent \in Ids
              /\ Permitted(nodes[n].by, nodes[n].parent))'
  <2>1. CASE n \in Ids
    <3>1. nodes'[n].by = nodes[n].by /\ nodes'[n].parent = nodes[n].parent
      BY <2>1 DEF Grows
    <3>2. /\ nodes[n].by \in Callers /\ nodes[n].parent \in Ids
          /\ Permitted(nodes[n].by, nodes[n].parent)
      BY <1>3, <1>4, <2>1 DEF TreeInv
    <3> QED  BY <1>1, <1>2, <3>1, <3>2 DEF Permitted
  <2>2. CASE n \notin Ids
    <3>1. /\ nodes'[n].by \in Callers /\ nodes'[n].parent \in Ids
          /\ Permitted(nodes'[n].by, nodes'[n].parent)
      BY <1>4, <2>2 DEF AddsRightly
    <3> QED  BY <1>1, <1>2, <3>1 DEF Permitted
  <2> QED  BY <2>1, <2>2
<1>5. ASSUME NEW m \in Ids', NEW n \in Ids', nodes'[m].kind = "allow", nodes'[n].kind = "allow",
             nodes'[m].parent = nodes'[n].parent
      PROVE  m = n
  <2>1. CASE m \in Ids /\ n \in Ids
    BY <1>3, <1>5, <2>1 DEF TreeInv, Grows
  <2>2. CASE m \in Ids /\ n \notin Ids
    <3>1. nodes[m].kind = "allow" /\ nodes[m].parent = nodes'[m].parent
      BY <1>3, <1>5, <2>2 DEF Grows
    <3> QED  BY <1>5, <2>2, <3>1 DEF AddsRightly
  <2>3. CASE m \notin Ids /\ n \in Ids
    <3>1. nodes[n].kind = "allow" /\ nodes[n].parent = nodes'[n].parent
      BY <1>3, <1>5, <2>3 DEF Grows
    <3> QED  BY <1>5, <2>3, <3>1 DEF AddsRightly
  <2>4. CASE m \notin Ids /\ n \notin Ids
    BY <2>4 DEF AddsRightly
  <2> QED  BY <2>1, <2>2, <2>3, <2>4
<1>6. ASSUME NEW w \in late' PROVE nodes'[w[2]].kind = "card" /\ Permitted(w[1], w[2])'
  <2>1. w[2] \in Ids /\ nodes[w[2]].kind = "card" /\ Permitted(w[1], w[2])
    BY <1>6 DEF LateRightly
  <2>2. nodes'[w[2]].kind = "card"
    BY <2>1 DEF Grows
  <2> QED  BY <1>2, <2>1, <2>2
<1>7. TreeInv'
  BY <1>4, <1>5, <1>6 DEF TreeInv
<1>8. late' \subseteq Callers \X Ids'
  BY <1>1 DEF LateRightly
<1> QED  BY <1>7, <1>8

\* A card that a call is about to approve is still unapproved after a step that adds
\* no approval of it.
LEMMA CardKept ==
  ASSUME Typed, Grows, plan' = plan, NEW d \in Callers, CardOK(d), call'[d] = call[d],
         \A n \in Ids' \ Ids : nodes'[n].kind = "allow" =>
           call[d].pc \notin {"prepare", "stream"} \/ nodes'[n].parent # call[d].card
  PROVE  CardOK(d)'
<1> SUFFICES ASSUME call[d].pc \in {"prepare", "stream"}
             PROVE  (/\ call[d].card \in Ids /\ nodes[call[d].card].kind = "card"
                     /\ Permitted(d, call[d].card)
                     /\ \A m \in Ids : nodes[m].kind = "allow" =>
                                         nodes[m].parent # call[d].card)'
  BY DEF CardOK
<1> DEFINE card == call[d].card
<1>1. /\ card \in Ids /\ nodes[card].kind = "card" /\ Permitted(d, card)
      /\ \A m \in Ids : nodes[m].kind = "allow" => nodes[m].parent # card
  BY DEF CardOK
<1>2. call'[d].card = card
  OBVIOUS
<1>3. card \in Ids' /\ nodes'[card].kind = "card"
  BY <1>1, IdsGrow DEF Grows, Typed
<1>4. Permitted(d, card)'
  BY <1>1, <1>2, StaysPermitted DEF Permitted
<1>5. ASSUME NEW m \in Ids', nodes'[m].kind = "allow" PROVE nodes'[m].parent # card
  <2>1. CASE m \in Ids
    BY <1>1, <1>5, <2>1 DEF Grows
  <2>2. CASE m \notin Ids
    BY <1>5, <2>2
  <2> QED  BY <2>1, <2>2
<1> QED  BY <1>2, <1>3, <1>4, <1>5 DEF Permitted

-----------------------------------------------------------------------------
(* Whole steps *)

ApprovalsInv == Holds /\ TreeInv /\ CardInv

\* A step of a call that changes nothing of the conversation, except that a stream
\* breaks.
LEMMA CallStep ==
  ASSUME AutoAlone, ApprovalsInv, NEW c \in Callers, Moves(c),
         UNCHANGED <<nodes, current>>, LateRightly, CardOK(c)'
  PROVE  ApprovalsInv'
<1>1. Grows /\ Ids' = Ids
  BY DEF Grows, Ids, ApprovalsInv, Holds, Typed
<1>2. AddsRightly
  BY <1>1 DEF AddsRightly
<1>3. Typed /\ TreeInv /\ plan' = plan
  BY DEF ApprovalsInv, Holds, Moves
<1>4. TreeInv' /\ late' \subseteq Callers \X Ids'
  BY <1>1, <1>2, <1>3, TreeKept
<1>5. /\ CallInv' /\ WaiterInv' /\ FinderInv'
      /\ lock' \in Callers \cup {NoCaller} /\ plan' \in Plans
      /\ DOMAIN call' = Callers /\ \A d \in Callers : IsCall(call'[d])
  BY MovesKeep DEF ApprovalsInv
<1>6. ASSUME NEW d \in Callers, d # c PROVE CardOK(d)'
  <2>1. call'[d] = call[d] /\ CardOK(d)
    BY <1>6 DEF Moves, ApprovalsInv, CardInv
  <2> QED  BY <1>1, <1>3, <2>1, CardKept
<1>7. Typed'
  BY <1>1, <1>3, <1>4, <1>5 DEF Typed
<1> QED  BY <1>4, <1>5, <1>6, <1>7 DEF ApprovalsInv, Holds, CardInv

\* Without a stream that breaks, the approvals that may still arrive are permitted.
LEMMA NothingBreaks ==
  ASSUME Typed, TreeInv, UNCHANGED server
  PROVE  LateRightly
<1>1. late' = late
  BY DEF server
<1>2. \A w \in late : w[1] \in Callers /\ w[2] \in Ids /\ w = <<w[1], w[2]>>
  BY DEF Typed
<1> QED  BY <1>1, <1>2 DEF LateRightly, TreeInv

\* A step of a call that leaves the conversation alone and approves nothing next.
LEMMA QuietStep ==
  ASSUME AutoAlone, ApprovalsInv, NEW c \in Callers, Moves(c),
         UNCHANGED server, call'[c].pc \notin {"prepare", "stream"}
  PROVE  ApprovalsInv'
<1>1. LateRightly
  BY NothingBreaks DEF ApprovalsInv, Holds
<1>2. CardOK(c)'
  BY DEF CardOK
<1> QED  BY <1>1, <1>2, CallStep DEF server

\* Calls that may wait or approve: OwnPolicy is a policy or none.
LEMMA OwnIsPolicy ==
  ASSUME Typed, NEW c \in Callers
  PROVE  OwnPolicy(c) = NoPolicy \/ OwnPolicy(c) \in PolicyFields
<1>1. plan[c].policy \in Policies \cup {NoPolicy}
  BY ApprovalsAssumption DEF Typed, Calls
<1> QED  BY <1>1, DefaultIsPolicy, ApprovalsAssumption DEF OwnPolicy

\* What the invariant says of one call.
LEMMA Known ==
  ASSUME ApprovalsInv, NEW c \in Callers
  PROVE  /\ IsCall(call[c]) /\ CallOK(c) /\ CardOK(c) /\ Holds /\ Typed
         /\ plan[c].op \in {"approve", "wait", "auto", "until"}
<1>1. plan \in [Callers -> Calls]
  BY ApprovalsAssumption DEF ApprovalsInv, Holds, Typed
<1> QED  BY <1>1 DEF ApprovalsInv, Holds, Typed, CallInv, CardInv, Calls

\* A call goes from one place to the next outside the fence.
LEMMA GoesOn ==
  ASSUME AutoAlone, ApprovalsInv, NEW c \in Callers, NEW new, Become(c, new), IsCall(new),
         UNCHANGED <<server, finder, waiter, lock, plan>>,
         call[c].pc \notin Inside \cup {"start", "done"},
         new.pc \notin Inside \cup {"start", "done"},
         new.waiter = call[c].waiter, new.finder = call[c].finder, CallOK(c)'
  PROVE  ApprovalsInv'
<1>1. Moves(c)
  BY Goes DEF ApprovalsInv
<1>2. call'[c] = new
  BY Became DEF ApprovalsInv, Holds, Typed
<1> QED  BY <1>1, <1>2, QuietStep DEF Inside

\* Returning or raising outside the fence keeps the invariant.
LEMMA Ends ==
  ASSUME AutoAlone, ApprovalsInv, NEW c \in Callers, NEW result, NEW seen,
         Finish(c, result, seen), call[c].pc \notin Inside
  PROVE  ApprovalsInv'
<1>1. Moves(c) /\ call'[c].pc = "done"
  BY Finishes DEF ApprovalsInv
<1> QED  BY <1>1, QuietStep DEF Finish

\* Returning or raising inside the fence keeps it too.
LEMMA EndsInside ==
  ASSUME AutoAlone, ApprovalsInv, NEW c \in Callers, NEW result, NEW seen,
         EndApproval(c, result, seen), call[c].pc \in Inside, UNCHANGED server
  PROVE  ApprovalsInv'
<1>1. Moves(c) /\ call'[c].pc = "done"
  BY EndsApproval DEF ApprovalsInv
<1> QED  BY <1>1, QuietStep

\* A call begins: send_and_auto_approve puts its policy in front of the loop, where there
\* is no other.
LEMMA StartStep ==
  ASSUME AutoAlone, ApprovalsInv, NEW c \in Callers, Start(c)
  PROVE  ApprovalsInv'
<1>1. /\ IsCall(call[c]) /\ CallOK(c) /\ Holds /\ call[c].pc = "start"
      /\ plan[c].op \in {"approve", "wait", "auto", "until"}
      /\ UNCHANGED <<server, finder, lock, plan>>
  BY Known DEF Start, At
<1>2. DOMAIN call = Callers
  BY DEF ApprovalsInv, Holds, Typed
<1>3. CASE plan[c].op = "approve"
  <2>1. /\ Become(c, [call[c] EXCEPT !.pc = "fence", !.policy = plan[c].policy])
        /\ waiter' = waiter
    BY <1>3 DEF Start
  <2>2. /\ DOMAIN call' = Callers /\ \A d \in Callers \ {c} : call'[d] = call[d]
        /\ call'[c] = [call[c] EXCEPT !.pc = "fence", !.policy = plan[c].policy]
    BY <2>1, <1>2, Became
  <2>3. IsCall(call'[c]) /\ call'[c].pc = "fence" /\ call'[c].policy = plan[c].policy
    BY <2>2, <1>1 DEF IsCall, PCs
  <2>4. CallOK(c)'
    BY <2>3, <1>1, <1>3 DEF CallOK, At, OwnPolicy, Loop, Inside
  <2>5. WaiterMove(c) /\ FenceMove(c)
    BY <1>1, <1>3, <2>1, <2>3 DEF WaiterMove, FenceMove, Inside
  <2>6. Moves(c)
    BY <1>1, <2>2, <2>3, <2>4, <2>5 DEF Moves
  <2> QED  BY <1>1, <2>3, <2>6, QuietStep
<1>4. CASE plan[c].op = "auto"
  <2>1. /\ Become(c, [call[c] EXCEPT !.pc = "send", !.waiter = waiter])
        /\ waiter' = Append(waiter, OwnPolicy(c))
    BY <1>4 DEF Start, OwnPolicy
  <2>2. /\ DOMAIN call' = Callers /\ \A d \in Callers \ {c} : call'[d] = call[d]
        /\ call'[c] = [call[c] EXCEPT !.pc = "send", !.waiter = waiter]
    BY <2>1, <1>2, Became
  <2>3. waiter = <<>>
    BY <1>1, <1>4 DEF ApprovalsInv, Holds, WaiterInv
  <2>4. IsCall(call'[c]) /\ call'[c].pc = "send" /\ call'[c].waiter = <<>>
    BY <2>2, <2>3, <1>1 DEF IsCall, PCs
  <2>5. CallOK(c)'
    BY <2>4, <1>1, <1>4 DEF CallOK, At, Loop, Inside
  <2>6. WaiterMove(c) /\ FenceMove(c)
    BY <1>1, <1>4, <2>1, <2>3, <2>4 DEF WaiterMove, FenceMove, Inside
  <2>7. Moves(c)
    BY <1>1, <2>2, <2>4, <2>5, <2>6 DEF Moves
  <2> QED  BY <1>1, <2>4, <2>7, QuietStep
<1>5. CASE plan[c].op \in {"wait", "until"}
  <2>1. PICK pc \in {"enter", "status"} :
          Become(c, [call[c] EXCEPT !.pc = pc]) /\ waiter' = waiter
            /\ (pc = "enter" <=> plan[c].op = "wait")
    BY <1>5 DEF Start, Go
  <2>2. /\ DOMAIN call' = Callers /\ \A d \in Callers \ {c} : call'[d] = call[d]
        /\ call'[c] = [call[c] EXCEPT !.pc = pc]
    BY <2>1, <1>2, Became
  <2>3. IsCall(call'[c]) /\ call'[c].pc = pc
    BY <2>2, <1>1 DEF IsCall, PCs
  <2>4. CallOK(c)'
    BY <2>1, <2>3, <1>1, <1>5 DEF CallOK, At, Loop, Inside
  <2>5. WaiterMove(c) /\ FenceMove(c)
    BY <1>1, <1>5, <2>1, <2>3 DEF WaiterMove, FenceMove, Inside
  <2>6. Moves(c)
    BY <1>1, <2>2, <2>3, <2>4, <2>5 DEF Moves
  <2> QED  BY <1>1, <2>3, <2>6, QuietStep
<1> QED  BY <1>1, <1>3, <1>4, <1>5

\* A call that is in the loop with its own policy.
LEMMA EnteredStep ==
  ASSUME AutoAlone, ApprovalsInv, NEW c \in Callers, call[c].pc = "enter",
         plan[c].op \in {"auto", "wait"},
         Become(c, [call[c] EXCEPT !.pc = "look", !.policy = OwnPolicy(c)]),
         UNCHANGED <<server, finder, waiter, lock, plan>>
  PROVE  ApprovalsInv'
<1>1. IsCall(call[c]) /\ DOMAIN call = Callers
  BY DEF ApprovalsInv, Holds, Typed
<1>2. call'[c] = [call[c] EXCEPT !.pc = "look", !.policy = OwnPolicy(c)]
  BY <1>1, Became
<1>3. /\ IsCall(call'[c]) /\ call'[c].pc = "look" /\ call'[c].policy = OwnPolicy(c)
      /\ call'[c].waiter = call[c].waiter /\ call'[c].finder = call[c].finder
  BY <1>1, <1>2 DEF IsCall, PCs
<1>4. CallOK(c)'
  BY <1>3 DEF CallOK, At, Loop, Inside, OwnPolicy
<1>5. Become(c, call'[c])
  BY <1>2
<1> QED  BY <1>3, <1>4, <1>5, GoesOn DEF Inside

\* Only send_and_auto_approve leaves a policy for the loop, and only its own.
LEMMA EnterStep ==
  ASSUME AutoAlone, ApprovalsInv, NEW c \in Callers, Enter(c)
  PROVE  ApprovalsInv'
<1>1. /\ IsCall(call[c]) /\ CallOK(c) /\ Holds /\ call[c].pc = "enter"
      /\ plan[c].op \in {"auto", "wait"}
  BY Known DEF Enter, At, CallOK
<1>2. plan \in Plans
  BY <1>1 DEF Holds, Typed
<1>3. CASE plan[c].op = "wait"
  <2>1. \A d \in Callers : plan[d].op # "auto"
    BY <1>2, <1>3 DEF AutoAlone
  <2>2. waiter = <<>> /\ Len(waiter) = 0
    BY <1>1, <2>1 DEF Holds, WaiterInv
  <2>3. OwnPolicy(c) = IF plan[c].policy # NoPolicy THEN plan[c].policy ELSE DefaultPolicy
    BY <1>3 DEF OwnPolicy
  <2>4. /\ Become(c, [call[c] EXCEPT !.pc = "look", !.policy = OwnPolicy(c)])
        /\ UNCHANGED <<server, finder, waiter, lock, plan>>
    BY <1>3, <2>2, <2>3 DEF Enter
  <2> QED  BY <1>1, <2>4, EnteredStep
<1>4. CASE plan[c].op = "auto"
  <2>1. waiter = <<OwnPolicy(c)>>
    BY <1>1, <1>4 DEF Holds, WaiterInv
  <2>2. waiter # <<>> /\ Len(waiter) = 1 /\ waiter[1] = OwnPolicy(c)
    BY <2>1
  <2>3. /\ Become(c, [call[c] EXCEPT !.pc = "look", !.policy = OwnPolicy(c)])
        /\ UNCHANGED <<server, finder, waiter, lock, plan>>
    BY <1>4, <2>2 DEF Enter
  <2> QED  BY <1>1, <2>3, EnteredStep
<1> QED  BY <1>1, <1>3, <1>4

\* Steps outside the fence that go to another place, or see something on the way.
LEMMA PlaceStep ==
  ASSUME AutoAlone, ApprovalsInv, NEW c \in Callers, NEW seen, NEW card,
         NEW pc \in {"enter", "look", "idle", "fence", "message", "approval"},
         Become(c, [call[c] EXCEPT !.pc = pc, !.card = card, !.seen = seen])
           \/ Become(c, [call[c] EXCEPT !.pc = pc, !.seen = seen])
           \/ Become(c, [call[c] EXCEPT !.pc = pc, !.card = card])
           \/ Become(c, [call[c] EXCEPT !.pc = pc, !.round = @ + 1])
           \/ Become(c, [call[c] EXCEPT !.pc = pc]),
         UNCHANGED <<server, finder, waiter, lock, plan>>,
         \/ call[c].pc = "find" /\ pc = "enter"
         \/ call[c].pc \in Loop /\ pc \in Loop \cup {"fence"}
         \/ call[c].pc = "status" /\ pc \in {"message", "approval"}
  PROVE  ApprovalsInv'
<1>1. IsCall(call[c]) /\ CallOK(c) /\ DOMAIN call = Callers
  BY Known DEF ApprovalsInv, Holds, Typed
<1>2. \/ call'[c] = [call[c] EXCEPT !.pc = pc, !.card = card, !.seen = seen]
      \/ call'[c] = [call[c] EXCEPT !.pc = pc, !.seen = seen]
      \/ call'[c] = [call[c] EXCEPT !.pc = pc, !.card = card]
      \/ call'[c] = [call[c] EXCEPT !.pc = pc, !.round = @ + 1]
      \/ call'[c] = [call[c] EXCEPT !.pc = pc]
  BY <1>1, Became
<1>3. /\ IsCall(call'[c]) /\ call'[c].pc = pc /\ call'[c].policy = call[c].policy
      /\ call'[c].waiter = call[c].waiter /\ call'[c].finder = call[c].finder
  BY <1>1, <1>2 DEF IsCall, PCs
<1>4. CallOK(c)'
  BY <1>1, <1>3 DEF CallOK, At, Loop, Inside, OwnPolicy
<1>5. Become(c, call'[c])
  BY <1>1, <1>2, Became
<1> QED  BY <1>3, <1>4, <1>5, GoesOn DEF Inside, Loop

\* The prompt of send_and_auto_approve is a message of the user.
LEMMA SendStep ==
  ASSUME AutoAlone, ApprovalsInv, NEW c \in Callers, Send(c)
  PROVE  ApprovalsInv'
<1>1. /\ IsCall(call[c]) /\ CallOK(c) /\ DOMAIN call = Callers /\ call[c].pc = "send"
      /\ plan[c].op = "auto" /\ Holds /\ Typed /\ TreeInv
  BY Known DEF ApprovalsInv, Holds, Typed, Send, At, CallOK
<1>2. PICK pc \in {"enter", "find"} : Become(c, [call[c] EXCEPT !.pc = pc])
  BY DEF Send, Go
<1>3. /\ nodes' = Append(nodes, Message("user", current)) /\ current' = Len(nodes) + 1
      /\ UNCHANGED <<late, finder, waiter, lock, plan>>
  BY DEF Send
<1>4. call'[c] = [call[c] EXCEPT !.pc = pc]
  BY <1>1, <1>2, Became
<1>5. /\ IsCall(call'[c]) /\ call'[c].pc = pc
      /\ call'[c].waiter = call[c].waiter /\ call'[c].finder = call[c].finder
  BY <1>1, <1>4 DEF IsCall, PCs
<1>6. CallOK(c)'
  BY <1>1, <1>3, <1>5 DEF CallOK, At, Loop, Inside
<1>7. Become(c, call'[c])
  BY <1>2, <1>4
<1>8. Moves(c)
  BY <1>1, <1>3, <1>5, <1>6, <1>7, Goes DEF Inside
<1>9. /\ CallInv' /\ WaiterInv' /\ FinderInv'
      /\ lock' \in Callers \cup {NoCaller} /\ plan' \in Plans
      /\ DOMAIN call' = Callers /\ \A d \in Callers : IsCall(call'[d])
  BY <1>1, <1>8, MovesKeep
<1>10. Message("user", current) \in NodeRecords /\ Message("user", current).kind = "user"
  <2>1. current \in Nat
    BY <1>1 DEF Typed, Ids
  <2> QED  BY <2>1 DEF Message, Node, NodeRecords, Kinds
<1>11. /\ Grows /\ Len(nodes) \in Nat /\ Ids' = Ids \cup {Len(nodes) + 1}
       /\ nodes'[Len(nodes) + 1].kind = "user"
  BY <1>1, <1>3, <1>10, Appended DEF Typed
<1>12. AddsRightly /\ LateRightly
  BY <1>1, <1>3, <1>11 DEF AddsRightly, LateRightly, Typed, TreeInv
<1>13. TreeInv' /\ late' \subseteq Callers \X Ids'
  BY <1>1, <1>3, <1>11, <1>12, TreeKept
<1>14. ASSUME NEW d \in Callers PROVE CardOK(d)'
  <2>1. CASE d = c
    BY <1>5, <2>1 DEF CardOK
  <2>2. CASE d # c
    <3>1. call'[d] = call[d] /\ CardOK(d)
      BY <2>2, <1>8 DEF Moves, ApprovalsInv, CardInv
    <3>2. \A n \in Ids' \ Ids : nodes'[n].kind # "allow"
      BY <1>11
    <3> QED  BY <1>1, <1>3, <1>11, <3>1, <3>2, CardKept
  <2> QED  BY <2>1, <2>2
<1>15. Typed'
  BY <1>3, <1>9, <1>11, <1>13 DEF Typed, Grows
<1> QED  BY <1>9, <1>13, <1>14, <1>15 DEF ApprovalsInv, Holds, CardInv

\* The loop, the discovery of a new chat and wait_until_completed.
LEMMA WaitStep ==
  ASSUME AutoAlone, ApprovalsInv, NEW c \in Callers,
         SendFails(c) \/ Discover(c) \/ Look(c) \/ Idle(c) \/ ReadFails(c)
           \/ ReadStatus(c) \/ StatusTimesOut(c) \/ ReadMessage(c) \/ ReadApproval(c)
  PROVE  ApprovalsInv'
<1>1. CASE \E result, seen : Finish(c, result, seen) /\ call[c].pc \notin Inside
  BY <1>1, Ends
<1>2. CASE SendFails(c) \/ ReadFails(c) \/ StatusTimesOut(c) \/ ReadMessage(c)
             \/ ReadApproval(c)
  BY <1>1, <1>2 DEF SendFails, ReadFails, StatusTimesOut, ReadMessage, ReadApproval, At, Inside
<1>3. CASE Discover(c)
  BY <1>1, <1>3, PlaceStep DEF Discover, Go, At, Inside
<1>4. CASE Look(c)
  BY <1>1, <1>4, PlaceStep DEF Look, At, Inside, Loop
<1>5. CASE Idle(c)
  BY <1>1, <1>5, PlaceStep DEF Idle, Go, At, Inside, Loop
<1>6. CASE ReadStatus(c)
  BY <1>6, PlaceStep DEF ReadStatus, Go, At
<1> QED  BY <1>2, <1>3, <1>4, <1>5, <1>6

\* The fence is taken and the guard of the call's own policy is put in front of the
\* finder, which has no other.
LEMMA EnterApprovalStep ==
  ASSUME AutoAlone, Fenced, ApprovalsInv, NEW c \in Callers, EnterApproval(c)
  PROVE  ApprovalsInv'
<1>1. /\ IsCall(call[c]) /\ CallOK(c) /\ DOMAIN call = Callers /\ call[c].pc = "fence"
      /\ lock = NoCaller /\ finder = <<>> /\ lock' = c
      /\ call[c].policy = OwnPolicy(c) /\ UNCHANGED <<server, waiter, plan>>
  BY Known DEF ApprovalsInv, Holds, Typed, FinderInv, EnterApproval, At, CallOK
<1>2. call'[c] = [call[c] EXCEPT !.pc = "read", !.finder = <<>>]
  BY <1>1, Became DEF EnterApproval
<1>3. /\ IsCall(call'[c]) /\ call'[c].pc = "read" /\ call'[c].policy = call[c].policy
      /\ call'[c].waiter = call[c].waiter /\ call'[c].finder = <<>>
  BY <1>1, <1>2 DEF IsCall, PCs
<1>4. finder' = IF OwnPolicy(c) = NoPolicy THEN <<>> ELSE <<OwnPolicy(c)>>
  BY <1>1 DEF EnterApproval
<1>5. CallOK(c)'
  BY <1>1, <1>3 DEF CallOK, At, Loop, Inside, OwnPolicy
<1>6. FenceMove(c) /\ WaiterMove(c)
  BY <1>1, <1>3, <1>4 DEF FenceMove, WaiterMove, Inside, ApprovalsInv, Holds, WaiterInv
<1>7. \A d \in Callers \ {c} : call'[d] = call[d] /\ DOMAIN call' = Callers
  BY DEF EnterApproval, Become, ApprovalsInv, Holds, Typed
<1>8. DOMAIN call' = Callers
  BY <1>1 DEF EnterApproval, Become
<1>9. Moves(c)
  BY <1>1, <1>3, <1>5, <1>6, <1>7, <1>8 DEF Moves
<1> QED  BY <1>1, <1>3, <1>9, QuietStep

\* The card is found again: it is one nobody has answered, and the guards, which are
\* the call's own, let it through.
LEMMA ReadStep ==
  ASSUME AutoAlone, ApprovalsInv, NEW c \in Callers, Read(c)
  PROVE  ApprovalsInv'
<1>1. /\ IsCall(call[c]) /\ CallOK(c) /\ Holds /\ Typed /\ call[c].pc = "read"
      /\ DOMAIN call = Callers /\ TreeInv
  BY Known DEF ApprovalsInv, Holds, Typed, Read, At
<1>2. CASE \E result : EndApproval(c, result, Nothing) /\ UNCHANGED server
  BY <1>1, <1>2, EndsInside DEF Inside
<1>3. CASE /\ ConfirmActionLeaf # 0 /\ ~Denied(ConfirmActionLeaf)
           /\ Become(c, [call[c] EXCEPT !.pc = "prepare", !.card = ConfirmActionLeaf])
           /\ UNCHANGED <<server, finder, waiter, lock, plan>>
  <2>0. PICK card : card = ConfirmActionLeaf
    OBVIOUS
  <2>1. call'[c] = [call[c] EXCEPT !.pc = "prepare", !.card = card]
    BY <1>1, <1>3, <2>0, Became
  <2>2. /\ IsCall(call'[c]) /\ call'[c].pc = "prepare" /\ call'[c].policy = call[c].policy
        /\ call'[c].waiter = call[c].waiter /\ call'[c].finder = call[c].finder
        /\ call'[c].card = card
    BY <1>1, <2>1 DEF IsCall, PCs
  <2>3. CallOK(c)'
    BY <1>1, <1>3, <2>2 DEF CallOK, At, Loop, Inside, OwnPolicy
  <2>4. Become(c, call'[c])
    BY <1>3, <2>0, <2>1
  <2>5. Moves(c)
    BY <1>1, <1>3, <2>2, <2>3, <2>4, Goes DEF Inside
  <2>6. card \in Ids /\ nodes[card].kind = "card" /\ IsLeaf(card)
    <3>1. Len(nodes) \in Nat
      BY <1>1 DEF Typed
    <3> QED  BY <1>3, <2>0, <3>1, FoundLeaf
  <2>7. Permitted(c, card)
    <3>1. CASE OwnPolicy(c) = NoPolicy
      BY <3>1 DEF Permitted
    <3>2. CASE OwnPolicy(c) # NoPolicy
      <4>1. finder = <<OwnPolicy(c)>>
        BY <1>1, <3>2 DEF Holds, FinderInv, Inside
      <4>2. Len(finder) = 1 /\ finder[1] = OwnPolicy(c)
        BY <4>1
      <4>3. Allows(OwnPolicy(c), nodes[card])
        BY <1>3, <2>0, <4>2 DEF Denied
      <4>4. OwnPolicy(c) \in PolicyFields
        BY <1>1, <3>2, OwnIsPolicy
      <4>5. nodes[card].readOnly \in BOOLEAN
        <5>1. nodes[card] \in NodeRecords
          BY <1>1, <2>6 DEF Typed, Ids
        <5> QED  BY <5>1 DEF NodeRecords
      <4> QED  BY <4>3, <4>4, <4>5, AllowedIsPermitted DEF Permitted
    <3> QED  BY <3>1, <3>2
  <2>8. \A m \in Ids : nodes[m].parent # card
    BY <2>6 DEF IsLeaf
  <2>9. nodes' = nodes /\ Ids' = Ids /\ Permitted(c, card)'
    BY <1>3, <2>7 DEF server, Ids, Permitted, Permits, OwnPolicy
  <2>10. CardOK(c)'
    <3>1. call'[c].card = card /\ card \in Ids' /\ nodes'[card].kind = "card"
      BY <2>2, <2>6, <2>9
    <3>2. \A m \in Ids' : nodes'[m].kind = "allow" => nodes'[m].parent # card
      BY <2>8, <2>9
    <3>3. Permitted(c, call[c].card)'
      BY <2>9, <3>1 DEF Permitted
    <3> QED  BY <3>1, <3>2, <3>3 DEF CardOK
  <2>11. LateRightly
    BY <1>1, <1>3, NothingBreaks
  <2> QED  BY <1>3, <2>5, <2>10, <2>11, CallStep DEF server
<1> QED  BY <1>2, <1>3 DEF Read

\* Mutual exclusion: under the fence no other call has a card in its hands.
LEMMA PrepareStep ==
  ASSUME AutoAlone, ApprovalsInv, NEW c \in Callers, Prepare(c)
  PROVE  ApprovalsInv'
<1>1. /\ IsCall(call[c]) /\ CallOK(c) /\ CardOK(c) /\ Holds /\ Typed /\ call[c].pc = "prepare"
      /\ DOMAIN call = Callers /\ TreeInv
  BY Known DEF ApprovalsInv, Holds, Typed, Prepare, At
<1>2. /\ Become(c, [call[c] EXCEPT !.pc = "stream"])
      /\ UNCHANGED <<server, finder, waiter, lock, plan>>
  BY DEF Prepare, Go
<1>3. call'[c] = [call[c] EXCEPT !.pc = "stream"]
  BY <1>1, <1>2, Became
<1>4. /\ IsCall(call'[c]) /\ call'[c].pc = "stream" /\ call'[c].policy = call[c].policy
      /\ call'[c].waiter = call[c].waiter /\ call'[c].finder = call[c].finder
      /\ call'[c].card = call[c].card
  BY <1>1, <1>3 DEF IsCall, PCs
<1>5. CallOK(c)'
  BY <1>1, <1>2, <1>4 DEF CallOK, At, Loop, Inside, OwnPolicy
<1>6. Become(c, call'[c])
  BY <1>2, <1>3
<1>7. Moves(c)
  BY <1>1, <1>2, <1>4, <1>5, <1>6, Goes DEF Inside
<1>8. CardOK(c)'
  BY <1>1, <1>2, <1>4 DEF CardOK, server, Ids, Permitted, OwnPolicy
<1>9. LateRightly
  BY <1>1, <1>2, NothingBreaks
<1> QED  BY <1>2, <1>7, <1>8, <1>9, CallStep DEF server

\* An approval that fails, or whose poll times out, leaves the fence.
LEMMA ApprovalFailsStep ==
  ASSUME AutoAlone, ApprovalsInv, NEW c \in Callers, ApprovalFails(c) \/ PollTimesOut(c)
  PROVE  ApprovalsInv'
<1>1. /\ \E result, seen : EndApproval(c, result, seen)
      /\ call[c].pc \in Inside /\ UNCHANGED server
  BY DEF ApprovalFails, PollTimesOut, At, Inside
<1> QED  BY <1>1, EndsInside

\* A node is added to the mapping: the rest of it, and the cards the calls have in
\* their hands, are as they were.
LEMMA NodeAdded ==
  ASSUME ApprovalsInv, plan' = plan,
         CallInv', WaiterInv', FinderInv', lock' \in Callers \cup {NoCaller},
         DOMAIN call' = Callers, \A d \in Callers : IsCall(call'[d]),
         NEW x \in NodeRecords, nodes' = Append(nodes, x), current' = Len(nodes) + 1,
         LateRightly,
         x.kind \in {"allow", "late"} =>
           x.by \in Callers /\ x.parent \in Ids /\ Permitted(x.by, x.parent),
         x.kind = "allow" =>
           \A m \in Ids : nodes[m].kind = "allow" => nodes[m].parent # x.parent,
         \A d \in Callers :
           \/ call'[d].pc \notin {"prepare", "stream"}
           \/ /\ call'[d] = call[d]
              /\ x.kind = "allow" => call[d].pc \notin {"prepare", "stream"}
  PROVE  ApprovalsInv'
<1>1. Typed /\ TreeInv /\ CardInv /\ plan \in Plans
  BY DEF ApprovalsInv, Holds, Typed
<1>2. /\ Grows /\ Len(nodes) \in Nat /\ Ids' = Ids \cup {Len(nodes) + 1}
      /\ nodes'[Len(nodes) + 1] = x
  BY <1>1, Appended DEF Typed
<1>3. AddsRightly
  BY <1>2 DEF AddsRightly
<1>4. TreeInv' /\ late' \subseteq Callers \X Ids'
  BY <1>1, <1>2, <1>3, TreeKept
<1>5. ASSUME NEW d \in Callers PROVE CardOK(d)'
  <2>1. CASE call'[d].pc \notin {"prepare", "stream"}
    BY <2>1 DEF CardOK
  <2>2. CASE call'[d].pc \in {"prepare", "stream"}
    <3>1. /\ call'[d] = call[d] /\ CardOK(d)
          /\ \A n \in Ids' \ Ids : nodes'[n].kind = "allow" =>
               call[d].pc \notin {"prepare", "stream"}
      BY <1>1, <1>2, <2>2 DEF CardInv
    <3> QED  BY <1>1, <1>2, <3>1, CardKept
  <2> QED  BY <2>1, <2>2
<1>6. Typed'
  BY <1>1, <1>2, <1>4 DEF Typed, Grows
<1> QED  BY <1>4, <1>5, <1>6 DEF ApprovalsInv, Holds, CardInv

\* The allow message is the first of its card: nobody had approved the card when it
\* was found, and nobody else was inside the fence since.
LEMMA StreamStep ==
  ASSUME AutoAlone, ApprovalsInv, NEW c \in Callers, Stream(c)
  PROVE  ApprovalsInv'
<1>1. /\ IsCall(call[c]) /\ CallOK(c) /\ CardOK(c) /\ Holds /\ Typed /\ TreeInv
      /\ call[c].pc = "stream" /\ DOMAIN call = Callers
  BY Known DEF ApprovalsInv, Holds, Typed, Stream, At
<1>2. /\ Become(c, [call[c] EXCEPT !.pc = "poll"])
      /\ UNCHANGED <<late, finder, waiter, lock, plan>>
      /\ nodes' = Append(nodes, AllowMessage("allow", c, call[c].card))
      /\ current' = Len(nodes) + 1
  BY DEF Stream, Go
<1>3. call'[c] = [call[c] EXCEPT !.pc = "poll"]
  BY <1>1, <1>2, Became
<1>4. /\ IsCall(call'[c]) /\ call'[c].pc = "poll" /\ call'[c].policy = call[c].policy
      /\ call'[c].waiter = call[c].waiter /\ call'[c].finder = call[c].finder
  BY <1>1, <1>3 DEF IsCall, PCs
<1>5. CallOK(c)'
  BY <1>1, <1>2, <1>4 DEF CallOK, At, Loop, Inside, OwnPolicy
<1>6. Become(c, call'[c])
  BY <1>2, <1>3
<1>7. Moves(c)
  BY <1>1, <1>2, <1>4, <1>5, <1>6, Goes DEF Inside
<1>8. /\ CallInv' /\ WaiterInv' /\ FinderInv'
      /\ lock' \in Callers \cup {NoCaller}
      /\ DOMAIN call' = Callers /\ \A d \in Callers : IsCall(call'[d])
  BY <1>1, <1>7, MovesKeep
<1> DEFINE x == AllowMessage("allow", c, call[c].card)
<1>9. /\ call[c].card \in Ids /\ Permitted(c, call[c].card)
      /\ \A m \in Ids : nodes[m].kind = "allow" => nodes[m].parent # call[c].card
  BY <1>1 DEF CardOK
<1>10. /\ x \in NodeRecords /\ x.kind = "allow" /\ x.by = c /\ x.parent = call[c].card
  <2>1. call[c].card \in Nat
    BY <1>9 DEF Ids
  <2> QED  BY <2>1 DEF AllowMessage, Node, NodeRecords, Kinds
<1>11. LateRightly
  BY <1>1, <1>2 DEF LateRightly, Typed, TreeInv
<1>12. ASSUME NEW d \in Callers
       PROVE  \/ call'[d].pc \notin {"prepare", "stream"}
              \/ /\ call'[d] = call[d]
                 /\ x.kind = "allow" => call[d].pc \notin {"prepare", "stream"}
  <2>1. CASE d = c
    BY <1>4, <2>1
  <2>2. CASE d # c
    <3>1. lock = c /\ call[d].pc \notin Inside
      BY <1>1, <2>2 DEF Holds, FinderInv, Inside
    <3>2. call'[d] = call[d]
      BY <1>7, <2>2 DEF Moves
    <3> QED  BY <3>1, <3>2 DEF Inside
  <2> QED  BY <2>1, <2>2
<1> HIDE DEF x
<1> QED  BY <1>2, <1>8, <1>9, <1>10, <1>11, <1>12, NodeAdded DEF x

\* A stream that breaks leaves the approval of a card that was permitted.
LEMMA StreamBreaksStep ==
  ASSUME AutoAlone, ApprovalsInv, NEW c \in Callers, StreamBreaks(c)
  PROVE  ApprovalsInv'
<1>1. /\ CardOK(c) /\ Holds /\ Typed /\ TreeInv /\ call[c].pc = "stream"
      /\ EndApproval(c, "error", Nothing) /\ UNCHANGED <<nodes, current>>
      /\ late' = late \cup {<<c, call[c].card>>}
  BY Known DEF ApprovalsInv, Holds, Typed, StreamBreaks, At
<1>2. Moves(c) /\ call'[c].pc = "done"
  BY <1>1, EndsApproval DEF Inside
<1>3. call[c].card \in Ids /\ nodes[call[c].card].kind = "card" /\ Permitted(c, call[c].card)
  BY <1>1 DEF CardOK
<1>4. \A w \in late : w[1] \in Callers /\ w[2] \in Ids /\ w = <<w[1], w[2]>>
  BY <1>1 DEF Typed
<1>5. LateRightly
  BY <1>1, <1>3, <1>4 DEF LateRightly, TreeInv
<1>6. CardOK(c)'
  BY <1>2 DEF CardOK
<1> QED  BY <1>1, <1>2, <1>5, <1>6, CallStep

\* The answer is there: the call returns, or its loop looks for the next card.
LEMMA PollStep ==
  ASSUME AutoAlone, ApprovalsInv, NEW c \in Callers, Poll(c)
  PROVE  ApprovalsInv'
<1>1. PICK seen : call[c].pc = "poll" /\ AfterApproval(c, seen)
  BY DEF Poll, At
<1>2. /\ IsCall(call[c]) /\ CallOK(c) /\ Holds /\ DOMAIN call = Callers
      /\ plan[c].op \in {"approve", "wait", "auto", "until"} /\ UNCHANGED server
  BY <1>1, Known DEF ApprovalsInv, Holds, Typed, AfterApproval
<1>3. CASE EndApproval(c, "answer", seen)
  BY <1>1, <1>2, <1>3, EndsInside DEF Inside
<1>4. CASE /\ plan[c].op # "approve" /\ LeaveApproval(c) /\ UNCHANGED waiter
           /\ Become(c, [call[c] EXCEPT !.pc = "look", !.seen = seen])
  <2>1. call'[c] = [call[c] EXCEPT !.pc = "look", !.seen = seen]
    BY <1>2, <1>4, Became
  <2>2. /\ IsCall(call'[c]) /\ call'[c].pc = "look" /\ call'[c].policy = call[c].policy
        /\ call'[c].waiter = call[c].waiter
    BY <1>2, <2>1 DEF IsCall, PCs
  <2>3. lock' = NoCaller /\ finder' = <<>> /\ plan' = plan
    BY <1>1, <1>2, <1>4, Leaves DEF Inside
  <2>4. CallOK(c)'
    BY <1>1, <1>2, <1>4, <2>2, <2>3 DEF CallOK, At, Loop, Inside, OwnPolicy
  <2>5. FenceMove(c) /\ WaiterMove(c)
    BY <1>1, <1>2, <1>4, <2>2, <2>3 DEF FenceMove, WaiterMove, Inside, Holds, WaiterInv
  <2>6. DOMAIN call' = Callers /\ \A d \in Callers \ {c} : call'[d] = call[d]
    BY <1>2, <1>4, Became
  <2>7. Moves(c)
    BY <2>2, <2>3, <2>4, <2>5, <2>6 DEF Moves
  <2> QED  BY <1>2, <2>2, <2>7, QuietStep
<1> QED  BY <1>1, <1>3, <1>4 DEF AfterApproval

-----------------------------------------------------------------------------
(* The backend and the user *)

\* The calls and the client are left alone by everything outside it.
LEMMA ClientKept ==
  ASSUME ApprovalsInv, UNCHANGED <<finder, waiter, lock, plan, call>>
  PROVE  /\ CallInv' /\ WaiterInv' /\ FinderInv' /\ plan' = plan /\ plan' \in Plans
         /\ lock' \in Callers \cup {NoCaller}
         /\ DOMAIN call' = Callers /\ \A d \in Callers : IsCall(call'[d]) /\ call'[d] = call[d]
<1>1. \A d \in Callers : OwnPolicy(d)' = OwnPolicy(d)
  BY DEF OwnPolicy
<1>2. CallInv'
  BY <1>1 DEF ApprovalsInv, Holds, CallInv, CallOK, At
<1>3. WaiterInv' /\ FinderInv'
  BY <1>1 DEF ApprovalsInv, Holds, WaiterInv, FinderInv
<1> QED  BY <1>2, <1>3 DEF ApprovalsInv, Holds, Typed

\* The backend, or the user, adds a message that is no approval of a call.
LEMMA OutsideAdds ==
  ASSUME ApprovalsInv, UNCHANGED <<finder, waiter, lock, plan, call, late>>,
         NEW kind \in Kinds \ {"allow", "late"}, NEW parent \in Nat,
         NEW recipient \in Recipients \cup {NoRecipient}, NEW readOnly \in BOOLEAN,
         Extend(kind, parent, recipient, readOnly)
  PROVE  ApprovalsInv'
<1> DEFINE x == Node(kind, parent, recipient, readOnly, NoCaller)
<1>1. x \in NodeRecords /\ x.kind = kind
  BY DEF Node, NodeRecords
<1>2. nodes' = Append(nodes, x) /\ current' = Len(nodes) + 1
  BY DEF Extend
<1>3. /\ CallInv' /\ WaiterInv' /\ FinderInv' /\ plan' = plan
      /\ lock' \in Callers \cup {NoCaller}
      /\ DOMAIN call' = Callers /\ \A d \in Callers : IsCall(call'[d]) /\ call'[d] = call[d]
  BY ClientKept
<1>4. LateRightly
  BY DEF LateRightly, ApprovalsInv, Holds, Typed, TreeInv
<1> HIDE DEF x
<1> QED  BY <1>1, <1>2, <1>3, <1>4, NodeAdded

\* Something outside changes no node but one that is completed.
LEMMA OutsideKeeps ==
  ASSUME ApprovalsInv, UNCHANGED <<finder, waiter, lock, plan, call, current>>,
         Grows, Len(nodes') = Len(nodes), late' \subseteq late
  PROVE  ApprovalsInv'
<1>1. Typed /\ TreeInv /\ CardInv
  BY DEF ApprovalsInv, Holds
<1>2. Ids' = Ids
  BY DEF Ids
<1>3. /\ CallInv' /\ WaiterInv' /\ FinderInv' /\ plan' = plan /\ plan' \in Plans
      /\ lock' \in Callers \cup {NoCaller}
      /\ DOMAIN call' = Callers /\ \A d \in Callers : IsCall(call'[d]) /\ call'[d] = call[d]
  BY ClientKept
<1>4. AddsRightly
  BY <1>2 DEF AddsRightly
<1>5. LateRightly
  <2>1. \A w \in late : w[1] \in Callers /\ w[2] \in Ids /\ w = <<w[1], w[2]>>
    BY <1>1 DEF Typed
  <2> QED  BY <1>1, <2>1 DEF LateRightly, TreeInv
<1>6. TreeInv' /\ late' \subseteq Callers \X Ids'
  BY <1>1, <1>3, <1>4, <1>5, TreeKept
<1>7. ASSUME NEW d \in Callers PROVE CardOK(d)'
  <2>1. CardOK(d) /\ call'[d] = call[d]
    BY <1>1, <1>3 DEF CardInv
  <2> QED  BY <1>1, <1>2, <1>3, <2>1, CardKept
<1>8. Typed'
  BY <1>1, <1>2, <1>3, <1>6 DEF Typed, Grows
<1> QED  BY <1>3, <1>6, <1>7, <1>8 DEF ApprovalsInv, Holds, CardInv

\* A mapping that stays the same grows by nothing.
LEMMA Unchanged ==
  ASSUME nodes \in Seq(NodeRecords), nodes' = nodes
  PROVE  Grows /\ Len(nodes') = Len(nodes)
BY DEF Grows

\* A message that is completed keeps its place.
LEMMA Completes ==
  ASSUME nodes \in Seq(NodeRecords), current \in Ids, CompleteMessage
  PROVE  Grows /\ Len(nodes') = Len(nodes)
<1>1. /\ nodes' = [nodes EXCEPT ![current] = [@ EXCEPT !.kind = "final"]]
      /\ nodes[current].kind = "partial" /\ Len(nodes) \in Nat
      /\ \A n \in Ids : nodes[n] \in NodeRecords
  BY DEF CompleteMessage, Ids
<1>2. /\ current \in 1 .. Len(nodes) /\ nodes[current] \in NodeRecords
      /\ [nodes[current] EXCEPT !.kind = "final"] \in NodeRecords
  BY <1>1 DEF Ids, NodeRecords, Kinds
<1>3. nodes' \in Seq(NodeRecords) /\ Len(nodes') = Len(nodes)
  BY <1>1, <1>2, ExceptSeq
<1>4. \A n \in Ids :
        nodes'[n] = IF n = current THEN [nodes[n] EXCEPT !.kind = "final"] ELSE nodes[n]
  BY <1>1 DEF Ids
<1>5. nodes'[current].kind = "final"
  <2>1. nodes'[current] = [nodes[current] EXCEPT !.kind = "final"]
    BY <1>4
  <2> QED  BY <1>2, <2>1 DEF NodeRecords
<1>6. ASSUME NEW n \in Ids
      PROVE  /\ nodes'[n].parent = nodes[n].parent /\ nodes'[n].by = nodes[n].by
             /\ nodes'[n].recipient = nodes[n].recipient
             /\ nodes'[n].readOnly = nodes[n].readOnly
  <2>1. nodes[n] \in NodeRecords
    BY <1>1
  <2> QED  BY <1>4, <2>1 DEF NodeRecords
<1>7. \A n \in Ids : n # current => nodes'[n].kind = nodes[n].kind
  BY <1>4
<1> QED  BY <1>1, <1>3, <1>5, <1>6, <1>7 DEF Grows

\* Whatever the backend and the user do, they send no approval that was not permitted.
LEMMA BackendStep ==
  ASSUME ApprovalsInv, Backend
  PROVE  ApprovalsInv'
<1>1. /\ UNCHANGED <<finder, waiter, lock, plan, call>> /\ Typed
      /\ nodes \in Seq(NodeRecords) /\ current \in Ids /\ current \in Nat
      /\ \A n \in Ids : nodes[n] \in NodeRecords /\ nodes[n].parent \in Nat
  <2>1. Typed
    BY DEF ApprovalsInv, Holds
  <2>2. \A n \in Ids : nodes[n] \in NodeRecords
    BY <2>1 DEF Typed, Ids
  <2> QED  BY <2>1, <2>2 DEF Backend, Typed, Ids, NodeRecords
<1>2. CASE Answer \/ UserAnswers
  <2>1. PICK kind \in {"partial", "answer"} :
          Extend(kind, current, NoRecipient, FALSE) /\ late' = late
    BY <1>2 DEF Answer, UserAnswers
  <2>2. kind \in Kinds \ {"allow", "late"}
    BY DEF Kinds
  <2> QED  BY <1>1, <2>1, <2>2, OutsideAdds
<1>3. CASE CompleteMessage
  <2>1. UNCHANGED <<current, late>> /\ Grows /\ Len(nodes') = Len(nodes)
    BY <1>1, <1>3, Completes DEF CompleteMessage
  <2> QED  BY <1>1, <2>1, OutsideKeeps
<1>4. CASE PostCard
  <2>1. PICK k \in CardKinds : Extend("card", current, k[1], k[2]) /\ late' = late
    BY <1>4 DEF PostCard
  <2>2. k[1] \in Recipients /\ k[2] \in BOOLEAN
    BY ApprovalsAssumption
  <2>3. "card" \in Kinds \ {"allow", "late"}
    BY DEF Kinds
  <2> QED  BY <1>1, <2>1, <2>2, <2>3, OutsideAdds
<1>5. CASE UserEdits
  <2>1. PICK n \in Ids : Extend("user", nodes[n].parent, NoRecipient, FALSE) /\ late' = late
    BY <1>5 DEF UserEdits
  <2>2. "user" \in Kinds \ {"allow", "late"}
    BY DEF Kinds
  <2> QED  BY <1>1, <2>1, <2>2, OutsideAdds
<1>6. CASE LateAllow
  <2>1. PICK w \in late :
          /\ late' = late \ {w}
          /\ \/ /\ nodes' = Append(nodes, AllowMessage("late", w[1], w[2]))
                /\ current' = Len(nodes) + 1
             \/ UNCHANGED <<nodes, current>>
    BY <1>6 DEF LateAllow
  <2>2. \A v \in late : /\ v[1] \in Callers /\ v[2] \in Ids /\ v = <<v[1], v[2]>>
                        /\ nodes[v[2]].kind = "card" /\ Permitted(v[1], v[2])
    BY <1>1 DEF Typed, TreeInv, ApprovalsInv
  <2>3. CASE UNCHANGED <<nodes, current>>
    BY <1>1, <2>1, <2>3, Unchanged, OutsideKeeps
  <2>4. CASE /\ nodes' = Append(nodes, AllowMessage("late", w[1], w[2]))
             /\ current' = Len(nodes) + 1
    <3> DEFINE x == AllowMessage("late", w[1], w[2])
    <3>1. x \in NodeRecords /\ x.kind = "late" /\ x.by = w[1] /\ x.parent = w[2]
      <4>1. w[2] \in Nat /\ w[1] \in Callers
        BY <2>2 DEF Ids
      <4> QED  BY <4>1 DEF AllowMessage, Node, NodeRecords, Kinds
    <3>2. LateRightly
      BY <2>1, <2>2 DEF LateRightly
    <3>3. /\ CallInv' /\ WaiterInv' /\ FinderInv' /\ plan' = plan
          /\ lock' \in Callers \cup {NoCaller}
          /\ DOMAIN call' = Callers /\ \A d \in Callers : IsCall(call'[d]) /\ call'[d] = call[d]
      BY <1>1, ClientKept
    <3> HIDE DEF x
    <3> QED  BY <2>1, <2>2, <2>4, <3>1, <3>2, <3>3, NodeAdded DEF x
  <2> QED  BY <2>1, <2>3, <2>4
<1>7. CASE TaskEnds
  BY <1>1, <1>7, Unchanged, OutsideKeeps DEF TaskEnds
<1> QED  BY <1>2, <1>3, <1>4, <1>5, <1>6, <1>7 DEF Backend

-----------------------------------------------------------------------------
(* The invariant *)

\* At first there is one message of the user, and no call has begun.
LEMMA ApprovalsInvHolds ==
  ASSUME Init
  PROVE  ApprovalsInv
<1>1. /\ nodes = <<Message("user", 0)>> /\ current = 1 /\ late = {} /\ waiter = <<>>
      /\ finder = <<>> /\ lock = NoCaller /\ plan \in Plans
      /\ call = [c \in Callers |-> Fresh]
  BY DEF Init
<1>2. Message("user", 0) \in NodeRecords /\ Message("user", 0).kind = "user"
  BY DEF Message, Node, NodeRecords, Kinds
<1>3. nodes \in Seq(NodeRecords) /\ Len(nodes) = 1 /\ nodes[1].kind = "user"
  BY <1>1, <1>2
<1>4. Ids = {1}
  BY <1>3 DEF Ids
<1>5. \A c \in Callers : call[c] = Fresh /\ IsCall(call[c]) /\ call[c].pc = "start"
                         /\ call[c].waiter = <<>>
  BY <1>1 DEF Fresh, IsCall, PCs
<1>6. Typed
  BY <1>1, <1>3, <1>4, <1>5 DEF Typed
<1>7. CallInv /\ CardInv
  BY <1>5 DEF CallInv, CallOK, CardInv, CardOK, At, Inside, Loop
<1>8. WaiterInv
  BY <1>1, <1>5 DEF WaiterInv
<1>9. FinderInv
  BY <1>1, <1>5, ApprovalsAssumption DEF FinderInv, Inside
<1>10. TreeInv
  BY <1>1, <1>3, <1>4 DEF TreeInv
<1> QED  BY <1>6, <1>7, <1>8, <1>9, <1>10 DEF ApprovalsInv, Holds

\* Every step keeps the invariant.
LEMMA ApprovalsInvKept ==
  ASSUME AutoAlone, Fenced, ApprovalsInv, [Next]_vars
  PROVE  ApprovalsInv'
<1>1. ASSUME NEW c \in Callers, Step(c) PROVE ApprovalsInv'
  <2>1. CASE Approving(c)
    BY <2>1, EnterApprovalStep, ReadStep, PrepareStep, StreamStep, ApprovalFailsStep,
       StreamBreaksStep, PollStep DEF Approving
  <2>2. CASE Waiting(c)
    BY <2>2, EnterStep, WaitStep DEF Waiting
  <2> QED  BY <1>1, <2>1, <2>2, StartStep, SendStep, WaitStep DEF Step
<1>2. CASE UNCHANGED vars
  <2>1. Grows /\ Len(nodes') = Len(nodes)
    BY <1>2, Unchanged DEF vars, ApprovalsInv, Holds, Typed
  <2> QED  BY <1>2, <2>1, OutsideKeeps DEF vars
<1> QED  BY <1>1, <1>2, BackendStep DEF Next

\* On a fenced client whose send_and_auto_approve has the loop to itself the invariant
\* always holds.
LEMMA ApprovalsInvAlways ==
  ASSUME AutoAlone, Fenced
  PROVE  Spec => []ApprovalsInv
<1>1. Init => ApprovalsInv
  BY ApprovalsInvHolds
<1>2. ApprovalsInv /\ [Next]_vars => ApprovalsInv'
  BY ApprovalsInvKept
<1> QED  BY <1>1, <1>2, PTL DEF Spec

\* Every approval in the conversation was permitted by the policy of the call that
\* sent it, for any number of calls, policies and cards.
THEOREM ApprovedByPolicyHolds ==
  ASSUME AutoAlone, Fenced
  PROVE  Spec => []ApprovedByPolicy
<1>1. ApprovalsInv => ApprovedByPolicy
  BY DEF ApprovalsInv, TreeInv, ApprovedByPolicy, Permitted
<1> QED  BY <1>1, ApprovalsInvAlways, PTL

\* No card is approved twice by calls whose write went through.
THEOREM ApprovedOnceHolds ==
  ASSUME AutoAlone, Fenced
  PROVE  Spec => []ApprovedOnce
<1>1. ASSUME ApprovalsInv PROVE ApprovedOnce
  <2> SUFFICES ASSUME NEW n \in Ids
               PROVE  Cardinality({m \in Ids : nodes[m].kind = "allow" /\ nodes[m].parent = n}) =< 1
    BY DEF ApprovedOnce
  <2> DEFINE approvals == {m \in Ids : nodes[m].kind = "allow" /\ nodes[m].parent = n}
  <2>1. \A m, k \in approvals : m = k
    BY <1>1 DEF ApprovalsInv, TreeInv
  <2>2. approvals = {} \/ \E m : approvals = {m}
    <3> HIDE DEF approvals
    <3> QED  BY <2>1
  <2>3. Cardinality(approvals) = 0 \/ Cardinality(approvals) = 1
    <3> HIDE DEF approvals
    <3> QED  BY <2>2, FS_EmptySet, FS_Singleton
  <2> QED  BY <2>3
<1> QED  BY <1>1, ApprovalsInvAlways, PTL

-----------------------------------------------------------------------------
(* The branches of the mapping *)

\* The ancestors of every node, as Branch computes them.
Ancestors == [id \in 0 .. Len(nodes) |-> Branch(id)]

\* The mapping is a forest in the order of time.
Tree ==
  /\ nodes \in Seq(NodeRecords) /\ \A n \in Ids : nodes[n].parent < n
  /\ current \in Ids /\ late \subseteq Callers \X Ids /\ plan \in Plans

\* What a call has in its hands, and what it answers once it is done.
AnswerOK(c) ==
  LET card == call[c].card
      seen == call[c].seen
  IN /\ IsCall(call[c])
     /\ call[c].pc \in {"prepare", "stream", "poll"} => card \in Ids /\ nodes[card].kind = "card"
     /\ At(c, "message") => card \in Ids /\ nodes[card].kind = "final"
     /\ call[c].result \in {"answer", "completed"} =>
          call[c].pc = "done" /\ (seen.whole \/ seen.strayed)
     /\ call[c].result = "answer" =>
          seen.strayed \/ (seen.msg \in Ids /\ card \in Ancestors[seen.msg])

AnswerInv == Tree /\ DOMAIN call = Callers /\ \A c \in Callers : AnswerOK(c)

\* In a forest whose nodes come after their parents every node has a set of ancestors.
LEMMA AncestorsExist ==
  ASSUME NEW L \in Nat, NEW p \in [1 .. L -> Nat], \A n \in 1 .. L : p[n] < n
  PROVE  \E u : u = [n \in 0 .. L |-> IF n = 0 THEN {} ELSE {n} \cup u[p[n]]]
<1> DEFINE Solves(g, k) ==
             g = [n \in 0 .. k |-> IF n = 0 THEN {} ELSE {n} \cup g[p[n]]]
           Missing == {k \in Nat : k <= L /\ ~ \E g \in [0 .. k -> SUBSET Nat] : Solves(g, k)}
<1>1. Missing = {}
  <2> SUFFICES ASSUME Missing # {} PROVE FALSE
    OBVIOUS
  <2>1. PICK k \in Missing : \A z \in Missing : k <= z
    <3> HIDE DEF Missing
    <3>1. Missing \in SUBSET Nat
      BY DEF Missing
    <3> QED  BY <3>1, Least
  <2>2. CASE k = 0
    <3> DEFINE g == [n \in 0 .. 0 |-> {}]
    <3>1. Solves(g, 0) /\ g \in [0 .. 0 -> SUBSET Nat]
      OBVIOUS
    <3> QED  BY <2>1, <2>2, <3>1
  <2>3. CASE k # 0
    <3>1. k - 1 \in Nat /\ k - 1 <= L /\ k \in 1 .. L /\ k - 1 \notin Missing
      <4>1. k \in Nat /\ k <= L
        OBVIOUS
      <4>2. k - 1 \notin Missing
        <5> HIDE DEF Missing
        <5> QED  BY <2>1, <4>1
      <4> HIDE DEF Missing
      <4> QED  BY <2>3, <4>1, <4>2
    <3>2. PICK g \in [0 .. k - 1 -> SUBSET Nat] : Solves(g, k - 1)
      <4> HIDE DEF Solves
      <4> QED  BY <3>1
    <3> DEFINE h == [n \in 0 .. k |-> IF n < k THEN g[n] ELSE {k} \cup g[p[k]]]
    <3>3. p[k] \in 0 .. k - 1 /\ \A n \in 1 .. k : p[n] \in Nat /\ p[n] < n
      BY <3>1
    <3>4. h \in [0 .. k -> SUBSET Nat]
      BY <3>1, <3>3
    <3>5. ASSUME NEW n \in 0 .. k
          PROVE  h[n] = IF n = 0 THEN {} ELSE {n} \cup h[p[n]]
      <4>1. CASE n < k
        <5>1. n \in 0 .. k - 1 /\ h[n] = g[n]
          BY <3>1, <4>1
        <5>2. g[n] = IF n = 0 THEN {} ELSE {n} \cup g[p[n]]
          BY <3>2, <5>1
        <5>3. n # 0 => h[p[n]] = g[p[n]]
          BY <3>1, <3>3, <4>1
        <5> QED  BY <5>1, <5>2, <5>3
      <4>2. CASE n = k
        <5>1. h[n] = {k} \cup g[p[k]] /\ h[p[k]] = g[p[k]]
          BY <3>1, <3>3, <4>2
        <5>2. n # 0
          BY <2>3, <4>2
        <5> HIDE DEF h
        <5> QED  BY <4>2, <5>1, <5>2
      <4> QED  BY <3>1, <4>1, <4>2
    <3>6. Solves(h, k)
      BY <3>5
    <3> QED  BY <2>1, <3>4, <3>6
  <2> QED  BY <2>2, <2>3
<1>2. PICK g \in [0 .. L -> SUBSET Nat] : Solves(g, L)
  <2>1. L \notin Missing
    BY <1>1
  <2> HIDE DEF Solves
  <2> QED  BY <2>1
<1> QED  BY <1>2

\* What the forest says of numbers.
LEMMA TreeTyped ==
  ASSUME Tree
  PROVE  /\ Len(nodes) \in Nat /\ Ids = 1 .. Len(nodes) /\ current \in Ids
         /\ \A n \in Ids : nodes[n] \in NodeRecords /\ nodes[n].parent \in 0 .. Len(nodes)
                           /\ nodes[n].parent < n
<1>1. Len(nodes) \in Nat /\ \A n \in Ids : nodes[n] \in NodeRecords
  BY DEF Tree, Ids
<1>2. \A n \in Ids : nodes[n].parent \in Nat
  BY <1>1 DEF NodeRecords
<1> QED  BY <1>1, <1>2 DEF Tree, Ids

\* The ancestors of a node are the node and the ancestors of its parent.
LEMMA AncestorsAre ==
  ASSUME Tree, NEW id \in 0 .. Len(nodes)
  PROVE  Ancestors[id] = IF id = 0 THEN {} ELSE {id} \cup Ancestors[nodes[id].parent]
<1> DEFINE Rec(u) == u = [n \in 0 .. Len(nodes) |->
                             IF n = 0 THEN {} ELSE {n} \cup u[nodes[n].parent]]
           up == CHOOSE u : Rec(u)
<1>1. \E u : Rec(u)
  <2> DEFINE p == [n \in 1 .. Len(nodes) |-> nodes[n].parent]
  <2>1. Len(nodes) \in Nat /\ p \in [1 .. Len(nodes) -> Nat] /\ \A n \in 1 .. Len(nodes) : p[n] < n
    BY TreeTyped
  <2>2. \E u : u = [n \in 0 .. Len(nodes) |-> IF n = 0 THEN {} ELSE {n} \cup u[p[n]]]
    <3> HIDE DEF p
    <3> QED  BY <2>1, AncestorsExist
  <2>3. PICK u : u = [n \in 0 .. Len(nodes) |-> IF n = 0 THEN {} ELSE {n} \cup u[p[n]]]
    BY <2>2
  <2>4. \A n \in 0 .. Len(nodes) : n # 0 => p[n] = nodes[n].parent
    BY <2>1
  <2>5. Rec(u)
    <3>1. \A n \in 0 .. Len(nodes) : (IF n = 0 THEN {} ELSE {n} \cup u[p[n]])
             = (IF n = 0 THEN {} ELSE {n} \cup u[nodes[n].parent])
      BY <2>4
    <3> HIDE DEF p
    <3> QED  BY <2>3, <3>1
  <2> QED  BY <2>5
<1>2. Rec(up)
  <2> HIDE DEF Rec
  <2> QED  BY <1>1
<1>3. \A n \in 0 .. Len(nodes) : Branch(n) = up[n]
  BY DEF Branch
<1>4. \A n \in 0 .. Len(nodes) : Ancestors[n] = up[n]
  <2> HIDE DEF up
  <2> QED  BY <1>3 DEF Ancestors
<1>5. up[id] = IF id = 0 THEN {} ELSE {id} \cup up[nodes[id].parent]
  BY <1>2
<1>6. id # 0 => nodes[id].parent \in 0 .. Len(nodes)
  BY TreeTyped
<1> HIDE DEF up
<1> QED  BY <1>4, <1>5, <1>6

AncestorsKnown ==
  \A id \in 0 .. Len(nodes) :
    Ancestors[id] = IF id = 0 THEN {} ELSE {id} \cup Ancestors[nodes[id].parent]

\* The same of all nodes at once,
LEMMA AncestorsAll == Tree => AncestorsKnown
BY AncestorsAre DEF AncestorsKnown

\* and after a step.
LEMMA AncestorsNext == Tree' => AncestorsKnown'
BY AncestorsAll, PTL

\* A node comes last among its ancestors.
LEMMA AncestorsUpTo ==
  ASSUME Tree, NEW id \in 0 .. Len(nodes)
  PROVE  Ancestors[id] \subseteq 1 .. id /\ (id # 0 => id \in Ancestors[id])
<1> DEFINE Bad == {k \in 0 .. Len(nodes) : ~ (Ancestors[k] \subseteq 1 .. k)}
<1>1. Bad = {}
  <2> SUFFICES ASSUME Bad # {} PROVE FALSE
    OBVIOUS
  <2>1. PICK k \in Bad : \A z \in Bad : k <= z
    <3>1. Bad \in SUBSET Nat
      OBVIOUS
    <3> HIDE DEF Bad
    <3> QED  BY <3>1, Least
  <2>2. k \in 0 .. Len(nodes) /\ ~ (Ancestors[k] \subseteq 1 .. k) /\ k \in Nat
    OBVIOUS
  <2>3. Ancestors[k] = IF k = 0 THEN {} ELSE {k} \cup Ancestors[nodes[k].parent]
    BY <2>2, AncestorsAre
  <2>4. CASE k # 0
    <3> DEFINE q == nodes[k].parent
    <3>1. q \in 0 .. Len(nodes) /\ q < k
      BY <2>2, <2>4, TreeTyped
    <3>2. q \notin Bad
      <4> HIDE DEF Bad, q
      <4> QED  BY <2>1, <2>2, <3>1
    <3>3. Ancestors[q] \subseteq 1 .. q
      BY <3>1, <3>2
    <3> HIDE DEF Bad, q
    <3>4. \A z \in 1 .. q : z \in 1 .. k
      BY <2>2, <3>1
    <3>5. k \in 1 .. k
      BY <2>2, <2>4
    <3> QED  BY <2>2, <2>3, <2>4, <3>3, <3>4, <3>5 DEF q
  <2> QED  BY <2>2, <2>3, <2>4
<1>2. id # 0 => id \in Ancestors[id]
  BY AncestorsAre
<1> QED  BY <1>1, <1>2

\* The ancestors of a node stay as they are while the mapping grows.
LEMMA AncestorsStay ==
  ASSUME Tree, Tree', Grows, NEW id \in 0 .. Len(nodes)
  PROVE  Ancestors'[id] = Ancestors[id]
<1> DEFINE Bad == {k \in 0 .. Len(nodes) : Ancestors'[k] # Ancestors[k]}
<1>1. Bad = {}
  <2> SUFFICES ASSUME Bad # {} PROVE FALSE
    OBVIOUS
  <2>1. PICK k \in Bad : \A z \in Bad : k <= z
    <3>1. Bad \in SUBSET Nat
      OBVIOUS
    <3> HIDE DEF Bad
    <3> QED  BY <3>1, Least
  <2>2. k \in 0 .. Len(nodes) /\ Ancestors'[k] # Ancestors[k] /\ k \in Nat
    OBVIOUS
  <2>3. Ancestors[k] = IF k = 0 THEN {} ELSE {k} \cup Ancestors[nodes[k].parent]
    BY <2>2, AncestorsAre
  <2>4. Len(nodes) \in Nat /\ Len(nodes') \in Nat /\ Len(nodes) <= Len(nodes')
    BY TreeTyped DEF Grows
  <2>5. Ancestors'[k] = IF k = 0 THEN {} ELSE {k} \cup Ancestors'[nodes'[k].parent]
    <3>1. k \in 0 .. Len(nodes')
      BY <2>2, <2>4
    <3> QED  BY <3>1, AncestorsNext DEF AncestorsKnown
  <2>6. k # 0 => nodes'[k].parent = nodes[k].parent /\ nodes[k].parent \in 0 .. Len(nodes)
                 /\ nodes[k].parent < k
    BY <2>2, TreeTyped DEF Grows
  <2>7. k # 0 => nodes[k].parent \notin Bad
    <3> HIDE DEF Bad
    <3> QED  BY <2>1, <2>2, <2>6
  <2> QED  BY <2>2, <2>3, <2>5, <2>6, <2>7
<1> QED  BY <1>1

\* A conversation is completed when its current message is.
LEMMA Completed ==
  ASSUME Status = "completed"
  PROVE  nodes[current].kind = "final"
<1>1. CASE PendingApproval # 0
  <2>1. nodes[current].kind = "card"
    BY <1>1 DEF PendingApproval
  <2>2. Status = "awaiting_tool_approval"
    BY <1>1, <2>1 DEF Status
  <2> QED  BY <2>2
<1>2. CASE PendingApproval = 0 /\ nodes[current].kind # "final"
  BY <1>2 DEF Status
<1> QED  BY <1>1, <1>2

-----------------------------------------------------------------------------
(* What the calls answer *)

\* The calls keep what they know while the mapping grows.
LEMMA AnswerKept ==
  ASSUME AnswerInv, Tree', Grows, NEW d \in Callers, call'[d] = call[d]
  PROVE  AnswerOK(d)'
<1>1. Tree /\ AnswerOK(d) /\ Ids \subseteq Ids'
  BY IdsGrow DEF AnswerInv, Tree
<1>2. \A id \in Ids : nodes[id].kind \in {"card", "final"} => nodes'[id].kind = nodes[id].kind
  BY DEF Grows
<1>3. \A id \in Ids : Ancestors'[id] = Ancestors[id]
  BY <1>1, TreeTyped, AncestorsStay
<1> QED  BY <1>1, <1>2, <1>3 DEF AnswerOK, At

\* A step of one call keeps the answers of the others.
LEMMA AnswerStep ==
  ASSUME AnswerInv, Tree', Grows, NEW c \in Callers, AnswerOK(c)',
         DOMAIN call' = Callers, \A d \in Callers \ {c} : call'[d] = call[d]
  PROVE  AnswerInv'
BY AnswerKept DEF AnswerInv

\* What the invariant says of one call.
LEMMA AnswerKnown ==
  ASSUME AnswerInv, NEW c \in Callers
  PROVE  /\ AnswerOK(c) /\ IsCall(call[c]) /\ DOMAIN call = Callers /\ Tree
         /\ plan[c].op \in {"approve", "wait", "auto", "until"}
<1>1. plan \in [Callers -> Calls]
  BY ApprovalsAssumption DEF AnswerInv, Tree
<1> QED  BY <1>1 DEF AnswerInv, AnswerOK, Calls

\* The mapping stays, and one call goes on.
LEMMA AnswerQuiet ==
  ASSUME AnswerInv, NEW c \in Callers, NEW new, Become(c, new), UNCHANGED <<nodes, current, plan>>,
         late' \subseteq Callers \X Ids,
         call'[c] = new => AnswerOK(c)'
  PROVE  AnswerInv'
<1>1. DOMAIN call = Callers /\ Tree
  BY AnswerKnown
<1>2. /\ DOMAIN call' = Callers /\ \A d \in Callers \ {c} : call'[d] = call[d]
      /\ call'[c] = new
  BY <1>1, Became
<1>3. Grows /\ Tree'
  BY <1>1, Unchanged DEF Tree, Ids
<1> QED  BY <1>2, <1>3, AnswerStep

\* A call that has no answer yet goes on to a place where no card is in its hands.
LEMMA AnswerGoes ==
  ASSUME AnswerInv, NEW c \in Callers, call[c].pc # "done", NEW new, Become(c, new), IsCall(new),
         new.pc \notin {"prepare", "stream", "poll", "message"},
         new.result \notin {"answer", "completed"} \/ new.result = call[c].result,
         UNCHANGED <<nodes, current, plan, late>>
  PROVE  AnswerInv'
<1>1. AnswerOK(c) /\ late' \subseteq Callers \X Ids
  BY AnswerKnown DEF Tree
<1>2. new.result \notin {"answer", "completed"}
  BY <1>1 DEF AnswerOK
<1>3. call'[c] = new => AnswerOK(c)'
  BY <1>2 DEF AnswerOK, At
<1> QED  BY <1>1, <1>3, AnswerQuiet

\* A call that returns or raises without an answer.
LEMMA AnswerEnds ==
  ASSUME AnswerInv, NEW c \in Callers, NEW result, NEW seen,
         result \notin {"answer", "completed"}, call[c].pc # "done",
         Finish(c, result, seen) \/ (EndApproval(c, result, seen) /\ UNCHANGED server)
  PROVE  AnswerInv'
<1>1. /\ Become(c, [call[c] EXCEPT !.pc = "done", !.result = result, !.seen = seen])
      /\ UNCHANGED <<nodes, current, plan, late>>
  BY DEF Finish, EndApproval, LeaveApproval, server
<1>2. IsCall(call[c]) /\ DOMAIN call = Callers
  BY AnswerKnown
<1>3. call'[c] = [call[c] EXCEPT !.pc = "done", !.result = result, !.seen = seen]
  BY <1>1, <1>2, Became
<1>4. IsCall(call'[c]) /\ call'[c].pc = "done" /\ call'[c].result = result
  BY <1>2, <1>3 DEF IsCall, PCs
<1>5. Become(c, call'[c])
  BY <1>1, <1>3
<1> QED  BY <1>1, <1>4, <1>5, AnswerGoes

\* A call that goes to another place without an answer and without a card.
LEMMA AnswerPlaces ==
  ASSUME AnswerInv, NEW c \in Callers, call[c].pc # "done",
         NEW pc \in {"send", "enter", "look", "idle", "fence", "read", "find", "status", "approval"},
         NEW x,
         \/ Become(c, [call[c] EXCEPT !.pc = pc])
         \/ Become(c, [call[c] EXCEPT !.pc = pc, !.policy = x])
         \/ Become(c, [call[c] EXCEPT !.pc = pc, !.waiter = x])
         \/ Become(c, [call[c] EXCEPT !.pc = pc, !.finder = x])
         \/ Become(c, [call[c] EXCEPT !.pc = pc, !.seen = x])
         \/ Become(c, [call[c] EXCEPT !.pc = pc, !.round = @ + 1]),
         UNCHANGED <<nodes, current, plan, late>>
  PROVE  AnswerInv'
<1>1. IsCall(call[c]) /\ DOMAIN call = Callers
  BY AnswerKnown
<1>2. \/ call'[c] = [call[c] EXCEPT !.pc = pc]
      \/ call'[c] = [call[c] EXCEPT !.pc = pc, !.policy = x]
      \/ call'[c] = [call[c] EXCEPT !.pc = pc, !.waiter = x]
      \/ call'[c] = [call[c] EXCEPT !.pc = pc, !.finder = x]
      \/ call'[c] = [call[c] EXCEPT !.pc = pc, !.seen = x]
      \/ call'[c] = [call[c] EXCEPT !.pc = pc, !.round = @ + 1]
  BY <1>1, Became
<1>3. IsCall(call'[c]) /\ call'[c].pc = pc /\ call'[c].result = call[c].result
  <2>1. pc \in PCs
    BY DEF PCs
  <2>2. PICK r, s : r = call[c] /\ s = call'[c]
    OBVIOUS
  <2>3. \/ s = [r EXCEPT !.pc = pc]
        \/ s = [r EXCEPT !.pc = pc, !.policy = x]
        \/ s = [r EXCEPT !.pc = pc, !.waiter = x]
        \/ s = [r EXCEPT !.pc = pc, !.finder = x]
        \/ s = [r EXCEPT !.pc = pc, !.seen = x]
        \/ s = [r EXCEPT !.pc = pc, !.round = @ + 1]
    BY ONLY <1>2, <2>2
  <2>4. IsCall(r)
    BY ONLY <1>1, <2>2
  <2>5. IsCall(s) /\ s.pc = pc /\ s.result = r.result
    BY ONLY <2>1, <2>3, <2>4 DEF IsCall
  <2> QED  BY <2>2, <2>5
<1>5. Become(c, call'[c])
  BY <1>1, <1>2, Became
<1> QED  BY <1>3, <1>5, AnswerGoes

\* A call begins without an answer.
LEMMA AnswerStart ==
  ASSUME AnswerInv, NEW c \in Callers, Start(c)
  PROVE  AnswerInv'
<1>1. /\ call[c].pc = "start" /\ plan[c].op \in {"approve", "wait", "auto", "until"}
      /\ UNCHANGED <<nodes, current, plan, late>>
  BY AnswerKnown DEF Start, At, server
<1>2. CASE plan[c].op = "approve"
  BY <1>1, <1>2, AnswerPlaces DEF Start
<1>3. CASE plan[c].op = "auto"
  BY <1>1, <1>3, AnswerPlaces DEF Start
<1>4. CASE plan[c].op = "wait"
  BY <1>1, <1>4, AnswerPlaces DEF Start, Go
<1>5. CASE plan[c].op = "until"
  BY <1>1, <1>5, AnswerPlaces DEF Start, Go
<1> QED  BY <1>1, <1>2, <1>3, <1>4, <1>5

\* The loop, the discovery of a new chat, and the steps of wait_until_completed that
\* find no message.
LEMMA AnswerWaits ==
  ASSUME AnswerInv, NEW c \in Callers,
         SendFails(c) \/ Discover(c) \/ Enter(c) \/ Look(c) \/ Idle(c) \/ ReadFails(c)
           \/ StatusTimesOut(c) \/ ReadApproval(c) \/ EnterApproval(c) \/ ApprovalFails(c)
           \/ PollTimesOut(c)
  PROVE  AnswerInv'
<1>1. ASSUME NEW result \in {"error", "elsewhere", "type_error", "denied", "rounds", "idle",
                             "wait_timeout", "approval", "poll_timeout"}, NEW seen,
             call[c].pc # "done",
             Finish(c, result, seen) \/ (EndApproval(c, result, seen) /\ UNCHANGED server)
      PROVE  AnswerInv'
  BY <1>1, AnswerEnds
<1>2. CASE SendFails(c) \/ ReadFails(c) \/ StatusTimesOut(c) \/ ReadApproval(c)
             \/ ApprovalFails(c) \/ PollTimesOut(c)
  BY <1>1, <1>2 DEF SendFails, ReadFails, StatusTimesOut, ReadApproval, ApprovalFails,
     PollTimesOut, At
<1>3. CASE Discover(c)
  BY <1>1, <1>3, AnswerPlaces DEF Discover, Go, At, server
<1>4. CASE Enter(c)
  BY <1>1, <1>4, AnswerPlaces DEF Enter, At, server
<1>5. CASE Look(c)
  BY <1>1, <1>5, AnswerPlaces DEF Look, At, server
<1>6. CASE Idle(c)
  BY <1>1, <1>6, AnswerPlaces DEF Idle, Go, At, server
<1>7. CASE EnterApproval(c)
  BY <1>7, AnswerPlaces DEF EnterApproval, At, server
<1> QED  BY <1>2, <1>3, <1>4, <1>5, <1>6, <1>7

\* A call takes the card it found, or the message it was told of.
LEMMA AnswerTakes ==
  ASSUME AnswerInv, NEW c \in Callers, call[c].pc # "done", NEW card \in Ids,
         NEW pc \in {"prepare", "message"},
         Become(c, [call[c] EXCEPT !.pc = pc, !.card = card]),
         \/ pc = "prepare" /\ nodes[card].kind = "card"
         \/ pc = "message" /\ nodes[card].kind = "final",
         UNCHANGED <<nodes, current, plan, late>>
  PROVE  AnswerInv'
<1>1. /\ AnswerOK(c) /\ IsCall(call[c]) /\ late' \subseteq Callers \X Ids
      /\ DOMAIN call = Callers
  BY AnswerKnown DEF Tree
<1>2. call'[c] = [call[c] EXCEPT !.pc = pc, !.card = card]
  BY <1>1, Became
<1>3. IsCall(call'[c]) /\ call'[c].pc = pc /\ call'[c].card = card
  BY <1>1, <1>2 DEF IsCall, PCs
<1>4. call'[c].result \notin {"answer", "completed"}
  BY <1>1, <1>2 DEF IsCall, AnswerOK
<1>5. Become(c, call'[c])
  BY <1>1, <1>2, Became
<1>6. AnswerOK(c)'
  BY <1>3, <1>4 DEF AnswerOK, At, Ids
<1> QED  BY <1>1, <1>5, <1>6, AnswerQuiet

\* Reading finds a card nobody has answered, or a message that is complete.
LEMMA AnswerReads ==
  ASSUME AnswerInv, NEW c \in Callers, Read(c) \/ ReadStatus(c)
  PROVE  AnswerInv'
<1>1. Len(nodes) \in Nat /\ current \in Ids
  BY AnswerKnown, TreeTyped
<1>2. CASE Read(c)
  <2>1. call[c].pc = "read"
    BY <1>2 DEF Read, At
  <2>2. CASE \E result \in {"denied", "error"} :
               EndApproval(c, result, Nothing) /\ UNCHANGED server
    BY <2>1, <2>2, AnswerEnds
  <2>3. CASE /\ ConfirmActionLeaf # 0
             /\ Become(c, [call[c] EXCEPT !.pc = "prepare", !.card = ConfirmActionLeaf])
             /\ UNCHANGED <<server, plan>>
    <3>1. PICK card : card = ConfirmActionLeaf
      OBVIOUS
    <3>2. card \in Ids /\ nodes[card].kind = "card"
      BY <1>1, <2>3, <3>1, FoundLeaf
    <3> QED  BY <2>1, <2>3, <3>1, <3>2, AnswerTakes DEF server
  <2> QED  BY <1>2, <2>2, <2>3 DEF Read
<1>3. CASE ReadStatus(c)
  <2>1. call[c].pc = "status" /\ UNCHANGED <<nodes, current, plan, late>>
    BY <1>3 DEF ReadStatus, At, server
  <2>2. CASE Go(c, "approval")
    BY <2>1, <2>2, AnswerPlaces DEF Go
  <2>3. CASE /\ Status = "completed"
             /\ Become(c, [call[c] EXCEPT !.pc = "message", !.card = current])
    <3>1. PICK card : card = current
      OBVIOUS
    <3>2. nodes[current].kind = "final"
      BY <2>3, Completed
    <3> QED  BY <1>1, <2>1, <2>3, <3>1, <3>2, AnswerTakes
  <2> QED  BY <1>3, <2>2, <2>3 DEF ReadStatus
<1> QED  BY <1>2, <1>3

\* A message that follows a node of the mapping keeps its order.
LEMMA TreeGrows ==
  ASSUME Tree, NEW x \in NodeRecords, x.parent <= Len(nodes), nodes' = Append(nodes, x),
         current' = Len(nodes) + 1, late' \subseteq Callers \X Ids, plan' = plan
  PROVE  Tree' /\ Grows
<1>1. /\ Grows /\ Len(nodes) \in Nat /\ Ids' = Ids \cup {Len(nodes) + 1}
      /\ \A n \in Ids : nodes'[n] = nodes[n] /\ nodes[n].parent < n
      /\ nodes'[Len(nodes) + 1] = x
  BY Appended DEF Tree
<1>2. \A n \in Ids' : nodes'[n].parent < n
  <2>1. x.parent < Len(nodes) + 1
    BY <1>1 DEF NodeRecords
  <2> QED  BY <1>1, <2>1
<1> QED  BY <1>1, <1>2 DEF Tree, Grows

\* Sending the prompt answers nothing.
LEMMA AnswerSends ==
  ASSUME AnswerInv, NEW c \in Callers, Send(c)
  PROVE  AnswerInv'
<1>1. /\ AnswerOK(c) /\ IsCall(call[c]) /\ DOMAIN call = Callers /\ Tree /\ call[c].pc = "send"
      /\ Len(nodes) \in Nat /\ current \in Nat /\ current <= Len(nodes)
  BY AnswerKnown, TreeTyped DEF Send, At
<1>2. PICK pc \in {"enter", "find"} : Become(c, [call[c] EXCEPT !.pc = pc])
  BY DEF Send, Go
<1>3. /\ DOMAIN call' = Callers /\ \A d \in Callers \ {c} : call'[d] = call[d]
      /\ call'[c] = [call[c] EXCEPT !.pc = pc]
  BY <1>1, <1>2, Became
<1>4. IsCall(call'[c]) /\ call'[c].pc = pc /\ call'[c].result = call[c].result
  BY <1>1, <1>3 DEF IsCall, PCs
<1>5. AnswerOK(c)'
  BY <1>1, <1>4 DEF AnswerOK, At
<1> DEFINE x == Message("user", current)
<1>6. x \in NodeRecords /\ x.parent = current
  BY <1>1 DEF Message, Node, NodeRecords, Kinds
<1>7. Tree' /\ Grows
  <2>1. nodes' = Append(nodes, x) /\ current' = Len(nodes) + 1 /\ late' = late /\ plan' = plan
    BY DEF Send
  <2>2. late' \subseteq Callers \X Ids
    BY <1>1, <2>1 DEF Tree
  <2> HIDE DEF x
  <2> QED  BY <1>1, <1>6, <2>1, <2>2, TreeGrows
<1> QED  BY <1>3, <1>5, <1>7, AnswerStep

\* A call keeps its card while it approves it.
LEMMA AnswerApproves ==
  ASSUME AnswerInv, NEW c \in Callers, Prepare(c) \/ Stream(c) \/ StreamBreaks(c)
  PROVE  AnswerInv'
<1>1. /\ AnswerOK(c) /\ IsCall(call[c]) /\ DOMAIN call = Callers /\ Tree
      /\ call[c].pc \in {"prepare", "stream"}
      /\ Len(nodes) \in Nat /\ late \subseteq Callers \X Ids
  BY AnswerKnown, TreeTyped DEF Prepare, Stream, StreamBreaks, At, Tree
<1>2. /\ call[c].card \in Ids /\ nodes[call[c].card].kind = "card"
      /\ call[c].result \notin {"answer", "completed"}
      /\ call[c].card \in Nat /\ call[c].card <= Len(nodes)
  BY <1>1 DEF AnswerOK, Ids
<1>3. CASE StreamBreaks(c)
  <2>1. /\ Become(c, [call[c] EXCEPT !.pc = "done", !.result = "error", !.seen = Nothing])
        /\ late' = late \cup {<<c, call[c].card>>} /\ UNCHANGED <<nodes, current, plan>>
    BY <1>3 DEF StreamBreaks, EndApproval, LeaveApproval
  <2>2. call'[c] = [call[c] EXCEPT !.pc = "done", !.result = "error", !.seen = Nothing]
    BY <1>1, <2>1, Became
  <2>3. IsCall(call'[c]) /\ call'[c].pc = "done" /\ call'[c].result = "error"
    BY <1>1, <2>2 DEF IsCall, PCs
  <2>4. AnswerOK(c)'
    BY <2>3 DEF AnswerOK, At
  <2>5. late' \subseteq Callers \X Ids
    BY <1>1, <1>2, <2>1
  <2> QED  BY <2>1, <2>4, <2>5, AnswerQuiet
<1>4. CASE Prepare(c) \/ Stream(c)
  <2>1. PICK pc \in {"stream", "poll"} : Become(c, [call[c] EXCEPT !.pc = pc])
    BY <1>4 DEF Prepare, Stream, Go
  <2>2. /\ DOMAIN call' = Callers /\ \A d \in Callers \ {c} : call'[d] = call[d]
        /\ call'[c] = [call[c] EXCEPT !.pc = pc]
    BY <1>1, <2>1, Became
  <2>3. IsCall(call'[c]) /\ call'[c].pc = pc
    BY <1>1, <2>2 DEF IsCall, PCs
  <2>4. call'[c].result = call[c].result /\ call'[c].card = call[c].card
    BY <1>1, <2>2 DEF IsCall
  <2>5. Tree' /\ Grows
    <3>1. CASE Prepare(c)
      BY <1>1, <3>1, Unchanged DEF Prepare, server, Tree, Ids
    <3>2. CASE Stream(c)
      <4> DEFINE x == AllowMessage("allow", c, call[c].card)
      <4>1. /\ nodes' = Append(nodes, x) /\ current' = Len(nodes) + 1
            /\ late' \subseteq Callers \X Ids /\ plan' = plan
        BY <1>1, <3>2 DEF Stream
      <4>2. x \in NodeRecords /\ x.parent <= Len(nodes)
        BY <1>2 DEF AllowMessage, Node, NodeRecords, Kinds
      <4> HIDE DEF x
      <4> QED  BY <1>1, <4>1, <4>2, TreeGrows
    <3> QED  BY <1>4, <3>1, <3>2
  <2>6. call[c].card \in Ids' /\ nodes'[call[c].card].kind = "card"
    <3>1. Ids \subseteq Ids'
      BY <1>1, <2>5, IdsGrow DEF Tree
    <3> QED  BY <1>2, <2>5, <3>1 DEF Grows
  <2>7. AnswerOK(c)'
    BY <1>2, <2>3, <2>4, <2>6 DEF AnswerOK, At
  <2> QED  BY <2>2, <2>5, <2>7, AnswerStep
<1> QED  BY <1>3, <1>4

\* On a completed branch with the card, the answer is the current message.
LEMMA AnswerIsCurrent ==
  ASSUME Tree, NEW card \in Ids, nodes[card].kind = "card", Status = "completed",
         NEW seen, seen = See(BranchResponse(card), card), ~ seen.strayed
  PROVE  seen.whole /\ seen.msg \in Ids /\ card \in Ancestors[seen.msg]
<1>1. /\ Len(nodes) \in Nat /\ Ids = 1 .. Len(nodes) /\ current \in Ids
      /\ nodes[current].kind = "final"
  BY TreeTyped, Completed
<1>2. Branch(current) = Ancestors[current]
  BY <1>1 DEF Ancestors
<1>3. card \in Branch(current) /\ card # 0
  <2>1. seen.strayed = (card # 0 /\ card \notin Branch(current))
    BY DEF See
  <2>2. card # 0
    BY <1>1
  <2> QED  BY <2>1, <2>2
<1>4. Branch(current) \subseteq 1 .. current /\ current \in Branch(current)
  BY <1>1, <1>2, AncestorsUpTo
<1> DEFINE after == {n \in Branch(current) : n > card}
<1>5. current \in after /\ after \subseteq 1 .. current
  BY <1>1, <1>3, <1>4
<1>6. Latest(Assistants(after)) = current
  <2> DEFINE S == Assistants(after)
  <2>1. current \in S /\ S \subseteq 1 .. current
    BY <1>1, <1>5 DEF Assistants
  <2> HIDE DEF S
  <2>2. S \in SUBSET (0 .. current) /\ current \in Nat /\ S # {}
    BY <1>1, <2>1
  <2>3. Max(S) \in S /\ current <= Max(S)
    BY <2>1, <2>2, Greatest
  <2>4. Max(S) = current
    BY <1>1, <2>1, <2>3
  <2> QED  BY <2>2, <2>4 DEF Latest, S
<1>7. BranchResponse(card) = current
  <2>1. after # {}
    BY <1>5
  <2> QED  BY <1>3, <1>6, <2>1 DEF BranchResponse
<1>8. seen.msg = current /\ seen.whole
  <2>1. /\ seen.msg = BranchResponse(card)
        /\ seen.whole = (BranchResponse(card) # 0 /\ nodes[BranchResponse(card)].kind = "final")
    BY DEF See
  <2>2. current # 0
    BY <1>1
  <2> QED  BY <1>1, <1>7, <2>1, <2>2
<1> QED  BY <1>1, <1>2, <1>3, <1>8

\* The poll ends with the answer, and its call returns or looks for the next card.
LEMMA AnswerPolls ==
  ASSUME AnswerInv, NEW c \in Callers, Poll(c)
  PROVE  AnswerInv'
<1>1. /\ AnswerOK(c) /\ IsCall(call[c]) /\ DOMAIN call = Callers /\ Tree /\ call[c].pc = "poll"
      /\ Status = "completed" /\ late \subseteq Callers \X Ids
  BY AnswerKnown DEF Poll, At, Tree
<1>2. PICK card : card = call[c].card
  OBVIOUS
<1>3. /\ card \in Ids /\ nodes[card].kind = "card"
      /\ call[c].result \notin {"answer", "completed"}
  BY <1>1, <1>2 DEF AnswerOK
<1>4. PICK seen : seen = See(BranchResponse(card), card)
  OBVIOUS
<1>5. AfterApproval(c, seen)
  BY <1>2, <1>4 DEF Poll
<1>6. UNCHANGED <<nodes, current, late, plan>>
  BY <1>5 DEF AfterApproval, EndApproval, LeaveApproval, server
<1>7. CASE Become(c, [call[c] EXCEPT !.pc = "look", !.seen = seen])
  BY <1>1, <1>6, <1>7, AnswerPlaces
<1>8. CASE Become(c, [call[c] EXCEPT !.pc = "done", !.result = "answer", !.seen = seen])
  <2>1. call'[c] = [call[c] EXCEPT !.pc = "done", !.result = "answer", !.seen = seen]
    BY <1>1, <1>8, Became
  <2>2. IsCall(call'[c]) /\ call'[c].pc = "done" /\ call'[c].result = "answer"
    BY <1>1, <2>1 DEF IsCall, PCs
  <2>3. call'[c].seen = seen /\ call'[c].card = card
    BY <1>1, <1>2, <2>1 DEF IsCall
  <2>4. ~ seen.strayed => seen.whole /\ seen.msg \in Ids /\ card \in Ancestors[seen.msg]
    BY <1>1, <1>3, <1>4, AnswerIsCurrent
  <2>5. Ids' = Ids /\ \A id \in Ids : Ancestors'[id] = Ancestors[id]
    <3>1. Grows /\ Tree'
      BY <1>1, <1>6, Unchanged DEF Tree, Ids
    <3> QED  BY <1>1, <1>6, <3>1, TreeTyped, AncestorsStay DEF Ids
  <2>6. AnswerOK(c)'
    BY <2>2, <2>3, <2>4, <2>5 DEF AnswerOK, At
  <2>7. late' \subseteq Callers \X Ids
    BY <1>1, <1>6
  <2> QED  BY <1>6, <1>8, <2>6, <2>7, AnswerQuiet
<1> QED  BY <1>5, <1>7, <1>8 DEF AfterApproval, EndApproval

\* wait_until_completed was told of a complete message, and answers with that one
\* while it is on the current branch.
LEMMA AnswerCompletes ==
  ASSUME AnswerInv, NEW c \in Callers, ReadMessage(c)
  PROVE  AnswerInv'
<1>1. /\ AnswerOK(c) /\ IsCall(call[c]) /\ DOMAIN call = Callers /\ Tree /\ call[c].pc = "message"
      /\ late \subseteq Callers \X Ids /\ Len(nodes) \in Nat
  BY AnswerKnown, TreeTyped DEF ReadMessage, At, Tree
<1>2. PICK card : card = call[c].card
  OBVIOUS
<1>3. card \in Ids /\ nodes[card].kind = "final" /\ card \in Nat /\ card # 0
  BY <1>1, <1>2 DEF AnswerOK, At, Ids
<1> DEFINE mine == {card} \cap Branch(current)
           id == Latest(IF mine # {} THEN mine ELSE Assistants(Branch(current)))
<1>4. PICK seen : seen = See(id, card)
  OBVIOUS
<1>5. /\ Become(c, [call[c] EXCEPT !.pc = "done", !.result = "completed", !.seen = seen])
      /\ UNCHANGED <<nodes, current, late, plan>>
  BY <1>2, <1>4 DEF ReadMessage, Finish, server
<1>6. seen.whole \/ seen.strayed
  <2> SUFFICES ASSUME ~ seen.strayed PROVE seen.whole
    OBVIOUS
  <2>1. card \in Branch(current)
    BY <1>3, <1>4 DEF See
  <2>2. mine = {card}
    BY <2>1
  <2>3. id = card
    <3>1. {card} \in SUBSET (0 .. card) /\ {card} # {}
      BY <1>3
    <3>2. Max({card}) = card
      BY <1>3, <3>1, Greatest
    <3> QED  BY <2>2, <3>1, <3>2 DEF Latest
  <2> QED  BY <1>3, <1>4, <2>3 DEF See
<1>7. call'[c] = [call[c] EXCEPT !.pc = "done", !.result = "completed", !.seen = seen]
  BY <1>1, <1>5, Became
<1>8. IsCall(call'[c]) /\ call'[c].pc = "done" /\ call'[c].result = "completed"
  BY <1>1, <1>7 DEF IsCall, PCs
<1>9. call'[c].seen = seen
  BY <1>1, <1>7 DEF IsCall
<1>10. AnswerOK(c)'
  BY <1>6, <1>8, <1>9 DEF AnswerOK, At
<1>11. late' \subseteq Callers \X Ids
  BY <1>1, <1>5
<1> QED  BY <1>5, <1>10, <1>11, AnswerQuiet

\* The backend and the user change what is in the mapping, never its order.
LEMMA AnswerOutside ==
  ASSUME AnswerInv, Backend
  PROVE  AnswerInv'
<1>1. /\ UNCHANGED <<finder, waiter, lock, plan, call>> /\ Tree
      /\ nodes \in Seq(NodeRecords) /\ Len(nodes) \in Nat
      /\ current \in Ids /\ current \in Nat /\ current <= Len(nodes)
      /\ \A n \in Ids : /\ nodes[n] \in NodeRecords /\ nodes[n].parent \in Nat
                        /\ nodes[n].parent <= Len(nodes)
  BY TreeTyped DEF Backend, AnswerInv, Tree, Ids
<1>2. ASSUME Tree', Grows PROVE AnswerInv'
  <2>1. DOMAIN call' = Callers /\ \A d \in Callers : call'[d] = call[d]
    BY <1>1 DEF AnswerInv
  <2> QED  BY <1>2, <2>1, AnswerKept DEF AnswerInv
<1>3. ASSUME NEW kind \in Kinds, NEW parent \in Nat, parent <= Len(nodes),
             NEW recipient \in Recipients \cup {NoRecipient}, NEW readOnly \in BOOLEAN,
             Extend(kind, parent, recipient, readOnly), late' = late
      PROVE  AnswerInv'
  <2> DEFINE x == Node(kind, parent, recipient, readOnly, NoCaller)
  <2>1. x \in NodeRecords /\ x.parent = parent
    BY <1>3 DEF Node, NodeRecords
  <2>2. nodes' = Append(nodes, x) /\ current' = Len(nodes) + 1
    BY <1>3 DEF Extend
  <2>3. late' \subseteq Callers \X Ids
    BY <1>1, <1>3 DEF Tree
  <2> HIDE DEF x
  <2>4. x.parent <= Len(nodes)
    BY <1>3, <2>1
  <2>5. Tree' /\ Grows
    BY <1>1, <2>1, <2>2, <2>3, <2>4, TreeGrows
  <2> QED  BY <1>2, <2>5
<1>4. CASE Answer \/ UserAnswers
  <2>1. PICK kind \in {"partial", "answer"} :
          Extend(kind, current, NoRecipient, FALSE) /\ late' = late
    BY <1>4 DEF Answer, UserAnswers
  <2>2. kind \in Kinds
    BY DEF Kinds
  <2> QED  BY <1>1, <1>3, <2>1, <2>2
<1>5. CASE CompleteMessage
  <2>1. UNCHANGED <<current, late>> /\ Grows /\ Len(nodes') = Len(nodes)
    BY <1>1, <1>5, Completes DEF CompleteMessage
  <2>2. Ids' = Ids /\ \A n \in Ids : nodes'[n].parent = nodes[n].parent
    BY <2>1 DEF Ids, Grows
  <2>3. Tree'
    BY <1>1, <2>1, <2>2 DEF Tree, Grows
  <2> QED  BY <1>2, <2>1, <2>3
<1>6. CASE PostCard
  <2>1. PICK k \in CardKinds : Extend("card", current, k[1], k[2]) /\ late' = late
    BY <1>6 DEF PostCard
  <2>2. k[1] \in Recipients /\ k[2] \in BOOLEAN /\ "card" \in Kinds
    BY ApprovalsAssumption DEF Kinds
  <2> QED  BY <1>1, <1>3, <2>1, <2>2
<1>7. CASE UserEdits
  <2>1. PICK n \in Ids : Extend("user", nodes[n].parent, NoRecipient, FALSE) /\ late' = late
    BY <1>7 DEF UserEdits
  <2>2. "user" \in Kinds
    BY DEF Kinds
  <2> QED  BY <1>1, <1>3, <2>1, <2>2
<1>8. CASE LateAllow
  <2>1. PICK w \in late :
          /\ late' = late \ {w}
          /\ \/ /\ nodes' = Append(nodes, AllowMessage("late", w[1], w[2]))
                /\ current' = Len(nodes) + 1
             \/ UNCHANGED <<nodes, current>>
    BY <1>8 DEF LateAllow
  <2>2. w[1] \in Callers /\ w[2] \in Ids /\ late' \subseteq Callers \X Ids
    BY <1>1, <2>1 DEF Tree
  <2>3. CASE UNCHANGED <<nodes, current>>
    <3>1. Grows /\ Tree'
      BY <1>1, <2>2, <2>3, Unchanged DEF Tree, Ids
    <3> QED  BY <1>2, <3>1
  <2>4. CASE /\ nodes' = Append(nodes, AllowMessage("late", w[1], w[2]))
             /\ current' = Len(nodes) + 1
    <3> DEFINE x == AllowMessage("late", w[1], w[2])
    <3>1. x \in NodeRecords /\ x.parent <= Len(nodes)
      <4>1. w[2] \in Nat /\ w[2] <= Len(nodes) /\ w[1] \in Callers
        BY <1>1, <2>2 DEF Ids
      <4> QED  BY <4>1 DEF AllowMessage, Node, NodeRecords, Kinds
    <3> HIDE DEF x
    <3>2. Tree' /\ Grows
      BY <1>1, <2>2, <2>4, <3>1, TreeGrows DEF x
    <3> QED  BY <1>2, <3>2
  <2> QED  BY <2>1, <2>3, <2>4
<1>9. CASE TaskEnds
  <2>1. Grows /\ Tree'
    BY <1>1, <1>9, Unchanged DEF TaskEnds, Tree, Ids
  <2> QED  BY <1>2, <2>1
<1> QED  BY <1>4, <1>5, <1>6, <1>7, <1>8, <1>9 DEF Backend

\* At first nothing is answered.
LEMMA AnswerInvHolds ==
  ASSUME Init
  PROVE  AnswerInv
<1>1. /\ nodes = <<Message("user", 0)>> /\ current = 1 /\ late = {} /\ plan \in Plans
      /\ call = [c \in Callers |-> Fresh]
  BY DEF Init
<1>2. Message("user", 0) \in NodeRecords /\ Message("user", 0).parent = 0
  BY DEF Message, Node, NodeRecords, Kinds
<1>3. nodes \in Seq(NodeRecords) /\ Len(nodes) = 1 /\ nodes[1].parent = 0
  BY <1>1, <1>2
<1>4. Ids = {1}
  BY <1>3 DEF Ids
<1>5. Tree
  BY <1>1, <1>3, <1>4 DEF Tree
<1>6. ASSUME NEW c \in Callers PROVE AnswerOK(c)
  <2>1. call[c] = Fresh
    BY <1>1
  <2> QED  BY <2>1 DEF AnswerOK, IsCall, PCs, Fresh, At
<1> QED  BY <1>1, <1>5, <1>6 DEF AnswerInv

\* Every step keeps what the calls answer right.
LEMMA AnswerInvKept ==
  ASSUME AnswerInv, [Next]_vars
  PROVE  AnswerInv'
<1>1. ASSUME NEW c \in Callers, Step(c) PROVE AnswerInv'
  BY <1>1, AnswerStart, AnswerSends, AnswerWaits, AnswerReads, AnswerApproves, AnswerPolls,
     AnswerCompletes DEF Step, Waiting, Approving
<1>2. CASE UNCHANGED vars
  <2>1. Grows /\ Tree' /\ DOMAIN call' = Callers /\ \A d \in Callers : call'[d] = call[d]
    BY <1>2, Unchanged DEF vars, AnswerInv, Tree, Ids
  <2> QED  BY <2>1, AnswerKept DEF AnswerInv
<1> QED  BY <1>1, <1>2, AnswerOutside DEF Next

\* An approval answers with a complete message that follows its card, and
\* wait_until_completed with a complete one, unless the user has left the branch:
\* whatever the calls are, fenced or not.
THEOREM AnswersFollowHolds == Spec => []AnswersFollow
<1>1. ASSUME AnswerInv PROVE AnswersFollow
  <2>1. \A c \in Callers : AnswerOK(c)
    BY <1>1 DEF AnswerInv
  <2>2. \A id \in Ids : Ancestors[id] = Branch(id)
    BY DEF Ancestors, Ids
  <2> QED  BY <2>1, <2>2 DEF AnswersFollow, AnswerOK
<1>2. Init => AnswerInv
  BY AnswerInvHolds
<1>3. AnswerInv /\ [Next]_vars => AnswerInv'
  BY AnswerInvKept
<1> QED  BY <1>1, <1>2, <1>3, PTL DEF Spec
=============================================================================
