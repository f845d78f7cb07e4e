---------------------------- MODULE MCApprovals ----------------------------
(* Two calls on one client in one conversation.  A policy that allows one *)
(* recipient, one that denies it and approves what only reads.            *)
EXTENDS Approvals, TLC

CONSTANTS t1, t2, shell, mail

Lenient == [allowed |-> {shell}, denied |-> {}, auto |-> FALSE, manual |-> TRUE]
Strict  == [allowed |-> {}, denied |-> {shell}, auto |-> TRUE, manual |-> FALSE]

MCCardKinds == {<<shell, FALSE>>, <<mail, TRUE>>}

MCPolicies == {Lenient, Strict}

Does(op, policy, rounds) == [op |-> op, policy |-> policy, rounds |-> rounds]

Two(first, second) == (t1 :> first) @@ (t2 :> second)

\* send_and_auto_approve has the client's loop to itself: on two threads the
\* wrappers it leaves on the client get in each other's way.
MCPlans ==
  {Two(Does("wait", Lenient, 0),  Does("approve", Strict, 0)),
   Two(Does("wait", Strict, 1),   Does("wait", NoPolicy, 0)),
   Two(Does("auto", Strict, 0),   Does("approve", NoPolicy, 0)),
   Two(Does("auto", NoPolicy, 0),  Does("until", NoPolicy, 0))}
============================================================================
