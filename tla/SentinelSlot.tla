---------------------------- MODULE SentinelSlot ----------------------------
(***************************************************************************)
(* What the Sentinel bundle store promises (docs/sentinel_bundle_          *)
(* lifecycle.md): one slot that goes EMPTY -> AVAILABLE -> RESERVED and    *)
(* back, a bundle in it reserved by one user at a time, and a consumed     *)
(* bundle burned for good, whatever becomes of the write it was for.       *)
(***************************************************************************)
CONSTANTS
  Users,     \* whoever may reserve the slot
  Bundles,   \* the bundles that may be acquired
  NoUser,    \* the slot is not reserved
  NoBundle   \* the slot is empty

VARIABLES
  content,   \* the bundle in the slot
  holder,    \* the user it is reserved for
  burned     \* the bundles that were consumed or discarded

slotVars == <<content, holder, burned>>

Init ==
  /\ content = NoBundle
  /\ holder = NoUser
  /\ burned = {}

\* EMPTY -> AVAILABLE
Install(b) ==
  /\ content = NoBundle
  /\ b \notin burned
  /\ content' = b
  /\ UNCHANGED <<holder, burned>>

\* AVAILABLE -> RESERVED
Reserve(u) ==
  /\ content # NoBundle
  /\ holder = NoUser
  /\ holder' = u
  /\ UNCHANGED <<content, burned>>

\* RESERVED -> AVAILABLE
Release ==
  /\ holder # NoUser
  /\ holder' = NoUser
  /\ UNCHANGED <<content, burned>>

\* RESERVED -> EMPTY
Consume ==
  /\ holder # NoUser
  /\ content # NoBundle
  /\ burned' = burned \union {content}
  /\ content' = NoBundle
  /\ holder' = NoUser

\* An expired bundle is discarded before it can be reserved.
Discard ==
  /\ holder = NoUser
  /\ content # NoBundle
  /\ burned' = burned \union {content}
  /\ content' = NoBundle
  /\ UNCHANGED holder

Next ==
  \/ \E b \in Bundles : Install(b)
  \/ \E u \in Users : Reserve(u)
  \/ Release
  \/ Consume
  \/ Discard

Spec == Init /\ [][Next]_slotVars
=============================================================================
