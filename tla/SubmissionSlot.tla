---------------------------- MODULE SubmissionSlot --------------------------
(***************************************************************************)
(* What the browser-owned product transport promises its callers: it has   *)
(* one slot.  A turn holds the slot from before its write until its answer *)
(* is final, also while a submission waits to be awaited, and no other     *)
(* turn begins meanwhile; a turn is written once.                          *)
(*                                                                         *)
(* "allows at most one pending or in-flight split submission per product   *)
(* transport instance" (browser_owned_submission_lifecycle.py)             *)
(***************************************************************************)
CONSTANTS
  Turns,   \* the writes
  NoTurn   \* the slot is free

VARIABLES
  slot,    \* the turn that holds the slot
  phase,   \* how far it is
  written  \* the turns that were issued authority to write

slotVars == <<slot, phase, written>>

Init ==
  /\ slot = NoTurn
  /\ phase = "free"
  /\ written = {}

Begin(t) ==
  /\ phase = "free"
  /\ slot' = t
  /\ phase' = "writing"
  /\ UNCHANGED written

\* Authority for the write is issued once.
Write ==
  /\ phase = "writing"
  /\ slot \notin written
  /\ written' = written \union {slot}
  /\ UNCHANGED <<slot, phase>>

Acknowledge ==
  /\ phase = "writing"
  /\ slot \in written
  /\ phase' = "pending"
  /\ UNCHANGED <<slot, written>>

Await ==
  /\ phase = "pending"
  /\ phase' = "reading"
  /\ UNCHANGED <<slot, written>>

Finish ==
  /\ phase \in {"writing", "reading"}
  /\ slot' = NoTurn
  /\ phase' = "free"
  /\ UNCHANGED written

Next == (\E t \in Turns : Begin(t)) \/ Write \/ Acknowledge \/ Await \/ Finish

Spec == Init /\ [][Next]_slotVars
=============================================================================
