---------------------------- MODULE AuthorityLane ---------------------------
(***************************************************************************)
(* What the broker's authority lane promises, without its threads, timers  *)
(* and locks: one operation at a time, and a lane that stays retained for  *)
(* a lease between the operations of its readback.                         *)
(*                                                                         *)
(* "Browser writes, canonical reads, and runtime-tab disposal share one    *)
(* authority lane."  (browser_native_host.py)                              *)
(***************************************************************************)
CONSTANTS
  Requests,  \* identities of the operations
  Leases,    \* browser authority leases
  NoLease    \* an operation without a lease

VARIABLES
  held,      \* the operation that has the lane, as a set of at most one
  retained,  \* the lease the lane is retained for, as a set of at most one
  settling   \* a retained lane is being given up

laneVars == <<held, retained, settling>>

Operations == [request : Requests,
               op : {"turn", "canonical_read", "release_runtime_tab"},
               lease : Leases \union {NoLease}]

LeasedRead(h) == h.op = "canonical_read" /\ h.lease # NoLease

Init == held = {} /\ retained = {} /\ settling = FALSE

Take(h) ==
  /\ held = {} /\ retained = {} /\ ~settling
  /\ held' = {h}
  /\ UNCHANGED <<retained, settling>>

\* An accepted turn may, and a leased read must, leave the lane to its lease.
Retain(h) ==
  /\ held = {h}
  /\ h.op = "turn" \/ h.op = "canonical_read"
  /\ h.lease # NoLease
  /\ held' = {}
  /\ retained' = {h.lease}
  /\ UNCHANGED settling

\* Only a canonical read of the same lease takes a retained lane over.
Resume(h) ==
  /\ retained = {h.lease}
  /\ LeasedRead(h)
  /\ held' = {h}
  /\ retained' = {}
  /\ UNCHANGED settling

\* The readback is classified, its time is over, or the host closes.
Settle ==
  /\ retained # {}
  /\ retained' = {}
  /\ settling' = TRUE
  /\ UNCHANGED held

Free ==
  /\ \/ \E h \in held : held = {h} /\ ~LeasedRead(h)
     \/ settling
  /\ held' = {}
  /\ settling' = FALSE
  /\ UNCHANGED retained

Next ==
  \/ \E h \in Operations : Take(h) \/ Retain(h) \/ Resume(h)
  \/ Settle \/ Free

Spec == Init /\ [][Next]_laneVars
=============================================================================
