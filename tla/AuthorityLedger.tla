--------------------------- MODULE AuthorityLedger --------------------------
(***************************************************************************)
(* What the write runtime promises about browser authority, without its    *)
(* threads, locks, timers and messages: leases are issued one after the    *)
(* other, a lease is released at most once and only while it is the newest *)
(* one, and the runtime tab is closed only on the authority of a newest    *)
(* lease that has been released, with no lease issued meanwhile.           *)
(*                                                                         *)
(* "no tab disposal while browser authority is still required"             *)
(* (docs/browser_authority_lease_pr8_8.md, section 5)                      *)
(***************************************************************************)
CONSTANTS
  Turns,   \* the writes, one lease each
  NoTurn   \* no lease has been issued

VARIABLES
  newest,  \* the turn whose lease was issued last
  lease,   \* each turn's lease
  closing  \* the turn on whose lease the tab is being closed, at most one

ledgerVars == <<newest, lease, closing>>

Init ==
  /\ newest = NoTurn
  /\ lease = [t \in Turns |-> "none"]
  /\ closing = {}

Issue(t) ==
  /\ closing = {}
  /\ lease[t] = "none"
  /\ lease' = [lease EXCEPT ![t] = "ACTIVE"]
  /\ newest' = t
  /\ UNCHANGED closing

Release(t) ==
  /\ newest = t
  /\ lease[t] = "ACTIVE"
  /\ lease' = [lease EXCEPT ![t] = "RELEASED"]
  /\ UNCHANGED <<newest, closing>>

\* Authority whose release was never proven may never be used to close.
GiveUp(t) ==
  /\ lease[t] = "ACTIVE"
  /\ lease' = [lease EXCEPT ![t] = "RELEASE_UNKNOWN"]
  /\ UNCHANGED <<newest, closing>>

BeginClose(t) ==
  /\ closing = {}
  /\ newest = t
  /\ lease[t] = "RELEASED"
  /\ closing' = {t}
  /\ UNCHANGED <<newest, lease>>

EndClose ==
  /\ closing # {}
  /\ closing' = {}
  /\ UNCHANGED <<newest, lease>>

Next ==
  \/ \E t \in Turns : Issue(t) \/ Release(t) \/ GiveUp(t) \/ BeginClose(t)
  \/ EndClose

Spec == Init /\ [][Next]_ledgerVars
=============================================================================
