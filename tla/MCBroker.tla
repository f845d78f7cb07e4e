------------------------------ MODULE MCBroker ------------------------------
(* Instances of Broker for TLC.  A workload says what clients ask for, and   *)
(* under which leases.                                                      *)
EXTENDS Broker, TLC

CONSTANTS l1, l2

Asks(o, ls) == [op : {o}, lease : ls]

\* Every operation under a lease and without one, and another client that
\* completes and disposes under its own.
TwoClients ==
  [op : Ops, lease : {l1, NoLease}]
    \union Asks("release_runtime_tab", {l2})
    \union Asks("canonical_read_complete", {l2})

\* The turns and reads of one lease.
OneLease == Asks("turn", {l1}) \union Asks("canonical_read", {l1})
=============================================================================
