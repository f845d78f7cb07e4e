-------------------------- MODULE MCProductTransport ------------------------
(* Instances of ProductTransport for TLC. *)
EXTENDS ProductTransport, TLC
=============================================================================
