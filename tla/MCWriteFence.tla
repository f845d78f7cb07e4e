---------------------------- MODULE MCWriteFence ----------------------------
(* Instances of WriteFence for TLC. *)
EXTENDS WriteFence
=============================================================================
