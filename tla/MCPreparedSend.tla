--------------------------- MODULE MCPreparedSend ---------------------------
(* Instances of PreparedSend for TLC. *)
EXTENDS PreparedSend, TLC
=============================================================================
