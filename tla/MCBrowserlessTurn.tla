-------------------------- MODULE MCBrowserlessTurn --------------------------
(* Instances of BrowserlessTurn for TLC. *)
EXTENDS BrowserlessTurn
=============================================================================
