-------------------------- MODULE MCAuthentication --------------------------
(* Two processes with a thread each. *)
EXTENDS Authentication, TLC

CONSTANTS a1, a2, p1, p2

MCProcessOf == (a1 :> p1) @@ (a2 :> p2)

Saved(access, session, plain, chunk) ==
  [exists |-> TRUE, session |-> session,
   auth |-> [access |-> access, records |-> <<>>,
             jar |-> [plain |-> plain, chunk |-> chunk]]]

From(f, chunk, e) ==
  [file |-> f, profile |-> [plain |-> 0, chunk |-> chunk], env |-> e]

\* No file, a token alone, the session endpoint's answer, and cookies copied
\* from a browser, beside a profile that is empty or signed in.
MCStarts ==
  {From(NoFile, 1, TRUE), From(Saved(1, 0, 0, 0), 0, TRUE),
   From(Saved(1, 1, 0, 0), 1, FALSE), From(Saved(0, 0, 1, 0), 0, FALSE),
   From(Saved(1, 0, 0, 1), 0, FALSE)}

MCPlans ==
  {(a1 :> "auto") @@ (a2 :> "force"),     (a1 :> "refresh") @@ (a2 :> "login"),
   (a1 :> "client") @@ (a2 :> "refresh"), (a1 :> "auto") @@ (a2 :> "client")}
=============================================================================
