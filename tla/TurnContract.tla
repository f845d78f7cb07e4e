---------------------------- MODULE TurnContract ----------------------------
(***************************************************************************)
(* What a caller may rely on when a turn ends.  A turn writes at most      *)
(* once.  It is answered only after it has written; it is reported as not  *)
(* submitted only if it never wrote, so that sending it again is safe; in  *)
(* every other case the caller must reconcile before sending again.        *)
(***************************************************************************)
CONSTANTS Turns

VARIABLES
  written,   \* turns whose message may have reached the server
  report     \* what each turn's caller was told, "none" as long as it runs

vars == <<written, report>>

Init ==
  /\ written = {}
  /\ report = [t \in Turns |-> "none"]

Running(t) == report[t] = "none"

Write(t) ==
  /\ Running(t)
  /\ t \notin written
  /\ written' = written \cup {t}
  /\ UNCHANGED report

End(t, what) ==
  /\ Running(t)
  /\ report' = [report EXCEPT ![t] = what]
  /\ UNCHANGED written

Answer(t) == t \in written /\ End(t, "answered")
NotSubmitted(t) == t \notin written /\ End(t, "not_submitted")
Reconcile(t) == End(t, "reconcile")
Raw(t) == End(t, "raw")   \* an exception that says nothing of the write

Next ==
  \E t \in Turns : Write(t) \/ Answer(t) \/ NotSubmitted(t) \/ Reconcile(t) \/ Raw(t)

Spec == Init /\ [][Next]_vars
=============================================================================
