-------------------------- MODULE RevisionSafeText --------------------------
(***************************************************************************)
(* What the adapter makes of the provisional assistant text of one turn:   *)
(*                                                                         *)
(*   - RevisionSafeTextAccumulator rebuilds one message from snapshot,     *)
(*     delta and revision events and reconciles it with the canonical text *)
(*     read back afterwards (revision_safe_streaming_pr8_9.py);            *)
(*   - RevisionSafeTerminalRenderer prints it while it is provisional and  *)
(*     corrects it when it is not (standalone_send.py);                    *)
(*   - TemporaryFinalTextCollector keeps one text per message, because a   *)
(*     Temporary turn has no canonical text to reconcile with              *)
(*     (temporary_product_runtime_pr8_13.py).                              *)
(*                                                                         *)
(* A text is the sequence of the pieces the product wrote. An event is     *)
(*   [type, seq, msg, channel, body]: body is the whole text of a snapshot *)
(* or a revision and the added pieces of a delta.                          *)
(***************************************************************************)
EXTENDS Naturals, Sequences, SequencesExt, FiniteSets

CONSTANT None           \* no message, no channel

TextTypes == {"snapshot", "delta", "revision"}

\* A frame whose number does not follow the last one; the first frame that
\* arrives follows anything.
Gap(last, e) == last # 0 /\ e.seq # last + 1

----------------------------------------------------------------------------
(* RevisionSafeTextAccumulator *)

NewAccumulator ==
    [text |-> <<>>, msg |-> None, last |-> 0, count |-> 0, incomplete |-> FALSE]

\* Mutant of Apply: another message is taken for the same one.
ApplyAnyMessage(acc, e) ==
    IF e.seq <= acc.last THEN acc
    ELSE [text |-> IF e.type = "delta" THEN acc.text \o e.body ELSE e.body,
          msg |-> e.msg, last |-> e.seq, count |-> acc.count + 1,
          incomplete |-> acc.incomplete \/ (acc.last # 0 /\ e.seq # acc.last + 1)]

\* A frame that is not newer than the last one is ignored. A gap or another
\* message marks the delivery incomplete; the text is kept as one all the same.
Apply(acc, e) ==
    IF e.seq <= acc.last THEN acc
    ELSE [text |-> IF e.type = "delta" THEN acc.text \o e.body ELSE e.body,
          msg |-> e.msg,
          last |-> e.seq,
          count |-> acc.count + 1,
          incomplete |-> \/ acc.incomplete
                         \/ Gap(acc.last, e)
                         \/ acc.msg \notin {None, e.msg}]

Reconcile(acc, canonical) ==
    CASE acc.count = 0 -> "UNAVAILABLE"
      [] acc.count # 0 /\ acc.text = canonical -> "EXACT_MATCH"
      [] acc.count # 0 /\ acc.text # canonical /\ acc.incomplete
           -> "STREAM_INCOMPLETE"
      [] acc.count # 0 /\ acc.text # canonical /\ ~acc.incomplete
           -> IF IsPrefix(acc.text, canonical) THEN "CANONICAL_EXTENDS_STREAM"
              ELSE "STREAM_REVISED_BY_CANONICAL"

----------------------------------------------------------------------------
(* RevisionSafeTerminalRenderer: what was printed is a sequence of pieces, *)
(* of labels (the text starts again after one) and of activity lines.      *)

Label == <<"label">>
ActivityLine == <<"activity">>

NewRenderer(finalOnly) ==
    [finalOnly |-> finalOnly, acc |-> NewAccumulator, shown |-> <<>>,
     out |-> <<>>, activity |-> FALSE, suppressed |-> {}, active |-> None,
     finished |-> FALSE]

\* Mutant of Replace: what is longer is taken for an extension.
ReplaceByLength(r, text) ==
    [r EXCEPT !.shown = text,
              !.out = IF Len(text) >= Len(r.shown)
                      THEN @ \o SubSeq(text, Len(r.shown) + 1, Len(text))
                      ELSE Append(@, Label) \o text]

\* _replace: only what extends the text on the screen is printed after it.
Replace(r, text) ==
    [r EXCEPT !.shown = text,
              !.out = CASE text = r.shown -> @
                        [] text # r.shown /\ IsPrefix(r.shown, text)
                             -> @ \o SubSeq(text, Len(r.shown) + 1, Len(text))
                        [] ~IsPrefix(r.shown, text) -> Append(@, Label) \o text]

\* _render_activity: a final-only renderer only remembers that the product
\* worked; another one prints a line (consecutive lines are kept as one).
RenderActivity(r) ==
    IF r.finalOnly THEN [r EXCEPT !.activity = TRUE]
    ELSE IF r.out # <<>> /\ Last(r.out) = ActivityLine THEN r
    ELSE [r EXCEPT !.out = Append(@, ActivityLine)]

Suppress(r, msg) == [r EXCEPT !.suppressed = @ \cup {msg}]
Activate(r, msg) == [r EXCEPT !.active = msg]

\* _final_only_accepts: the renderer after the decision, and the decision.
FinalOnlyAccepts(r, e) ==
    CASE ~r.finalOnly -> [r |-> r, ok |-> TRUE]
      [] r.finalOnly /\ e.channel = "commentary"
           -> [r |-> Suppress(r, e.msg), ok |-> FALSE]
      [] r.finalOnly /\ e.channel = "final"
           -> [r |-> IF r.active = None THEN Activate(r, e.msg) ELSE r,
               ok |-> r.active \in {None, e.msg}]
      [] r.finalOnly /\ e.channel = None /\ r.active # None
           -> [r |-> r, ok |-> e.msg = r.active]
      [] r.finalOnly /\ e.channel = None /\ r.active = None /\ r.activity
           -> IF e.msg \notin r.suppressed
              THEN [r |-> Activate(r, e.msg), ok |-> TRUE]
              ELSE [r |-> r, ok |-> FALSE]
      [] r.finalOnly /\ e.channel = None /\ r.active = None /\ ~r.activity
           -> [r |-> Suppress(r, e.msg), ok |-> FALSE]

\* on_event for a text event.
Render(r, e) ==
    LET d == FinalOnlyAccepts(r, e)
        acc == Apply(d.r.acc, e)
    IN IF ~d.ok \/ e.seq <= d.r.acc.last THEN d.r
       ELSE Replace([d.r EXCEPT !.acc = acc], acc.text)

\* finish, and on_event for CANONICAL_TEXT_FINALIZED.
Finish(r, canonical) ==
    IF r.finished THEN r ELSE [Replace(r, canonical) EXCEPT !.finished = TRUE]

\* The text a reader of the terminal takes for the answer: what follows the
\* last label, without the activity lines. An item is printed after a text.
StandsAfter(text, item) ==
    CASE item = Label -> <<>>
      [] item = ActivityLine -> text
      [] item \notin {Label, ActivityLine} -> Append(text, item)

AnswerOnScreen(r) ==
    LET standing[n \in 0..Len(r.out)] ==
            IF n = 0 THEN <<>> ELSE StandsAfter(standing[n - 1], r.out[n])
    IN standing[Len(r.out)]

----------------------------------------------------------------------------
(* TemporaryFinalTextCollector *)

NewCollector ==
    [msgs |-> [m \in {} |-> None], order |-> <<>>, last |-> 0, count |-> 0,
     incomplete |-> FALSE]

Collect(col, e) ==
    LET known == e.msg \in DOMAIN col.msgs
        before == IF known THEN col.msgs[e.msg]
                  ELSE [channel |-> None, text |-> <<>>]
        after == [channel |-> IF e.channel = None THEN before.channel ELSE e.channel,
                  text |-> IF e.type = "delta" THEN before.text \o e.body
                           ELSE e.body]
    IN IF e.seq <= col.last THEN col
       ELSE [msgs |-> [m \in DOMAIN col.msgs \cup {e.msg} |->
                          IF m = e.msg THEN after ELSE col.msgs[m]],
             order |-> IF known THEN col.order ELSE Append(col.order, e.msg),
             last |-> e.seq,
             count |-> col.count + 1,
             incomplete |-> \/ col.incomplete
                            \/ Gap(col.last, e)
                            \/ /\ e.channel # None
                               /\ before.channel \notin {None, e.channel}]

\* final_message: the last message marked final that has text, or else the
\* last one that is not marked commentary.
FinalMessage(col) ==
    LET having(P(_)) == SelectSeq(col.order, LAMBDA m :
                            col.msgs[m].text # <<>> /\ P(col.msgs[m].channel))
        final == having(LAMBDA c : c = "final")
        visible == having(LAMBDA c : c # "commentary")
    IN CASE final # <<>> -> Last(final)
         [] final = <<>> /\ visible # <<>> -> Last(visible)
         [] final = <<>> /\ visible = <<>> -> None

\* run_once: the readback of a Temporary turn, or <<>> when it is refused.
TemporaryAnswer(col) ==
    IF col.incomplete \/ FinalMessage(col) = None THEN <<>>
    ELSE col.msgs[FinalMessage(col)].text
=============================================================================
