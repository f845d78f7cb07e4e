------------------------------ MODULE StreamTurn ------------------------------
(***************************************************************************)
(* The event stream of one product turn, from the page that writes the     *)
(* answer to everything the adapter derives from it.                       *)
(*                                                                         *)
(* The product writes messages and the extension observes them: text       *)
(* events, numbered by one counter (service_worker_revision_safe_text_     *)
(* delivery_pr8_9.js), and normalized product events, numbered by another. *)
(* They travel to the host as frames. A frame may be lost, delivered twice *)
(* or overtaken, which the receivers are written for and which never fails *)
(* the turn. When the page has answered, the canonical message is read and *)
(* the provisional text and observations are reconciled with it.           *)
(***************************************************************************)
EXTENDS RevisionSafeText

CONSTANTS Messages,        \* the messages of the turn, in the order written
          FinalMsg,        \* the one that is the answer
          Plans,           \* the turns: [mark, menu, refs, finalOnly, events, pieces], the channel
                           \* each message is marked with, the product events, the
                           \* references of the canonical message, the renderer,
                           \* and the bounds on product events and text pieces
          MaxWire,         \* frames on their way at a time
          MaxFaults        \* frames lost, repeated or overtaken

P == INSTANCE ProductObservations

ASSUME StreamAssumption ==
    /\ FinalMsg \in Messages
    /\ None \notin Messages \cup {"commentary", "final"}
    /\ {MaxWire, MaxFaults} \subseteq Nat

\* What the extension sends of the product's work; an action has a type.
ProductEvent(e) ==
    \/ /\ e.kind = "activity"
       /\ e.phase \in {"started", "updated", "completed"} /\ e.private \in BOOLEAN
    \/ e.kind = "source" /\ e = [kind |-> "source", id |-> e.id, url |-> e.url]
    \/ e.kind = "citation"
       /\ e = [kind |-> "citation", source |-> e.source, range |-> e.range]
    \/ e.kind = "connector"
    \/ e.kind = "action" /\ e.type # None
    \/ e.kind = "surface" /\ e.controls \in BOOLEAN
    \/ e.kind = "artifact" /\ {e.shape, e.locator, e.malformed} \subseteq BOOLEAN

Sources(p) == {e \in p.menu : e.kind = "source"}

\* The extension has one source for an address, and its names are not those of the
\* canonical references (_pr93EnsureSource, ensure_source); the product does not mark
\* the answer itself as commentary.
ASSUME PlansAssumption == \A p \in Plans :
    /\ p.mark \in [Messages -> {"commentary", "final", None}]
    /\ p.mark[FinalMsg] # "commentary"
    /\ p.finalOnly \in BOOLEAN
    /\ Len(p.refs) \in Nat
    /\ \A e \in p.menu : ProductEvent(e)
    /\ \A s, t \in Sources(p) : s.id = t.id <=> s.url = t.url
    /\ \A s \in Sources(p) : \A n \in 1..Len(p.refs) : s.id # P!CanonicalId(p.refs[n][1])

VARIABLES
    phase,       \* "streaming", then "done"
    plan,        \* what the product does this turn
    server,      \* message -> its text now
    page,        \* what the extension observed and sent: the text of every message,
                 \* the number of the last text event, the texts as of each
                 \* number, the product events; and the pieces written so far
    wire,        \* frames on their way
    faults,
    acc,         \* RevisionSafeTextAccumulator of the turn
    ren,         \* RevisionSafeTerminalRenderer of the caller
    col,         \* TemporaryFinalTextCollector, were the turn a Temporary one
    gate,        \* the canonical observation gate of the turn
    obs,         \* the observation collector of the turn
    verdict      \* the reconciliation reported with the answer

streamVars == <<phase, plan, server, page, wire, faults, acc, ren, col, gate, obs,
          verdict>>

product == <<plan, server, page>>
receivers == <<acc, ren, col, gate, obs>>

StreamTypes ==
    /\ phase \in {"streaming", "done"}
    /\ plan \in Plans
    /\ DOMAIN server = Messages
    /\ page.seq \in 0..plan.pieces
    /\ faults \in 0..MaxFaults
    /\ acc.msg \in Messages \cup {None}
    /\ ren.active \in Messages \cup {None}
    /\ DOMAIN col.msgs \subseteq Messages
    /\ obs.dropped \in Nat
    /\ verdict \in {None, "UNAVAILABLE", "EXACT_MATCH", "STREAM_INCOMPLETE",
                    "CANONICAL_EXTENDS_STREAM", "STREAM_REVISED_BY_CANONICAL"}

StreamInit ==
    /\ phase = "streaming"
    /\ plan \in Plans
    /\ server = [m \in Messages |-> <<>>]
    /\ page = [text |-> [m \in Messages |-> <<>>], seq |-> 0, events |-> <<>>,
               log |-> <<>>, pieces |-> 0]
    /\ wire = <<>>
    /\ faults = 0
    /\ acc = NewAccumulator
    /\ ren = NewRenderer(plan.finalOnly)
    /\ col = NewCollector
    /\ gate = P!NewGate
    /\ obs = P!NewObservations
    /\ verdict = None

----------------------------------------------------------------------------
(* The product and the extension *)

\* The product writes another piece of a message, or writes the message anew.
Write(m) ==
    /\ phase = "streaming"
    /\ page.pieces < plan.pieces
    /\ LET piece == <<m, page.pieces>>
       IN \/ server' = [server EXCEPT ![m] = Append(@, piece)]
          \/ /\ server[m] # <<>>
             /\ server' = [server EXCEPT ![m] = <<piece>>]
    /\ page' = [page EXCEPT !.pieces = @ + 1]
    /\ UNCHANGED <<phase, plan, wire, faults, receivers, verdict>>

\* _pr89RecordAssistantWithDelivery: the extension sees a message whose text is
\* not the one it saw last, and sends what is new.
Observe(m) ==
    LET old == page.text[m]
        new == server[m]
        type == CASE old = <<>> -> "snapshot"
                  [] old # <<>> /\ IsPrefix(old, new) -> "delta"
                  [] ~IsPrefix(old, new) -> "revision"
        seen == [page.text EXCEPT ![m] = new]
        e == [kind |-> "text", type |-> type, seq |-> page.seq + 1, msg |-> m,
              channel |-> plan.mark[m],
              body |-> IF type = "delta" THEN SubSeq(new, Len(old) + 1, Len(new))
                       ELSE new]
    IN /\ phase = "streaming"
       /\ new # old
       /\ Len(wire) < MaxWire
       /\ page' = [page EXCEPT !.text = seen, !.seq = @ + 1, !.log = Append(@, seen)]
       /\ wire' = Append(wire, e)
       /\ UNCHANGED <<phase, plan, server, faults, receivers, verdict>>

\* An event of the product's work: of a tool, a source, a connector, an action.
\* A source and a citation are sent once, a citation after its source. (A range is a
\* place with its type; the page has one citation of a source there.)
Report(e) ==
    /\ phase = "streaming"
    /\ Len(page.events) < plan.events
    /\ Len(wire) < MaxWire
    /\ e.kind \in {"source", "citation"} => e \notin Range(page.events)
    /\ e.kind = "citation" =>
          \E n \in DOMAIN page.events : /\ page.events[n].kind = "source"
                                        /\ page.events[n].id = e.source
    /\ page' = [page EXCEPT !.events = Append(@, e)]
    /\ wire' = Append(wire, e)
    /\ UNCHANGED <<phase, plan, server, faults, receivers, verdict>>

----------------------------------------------------------------------------
(* The frames *)

Lose ==
    /\ wire # <<>>
    /\ faults < MaxFaults
    /\ wire' = Tail(wire)
    /\ faults' = faults + 1
    /\ UNCHANGED <<phase, product, receivers, verdict>>

\* A text frame arrives a second time after the next one, or after it only.
Overtake(repeat) ==
    /\ Len(wire) > 1
    /\ wire[1].kind = "text" /\ wire[2].kind = "text"
    /\ faults < MaxFaults
    /\ wire' = (IF repeat THEN <<wire[1], wire[2], wire[1]>> ELSE <<wire[2], wire[1]>>)
               \o SubSeq(wire, 3, Len(wire))
    /\ faults' = faults + 1
    /\ UNCHANGED <<phase, product, receivers, verdict>>

\* A frame reaches the turn's callback, and with it every receiver.
Deliver ==
    /\ wire # <<>>
    /\ wire' = Tail(wire)
    /\ LET e == Head(wire)
       IN IF e.kind = "text"
          THEN /\ acc' = Apply(acc, e)
               /\ ren' = Render(ren, e)
               /\ col' = Collect(col, e)
               /\ UNCHANGED <<gate, obs>>
          ELSE /\ gate' = P!Record(gate, e)
               /\ obs' = P!Consume(obs, e)
               /\ ren' = IF e.kind = "activity" THEN RenderActivity(ren) ELSE ren
               /\ UNCHANGED <<acc, col>>
    /\ UNCHANGED <<phase, product, faults, verdict>>

----------------------------------------------------------------------------
(* The canonical message *)

\* The result of the turn follows its last frame. The canonical message is read,
\* its references are forwarded, the verdict is reported and the caller prints
\* the canonical text.
Finalize ==
    /\ phase = "streaming"
    /\ wire = <<>>
    /\ server[FinalMsg] # <<>> \/ page.events # <<>>
    /\ phase' = "done"
    /\ LET forwarded == P!ForwardCanonical(gate, obs, plan.refs)
       IN /\ gate' = forwarded.gate
          /\ obs' = forwarded.obs
    /\ verdict' = Reconcile(acc, server[FinalMsg])
    /\ ren' = Finish(ren, server[FinalMsg])
    /\ UNCHANGED <<product, wire, faults, acc, col>>

StreamNext ==
    \/ \E m \in Messages : Write(m) \/ Observe(m)
    \/ \E e \in plan.menu : Report(e)
    \/ Lose
    \/ \E repeat \in BOOLEAN : Overtake(repeat)
    \/ Deliver
    \/ Finalize

StreamSpec == StreamInit /\ [][StreamNext]_streamVars

----------------------------------------------------------------------------
(* Properties *)

\* Provisional text is what the product wrote: as long as the delivery is not
\* marked incomplete, and unless the first frame was lost, the accumulator holds
\* the text of its message as of the last frame, and the collector the text of
\* every message. A turn that streamed the answer alone and lost no frame is
\* reconciled for what it is, never as incomplete (reconcile, apply).
ProvisionalIsSent ==
    /\ ~acc.incomplete /\ acc.count > 0 /\ acc.count = acc.last =>
          acc.text = page.log[acc.last][acc.msg]
    /\ ~col.incomplete /\ col.count > 0 /\ col.count = col.last =>
          \A m \in DOMAIN col.msgs : col.msgs[m].text = page.log[col.last][m]
    /\ /\ phase = "done" /\ faults = 0
       /\ {m \in Messages : page.text[m] # <<>>} = {FinalMsg}
       => CASE server[FinalMsg] = page.text[FinalMsg] -> verdict = "EXACT_MATCH"
            [] server[FinalMsg] # page.text[FinalMsg]
                 -> verdict = IF IsPrefix(page.text[FinalMsg], server[FinalMsg])
                              THEN "CANONICAL_EXTENDS_STREAM"
                              ELSE "STREAM_REVISED_BY_CANONICAL"

\* Whatever was lost, repeated, overtaken or revised, the text that stands on the
\* terminal when the renderer has finished is the canonical one, and one asked for
\* the final answer only never showed a piece of commentary on the way there
\* (RevisionSafeTerminalRenderer.finish, _replace, _final_only_accepts).
ScreenShowsCanonical ==
    /\ ren.finished => AnswerOnScreen(ren) = server[FinalMsg]
    /\ ren.finalOnly =>
           \A n \in DOMAIN ren.out :
               ren.out[n] \notin {Label, ActivityLine} =>
                   plan.mark[ren.out[n][1]] # "commentary"

Observed(kind) == {n \in DOMAIN obs.seen : obs.seen[n].kind = kind}

\* The sources and citations reported of a turn are consistent, whichever of the
\* stream and the canonical message they come from and whichever frames were
\* lost: one source for an address, a citation only of a source reported before
\* it, and the same place cited once (_forward_canonical_events,
\* _consume_source, _consume_citation).
ProvenanceIsConsistent ==
    LET sources == {obs.seen[n] : n \in Observed("source")}
        place(n) == <<obs.urls[obs.seen[n].source], obs.seen[n].range>>
    IN /\ \A s, t \in sources : s.url = t.url <=> s.id = t.id
       /\ \A n \in Observed("citation") :
             /\ \E k \in Observed("source") :
                   k < n /\ obs.seen[k].id = obs.seen[n].source
             /\ \A k \in Observed("citation") : k # n => place(k) # place(n)

\* The observations of one connector activity, or of one required action, tell one
\* story: they never name two connectors, operations or types, and after one of
\* them completed or failed the others do not say otherwise
\* (_consume_connector, _consume_required_action).
OneStoryPerActivity ==
    \A kind \in {"connector", "action"} : \A i, j \in Observed(kind) :
        LET a == obs.seen[i]
            b == obs.seen[j]
            agree(x, y) == None \in {x, y} \/ x = y
        IN a.id = b.id =>
             /\ agree(a.connector, b.connector)
             /\ kind = "connector" => agree(a.operation, b.operation)
             /\ kind = "action" => a.type = b.type /\ agree(a.activity, b.activity)
             /\ i < j /\ a.phase \in P!Terminal => b.phase = a.phase

\* "Any sequence gap or incomplete delivery fails the Temporary readback instead of
\* silently returning a possibly truncated answer"
\* (docs/temporary_chat_production_graduation_pr8_13.md:147): an answer that is
\* returned is the whole text the page sent for its message.
TemporaryReadbackIsWhole ==
    phase = "done" /\ TemporaryAnswer(col) # <<>> =>
        TemporaryAnswer(col) = page.text[FinalMessage(col)]

=============================================================================
