------------------------- MODULE ProductObservations -------------------------
(***************************************************************************)
(* The structured observations of one turn: what a product runtime reports *)
(* of activities, sources, citations, connectors and required actions.     *)
(*                                                                         *)
(*   - ProductObservationCollector (product_observations.py) and the       *)
(*     collectors above it (product_connector_lifecycle_pr10_0.py,         *)
(*     product_artifact_observation_pr10_1.py) accept or drop the events   *)
(*     of the turn one by one;                                             *)
(*   - the canonical gate (canonical_product_observation_gate_pr9_3.py)    *)
(*     adds the sources and citations of the canonical message, unless the *)
(*     stream has reported them.                                           *)
(*                                                                         *)
(* An event has a kind and the fields of its kind; an identifier the event *)
(* does not carry is None.                                                 *)
(***************************************************************************)
EXTENDS Naturals, Sequences

CONSTANT None

Terminal == {"completed", "failed"}

Lookup(f, k, default) == IF k \in DOMAIN f THEN f[k] ELSE default
Put(f, k, v) == [x \in DOMAIN f \cup {k} |-> IF x = k THEN v ELSE f[x]]
Nothing == [k \in {} |-> None]

----------------------------------------------------------------------------
(* The collector: observations accepted, events dropped, and what it       *)
(* remembers to decide.                                                    *)

NewObservations ==
    [seen |-> <<>>, dropped |-> 0, texts |-> Nothing, urls |-> Nothing,
     identity |-> Nothing, terminal |-> Nothing]

Accept(o, e) == [o EXCEPT !.seen = Append(@, e)]
Drop(o) == [o EXCEPT !.dropped = @ + 1]

\* _consume_activity: private text is dropped; what is not private adds up by
\* activity, and a completion carries it. An event of a tool is correlated
\* with no other and becomes a point observation.
ConsumeActivity(o, e) ==
    LET phase == IF e.tool /\ e.phase # "updated" THEN "observed" ELSE e.phase
        text == Lookup(o.texts, e.id, <<>>)
    IN CASE e.phase = "updated" /\ e.private -> Drop(o)
         [] e.phase = "updated" /\ ~e.private
              -> LET t == IF e.delta THEN text \o e.body ELSE e.body
                 IN Accept([o EXCEPT !.texts = Put(@, e.id, t)],
                           [kind |-> "activity", id |-> e.id, phase |-> phase,
                            text |-> t])
         [] e.phase = "started"
              -> Accept(o, [kind |-> "activity", id |-> e.id, phase |-> phase,
                            text |-> <<>>])
         [] e.phase = "completed"
              -> Accept([o EXCEPT !.texts = IF e.private THEN Put(@, e.id, <<>>)
                                            ELSE @],
                        [kind |-> "activity", id |-> e.id, phase |-> phase,
                         text |-> IF e.private THEN <<>> ELSE text])

\* _consume_source: a source keeps the address it was first seen with.
ConsumeSource(o, e) ==
    IF Lookup(o.urls, e.id, e.url) # e.url THEN Drop(o)
    ELSE Accept([o EXCEPT !.urls = Put(@, e.id, e.url)], e)

\* _consume_citation: only of a source that was observed.
ConsumeCitation(o, e) ==
    IF e.source \in DOMAIN o.urls THEN Accept(o, e) ELSE Drop(o)

Compatible(old, new) ==
    \A i \in DOMAIN new : None \in {old[i], new[i]} \/ old[i] = new[i]

\* Mutant of Merge: what the last event does not say is forgotten.
MergeLatest(old, new) == new

\* What was known is kept, what was not is learned.
Merge(old, new) == [i \in DOMAIN new |-> IF old[i] # None THEN old[i] ELSE new[i]]

\* The common part of _consume_connector and _consume_required_action: an event
\* is accepted when its identity agrees with what is known of its key and its
\* phase does not follow another terminal phase.
Correlate(o, key, identity, e) ==
    LET known == Lookup(o.identity, key, identity)
        ended == Lookup(o.terminal, key, e.phase)
    IN IF ~Compatible(known, identity) \/ ended # e.phase THEN Drop(o)
       ELSE Accept([o EXCEPT !.identity = Put(@, key, Merge(known, identity)),
                             !.terminal = IF e.phase \in Terminal
                                          THEN Put(@, key, e.phase) ELSE @], e)

ConsumeConnector(o, e) ==
    Correlate(o, <<"connector", e.id>>, <<e.connector, e.operation>>, e)

ConsumeRequiredAction(o, e) ==
    Correlate(o, <<"action", e.id>>, <<e.type, e.activity, e.connector>>, e)

\* _consume_required_action_surface: a visible affordance is point evidence only
\* when it shows both controls and no stable action id.
ConsumeSurface(o, e) ==
    IF e.controls /\ e.action = None THEN Accept(o, e) ELSE Drop(o)

\* _consume_artifact: point evidence of a generated file; one that carries a
\* locator or a malformed field is refused. The shape diagnostics are no
\* observations and no drops.
ConsumeArtifact(o, e) ==
    CASE e.shape -> o
      [] ~e.shape /\ (e.locator \/ e.malformed) -> Drop(o)
      [] ~e.shape /\ ~e.locator /\ ~e.malformed -> Accept(o, e)

Consume(o, e) ==
    CASE e.kind = "activity" -> ConsumeActivity(o, e)
      [] e.kind = "source" -> ConsumeSource(o, e)
      [] e.kind = "citation" -> ConsumeCitation(o, e)
      [] e.kind = "connector" -> ConsumeConnector(o, e)
      [] e.kind = "action" -> ConsumeRequiredAction(o, e)
      [] e.kind = "surface" -> ConsumeSurface(o, e)
      [] e.kind = "artifact" -> ConsumeArtifact(o, e)

----------------------------------------------------------------------------
(* The canonical gate of the turn *)

NewGate == [idOf |-> Nothing, urlOf |-> Nothing, cited |-> {}, alias |-> Nothing]

\* _record_emitted_event
Record(g, e) ==
    CASE e.kind = "source"
           -> [g EXCEPT !.idOf = IF e.url \in DOMAIN @ THEN @ ELSE Put(@, e.url, e.id),
                        !.urlOf = Put(@, e.id, e.url)]
      [] e.kind = "citation" /\ e.source \in DOMAIN g.urlOf
           -> [g EXCEPT !.cited = @ \cup {<<g.urlOf[e.source], e.range>>}]
      [] e.kind = "citation" /\ e.source \notin DOMAIN g.urlOf -> g
      [] e.kind \notin {"source", "citation"} -> g

\* canonical_product_observation_events: the references of the canonical message,
\* <<url, range>> each, as events: a source the first time its address occurs,
\* then the citation.
CanonicalId(url) == <<"canonical", url>>

CanonicalSource(ref) == [kind |-> "source", id |-> CanonicalId(ref[1]), url |-> ref[1]]

CanonicalCitation(ref) ==
    [kind |-> "citation", source |-> CanonicalId(ref[1]), range |-> ref[2]]

\* Mutant of ForwardOne: what the stream has reported is reported again.
ForwardUnaliased(s, e) == [gate |-> Record(s.gate, e), obs |-> Consume(s.obs, e)]

\* _forward_canonical_events, for one event: the gate and the collector after it.
\* A source the stream has reported becomes an alias, a citation it has reported
\* is not repeated, any other one is recorded and delivered.
ForwardOne(s, e) ==
    LET aliased == [e EXCEPT !.source = Lookup(s.gate.alias, @, @)]
        deliver(g, x) == [gate |-> Record(g, x), obs |-> Consume(s.obs, x)]
    IN CASE e.kind = "source" /\ e.url \in DOMAIN s.gate.idOf
              -> [s EXCEPT !.gate.alias = Put(@, e.id, s.gate.idOf[e.url])]
         [] e.kind = "source" /\ e.url \notin DOMAIN s.gate.idOf
              -> deliver([s.gate EXCEPT !.alias = Put(@, e.id, e.id)], e)
         [] e.kind = "citation"
              -> IF \/ aliased.source \notin DOMAIN s.gate.urlOf
                    \/ <<s.gate.urlOf[aliased.source], aliased.range>> \in s.gate.cited
                 THEN s
                 ELSE deliver(s.gate, aliased)

\* The events of the n-th reference, forwarded.
ForwardReference(s, refs, n) ==
    LET new == \A k \in 1..(n - 1) : refs[k][1] # refs[n][1]
    IN ForwardOne(IF new THEN ForwardOne(s, CanonicalSource(refs[n])) ELSE s,
                  CanonicalCitation(refs[n]))

ForwardCanonical(gate, obs, refs) ==
    LET forwarded[n \in 0..Len(refs)] ==
            IF n = 0 THEN [gate |-> gate, obs |-> obs]
            ELSE ForwardReference(forwarded[n - 1], refs, n)
    IN forwarded[Len(refs)]
=============================================================================
