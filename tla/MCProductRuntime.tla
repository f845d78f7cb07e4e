-------------------------- MODULE MCProductRuntime --------------------------
(* The browser-owned transport and a custom one that can only send text. *)
EXTENDS ProductRuntime

Supports(temporary, policy, prof, media) ==
  [temporary |-> temporary, policy |-> policy, profile |-> prof,
   media |-> media, submission |-> media]

MCTransports ==
  {Supports(TRUE, TRUE, TRUE, TRUE), Supports(FALSE, FALSE, FALSE, FALSE)}

Ask(op, options) ==
  [op |-> op, temporary |-> "temporary" \in options, policy |-> "policy" \in options,
   profile |-> "profile" \in options, media |-> "media" \in options,
   conversation |-> "conversation" \in options]

Plain == Ask("send", {"temporary"})

Normal(options) == Ask("send", options)

\* Sessions that go on, end and start again, between and inside other turns.
MCPlans ==
  {<<Plain, Plain, Plain>>,
   <<Plain, Ask("end", {}), Plain>>,
   <<Ask("send", {"temporary", "profile"}), Normal({"media", "profile"}), Plain>>,
   <<Normal({"media", "profile"}), Normal({}), Normal({"media"})>>,
   <<Ask("submit", {"media"}), Ask("await", {}), Normal({"policy", "conversation"})>>,
   <<Plain, Ask("send", {"temporary", "policy"}), Ask("send", {"temporary", "conversation"})>>,
   <<Normal({}), Ask("send", {"temporary", "media"}), Ask("submit", {"temporary"})>>}
=============================================================================
