------------------------- MODULE RichInputContract -------------------------
(***************************************************************************)
(* What a rich-input live gate asks of the browser extension before its    *)
(* first write.  The extension describes itself by a set of claims, one    *)
(* overlay of claims per schema.  The gate of schema n has its own         *)
(* requirements and hands the answer, relabelled, to the gate of an        *)
(* earlier schema.  A level whose claim replaced an older one FREEZES the  *)
(* old value in what it hands down, and has to require the new one itself. *)
(*                                                                         *)
(* A claim is "yes", "no", "none", "enough" (a number that reaches its     *)
(* minimum) or the name of a mechanism; anything else is "other".          *)
(***************************************************************************)
EXTENDS Integers, Sequences

Yes(claims) == [c \in claims |-> "yes"]
No(claims)  == [c \in claims |-> "no"]

\* What f says, and what g says beyond that.
f ++ g == [c \in DOMAIN f \cup DOMAIN g |-> IF c \in DOMAIN f THEN f[c] ELSE g[c]]

NoClaims == Yes({})

\* Mutant: a gate does not require again what it freezes for the others.
MutantLevel(from, yes, no, named, frozen) ==
    [from |-> from, yes |-> yes \ DOMAIN frozen, no |-> no \ DOMAIN frozen,
     named |-> [c \in DOMAIN named \ DOMAIN frozen |-> named[c]], frozen |-> frozen]

\* One gate: the schema whose gate it builds on (its own for the first), what
\* it requires itself, and what it freezes for the earlier gates.
Level(from, yes, no, named, frozen) ==
    [from |-> from, yes |-> yes, no |-> no, named |-> named, frozen |-> frozen]

Claims(l)   == l.yes \cup l.no \cup DOMAIN l.named
Requires(l) == Yes(l.yes) ++ (No(l.no) ++ l.named)
Spoken(l)   == {Requires(l)[c] : c \in Claims(l)} \cup {l.frozen[c] : c \in DOMAIN l.frozen}

\* Schema 7: the base: who stages, who uploads, who writes, and what happens after a failed turn.
Schema7 == Level(7,
    {"official_page_owns_upload", "official_page_owns_protected_write",
     "recovery_before_attachment_staging", "stale_attachment_failure_fence",
     "stale_attachment_fence_persistent_across_worker_restart",
     "single_total_turn_deadline", "pre_submit_deadline_guard",
     "deadline_bounded_post_write_cleanup",
     "post_write_fence_retained_until_next_prewrite",
     "mouse_release_outcome_ambiguity_fails_closed",
     "pre_submit_attachment_revalidation",
     "post_send_readiness_attachment_revalidation",
     "rich_input_raw_cdp_input_submit_disabled",
     "late_protected_submit_execution_prevented_by_page_deadline",
     "atomic_attachment_validation_and_submit",
     "stale_attachment_cleanup_requires_session_runtime_identity",
     "stale_attachment_identity_mismatch_fails_closed",
     "stale_attachment_unproven_identity_fails_closed"},
    {"native_messaging_carries_attachment_bytes",
     "enter_key_release_affects_submitted_outcome",
     "mouse_to_enter_fallback_after_release_attempt",
     "rich_input_enter_fallback_enabled", "post_click_debugger_ack_required",
     "stale_attachment_identity_mismatch_closes_tab", "automatic_write_retry",
     "write_performed"},
    [max_attachment_count |-> "enough",
     attachment_evidence_stable_poll_count |-> "enough",
     submit_observation_reserve_ms |-> "enough",
     staging_primitive |-> "DOM.setFileInputFiles",
     stale_attachment_cleanup_proof |-> "RUNTIME_TAB_REMOVED_AND_ABSENCE_CONFIRMED",
     attachment_count_evidence |-> "PAGE_OWNED_COMPOSER_ATTACHMENT_STATE",
     protected_submit_primitive |-> "PAGE_DEADLINE_GUARDED_ATOMIC_ATTACHMENT_VALIDATE_AND_CLICK",
     protected_submit_outcome_proof |-> "NETWORK_REQUEST_OBSERVATION",
     fallback_transport |-> "none"], NoClaims)

\* Schema 8: the composer is clean before staging and holds exactly the staged set.
Schema8 == Level(7,
    {"pre_stage_composer_attachment_clean", "exact_composer_attachment_set_required",
     "destructive_cleanup_authority_revalidated_at_close",
     "destructive_cleanup_ownership_change_fails_closed"},
    {}, NoClaims, NoClaims)

\* Schema 9: the two evidence channels must agree.
Schema9 == Level(8,
    {"cross_evidence_channel_exactness"},
    {}, NoClaims, NoClaims)

\* Schema 10: evidence comes from the official composer, set up within the deadline.
Schema10 == Level(9,
    {"official_composer_required_for_attachment_evidence",
     "exact_basename_association_required", "prestage_debugger_setup_deadline_bounded",
     "late_prestage_debugger_attach_auto_detached"},
    {}, NoClaims, NoClaims)

\* Schema 11: evidence reads are bounded by the deadline.
Schema11 == Level(10,
    {"structured_removal_control_basename_parsing",
     "attachment_evidence_reads_deadline_bounded"},
    {}, NoClaims, NoClaims)

\* Schema 12: so is the debugger set up after staging.
Schema12 == Level(11,
    {"poststage_debugger_setup_deadline_bounded",
     "late_poststage_debugger_attach_auto_detached",
     "send_readiness_wait_deadline_bounded"},
    {}, NoClaims, NoClaims)

\* Schema 13: so is every step of staging itself.
Schema13 == Level(12,
    {"attachment_staging_primitive_deadline_bounded",
     "staging_debugger_setup_deadline_bounded",
     "staging_composer_readiness_deadline_bounded",
     "staging_file_input_lookup_deadline_bounded",
     "staging_fence_persistence_deadline_bounded",
     "staging_file_selection_deadline_bounded",
     "staging_post_selection_cleanup_deadline_bounded",
     "late_staging_debugger_attach_auto_detached",
     "late_file_selection_fails_closed_behind_durable_fence",
     "post_selection_cleanup_best_effort_after_timeout"},
    {}, NoClaims, NoClaims)

\* Schema 14: rich input excludes a model profile.
Schema14 == Level(13,
    {"rich_input_model_profile_combination_fails_before_staging",
     "rich_input_model_profile_combination_fails_before_write",
     "pr810_raw_prewrite_selector_excluded_from_rich_input"},
    {"rich_input_model_profile_combination_supported"},
    NoClaims, NoClaims)

\* Schema 15: each debugger detaches before the next one attaches.
Schema15 == Level(14,
    {"pre_stage_successful_debugger_detach_deadline_bounded",
     "post_stage_successful_debugger_detach_deadline_bounded",
     "debugger_ownership_handoff_completed_before_next_attach",
     "failure_path_debugger_detach_best_effort"},
    {}, NoClaims, NoClaims)

\* Schema 16: nothing after the write rewrites its outcome.
Schema16 == Level(15,
    {"durable_fence_read_deadline_bounded", "runtime_tab_acquisition_deadline_bounded",
     "inherited_page_turn_post_write_teardown_non_blocking",
     "post_write_debugger_detach_best_effort",
     "post_write_debugger_targets_probe_best_effort"},
    {"post_write_teardown_can_rewrite_submitted_outcome"},
    NoClaims, NoClaims)

\* Schema 17: time is kept back for returning the answer.
Schema17 == Level(16,
    {"page_turn_prewrite_setup_deadline_bounded",
     "late_page_turn_debugger_attach_auto_detached",
     "post_write_response_body_deadline_bounded",
     "post_write_composer_readiness_deadline_bounded",
     "post_write_final_tab_read_deadline_bounded",
     "post_write_optional_reads_non_authoritative"},
    {"post_write_optional_reads_can_rewrite_submitted_outcome"},
    [post_write_rpc_return_reserve_ms |-> "enough"], NoClaims)

\* Schema 18: a new chat succeeds only with its conversation identity.
Schema18 == Level(17,
    {"new_chat_conversation_identity_required_before_success",
     "post_write_conversation_identity_resolution_deadline_bounded",
     "unresolved_conversation_identity_signals_committed_readback_incomplete"},
    {"missing_conversation_identity_can_return_transport_success",
     "automatic_write_retry_after_identity_failure"},
    [post_write_conversation_identity_dedicated_reserve_ms |-> "enough"], NoClaims)

\* Schema 19: which is bound to the network request.
Schema19 == Level(18,
    {"response_body_conversation_identity_request_bound",
     "causal_conversation_identity_read_deadline_bounded",
     "missing_request_bound_conversation_identity_signals_committed_readback_incomplete"},
    {"route_conversation_identity_authoritative",
     "manual_route_navigation_can_satisfy_new_chat_identity",
     "automatic_write_retry_after_causal_identity_failure"},
    [causal_conversation_identity_rpc_return_reserve_ms |-> "enough",
     new_chat_conversation_identity_authority |-> "NETWORK_REQUEST_BOUND_STREAM_HANDOFF"], NoClaims)

\* Schema 20: which is bound to the protected submit.
Schema20 == Level(19,
    {"protected_submit_request_armed_by_page_side_marker",
     "page_side_arm_marker_and_protected_click_same_task",
     "exactly_one_post_arm_conversation_request_required",
     "ambiguous_post_arm_conversation_requests_signal_committed_readback_incomplete"},
    {"pre_arm_conversation_requests_authoritative",
     "user_gesture_post_arm_request_can_satisfy_protected_submit",
     "automatic_write_retry_after_submit_correlation_failure"},
    [new_chat_conversation_identity_authority |-> "PROTECTED_SUBMIT_BOUND_REQUEST_STREAM_HANDOFF",
     protected_submit_request_correlation |-> "PAGE_SIDE_ARMED_SINGLE_CONVERSATION_POST"],
    [new_chat_conversation_identity_authority |-> "NETWORK_REQUEST_BOUND_STREAM_HANDOFF"])

\* Schema 21: which is armed after every validation.
Schema21 == Level(20,
    {"protected_submit_arm_after_all_validation"},
    {"pre_validation_submit_arm_possible"},
    [protected_submit_arm_boundary |-> "AFTER_ALL_VALIDATION_IMMEDIATELY_BEFORE_BUTTON_CLICK"], NoClaims)

\* Schema 22: role groups count as evidence only with a removal control (superseded by 23).
Schema22 == Level(21,
    {"attachment_evidence_role_groups_require_removal_control",
     "composer_control_role_groups_excluded_from_attachment_evidence",
     "pre_stage_clean_uses_attachment_owned_evidence_only"},
    {}, NoClaims, NoClaims)

\* Schema 23: filename groups are evidence without one.
Schema23 == Level(21,
    {"attachment_filename_groups_independent_of_removal_controls",
     "composer_control_group_exclusion_uses_structure",
     "unclassified_role_groups_fail_closed_as_attachment_evidence",
     "composer_control_role_groups_excluded_from_attachment_evidence",
     "pre_stage_clean_uses_attachment_owned_evidence_only"},
    {"attachment_evidence_role_groups_require_removal_control"},
    NoClaims, NoClaims)

\* Schema 24: the composer is awaited, never assumed.
Schema24 == Level(23,
    {"pre_stage_official_composer_mount_awaited",
     "pre_stage_official_composer_mount_wait_deadline_bounded",
     "official_composer_mount_uses_production_attachment_evidence_reader",
     "mounted_attachment_evidence_still_fails_closed"},
    {"tab_complete_alone_can_prove_composer_mounted",
     "missing_composer_before_mount_classified_dirty"},
    NoClaims, NoClaims)

\* Schema 25: an indexed removal label is normalised (superseded by 27).
Schema25 == Level(24,
    {"indexed_removal_ui_prefix_normalization_supported",
     "indexed_removal_ui_prefix_requires_known_noun_ordinal_and_colon",
     "indexed_removal_ui_prefix_basename_compared_exactly",
     "unknown_removal_ui_metadata_still_fails_closed",
     "removal_normalization_shared_by_production_and_diagnostic"},
    {}, NoClaims, NoClaims)

\* Schema 26: with an independent filename group (superseded by 27).
Schema26 == Level(25,
    {"indexed_removal_ui_prefix_requires_independent_filename_group",
     "literal_post_action_removal_basename_preserved",
     "ambiguous_indexed_removal_label_fails_closed_without_filename_group",
     "indexed_removal_candidate_still_compared_exactly"},
    {"removal_only_indexed_ui_prefix_normalization_allowed"},
    NoClaims, NoClaims)

\* Schema 27: an ambiguous indexed label fails closed both ways.
Schema27 == Level(24,
    {"indexed_removal_ambiguity_bidirectional_fail_closed",
     "indexed_removal_literal_interpretation_requires_independent_filename_group",
     "indexed_removal_stripped_interpretation_requires_independent_filename_group",
     "unindexed_removal_literal_semantics_preserved",
     "indexed_removal_interpretation_selected_by_exact_filename_group_only"},
    {"indexed_removal_removal_only_authority_allowed"},
    NoClaims, NoClaims)

\* Schema 28: stream handoffs are parsed before they are filtered.
Schema28 == Level(27,
    {"causal_stream_handoff_json_parsed_before_type_filter",
     "causal_stream_handoff_json_whitespace_invariant",
     "causal_stream_handoff_base64_body_decoding_supported",
     "conflicting_stream_handoff_conversation_ids_fail_closed",
     "prior_stream_metadata_observer_side_effects_preserved"},
    {"route_conversation_identity_authoritative",
     "automatic_write_retry_after_causal_identity_failure"},
    NoClaims, NoClaims)

\* Schema 29: the submit is matched by the body of its request.
Schema29 == Level(28,
    {"request_bound_protocol_conversation_id_authority",
     "request_bound_protocol_conversation_id_consensus_required",
     "top_level_conversation_id_authority", "root_add_value_conversation_id_authority",
     "conflicting_request_bound_conversation_ids_fail_closed",
     "validated_click_request_body_correlation",
     "request_post_data_required_for_protected_submit_correlation",
     "request_post_data_fallback_supported",
     "request_post_data_fallback_exact_request_bound",
     "unresolved_request_body_fails_closed",
     "exact_user_text_required_for_protected_submit_correlation",
     "request_message_id_required_for_protected_submit_correlation",
     "request_attachment_count_required_for_protected_submit_correlation",
     "continuation_conversation_id_required_for_protected_submit_correlation",
     "new_chat_conversation_id_must_be_absent_for_protected_submit_correlation",
     "additional_service_post_arm_requests_allowed",
     "duplicate_same_logical_message_request_allowed",
     "distinct_post_arm_user_messages_fail_closed",
     "submit_correlation_failure_diagnostics_available"},
    {"unrecognized_nested_conversation_id_can_satisfy_identity",
     "stream_handoff_required_for_causal_conversation_identity",
     "route_conversation_identity_authoritative",
     "additional_post_arm_conversation_requests_authoritative",
     "has_user_gesture_authoritative",
     "exactly_one_post_arm_conversation_request_required",
     "ambiguous_post_arm_conversation_requests_signal_committed_readback_incomplete",
     "automatic_write_retry_after_submit_correlation_failure",
     "automatic_write_retry_after_causal_identity_failure"},
    [new_chat_conversation_identity_authority |-> "NETWORK_REQUEST_BOUND_PROTOCOL_CONVERSATION_ID_CONSENSUS",
     protected_submit_request_correlation |-> "VALIDATED_CLICK_REQUEST_BODY_USER_MESSAGE_IDENTITY"],
    [exactly_one_post_arm_conversation_request_required |-> "yes",
     ambiguous_post_arm_conversation_requests_signal_committed_readback_incomplete |-> "yes",
     new_chat_conversation_identity_authority |-> "PROTECTED_SUBMIT_BOUND_REQUEST_STREAM_HANDOFF",
     protected_submit_request_correlation |-> "PAGE_SIDE_ARMED_SINGLE_CONVERSATION_POST"])

Schemas == 7 .. 29

levels ==
    [n \in Schemas |->
        << Schema7, Schema8, Schema9, Schema10, Schema11, Schema12, Schema13, Schema14,
           Schema15, Schema16, Schema17, Schema18, Schema19, Schema20, Schema21,
           Schema22, Schema23, Schema24, Schema25, Schema26, Schema27, Schema28,
           Schema29 >>[n - 6]]

\* What an extension can say of a claim: what one of the gates looks for,
\* nothing, or something else.
AllClaims == UNION {Claims(levels[n]) : n \in Schemas}
Values    == {"absent", "other"} \cup UNION {Spoken(levels[n]) : n \in Schemas}
Answers   == [AllClaims -> Values]
Silent    == [c \in AllClaims |-> "absent"]

\* The extension answers with the overlays of all the schemas up to its own,
\* a later overlay over the earlier ones.
answer[n \in Schemas] ==
    Requires(levels[n]) ++ (IF n = 7 THEN Silent ELSE answer[n - 1])

Finds(requires, s) == \A c \in DOMAIN requires : s[c] = requires[c]

\* The answers that the gate of schema n accepts: it finds its own requirements
\* in them, and hands them on, with what it freezes, to the gate it builds on.
accepted[n \in Schemas] ==
    {s \in Answers :
        /\ Finds(Requires(levels[n]), s)
        /\ n # 7 => levels[n].frozen ++ s \in accepted[levels[n].from]}

\* It asks for its own schema first.
Accepts(n, m, s) == m = n /\ s \in accepted[n]

\* What the gate is meant to ask: of every claim, what the newest gate that
\* speaks of it requires, whatever older gates said.
contract[n \in Schemas] ==
    IF n = 7 THEN Requires(levels[7])
    ELSE Requires(levels[n]) ++ contract[levels[n].from]

Meets(n, m, s) == m = n /\ Finds(contract[n], s)

=============================================================================
