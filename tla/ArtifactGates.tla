--------------------------- MODULE ArtifactGates ---------------------------
(***************************************************************************)
(* The gates that look for the artifacts of an answer.  Ten of them read   *)
(* the page without writing: the extension first promises what it will not *)
(* export or do (the support), then delivers a snapshot that has to state  *)
(* the same of itself, and the snapshot has to show the probe's turns.     *)
(* Three others make one turn and look at its events.                      *)
(***************************************************************************)
EXTENDS GatePlans

\* The working tree is the commit the gate was asked for.
Exact == Check(Yes({"exact_head", "tracked_clean"}))

\* What no snapshot may export or do.
Harmless == {"raw_dom_exported", "raw_text_exported", "attribute_values_exported",
             "locator_values_exported", "click_performed", "download_attempted",
             "write_performed"}

\* What the page has to show: the probe's turns in their order, or its file name.
ProbePair == {"runtime_tab_present", "surface_ready", "ordered_pair", "placement_proven",
              "user_marker", "assistant_marker"}
Shown     == {"runtime_tab_present", "surface_ready", "filename_visible", "assistant_role"}

Anchored    == {"ordered_probe_pair_required", "assistant_turn_anchor_required"}
ReactValues == {"react_prop_values_exported", "react_state_values_exported"}

\* A contract: what only the support states, what the snapshot states again, and
\* what both refuse beside the harmless.
Contract(stated, repeated, refused) ==
    [stated |-> stated, repeated |-> repeated, refused |-> Harmless \cup refused]

Promises(c) == Yes({"supported"} \cup c.stated \cup c.repeated) ++ No(c.refused)

Delivers(c) == Yes(c.repeated) ++ No({"debugger_attached_after"} \cup c.refused)

\* A reading gate, which may stop after the preflight; the later ones ask for the
\* promises before they look at the working tree.
Reading(c, late, placed, preflight) ==
    Plan("PERSISTENT", 0,
         (IF late THEN << Ask(Promises(c)), Exact >> ELSE << Exact, Ask(Promises(c)) >>)
           \o IF preflight THEN <<>> ELSE << Read(Delivers(c)), Check(Yes(placed)) >>,
         {})

\* Surface: the visible surface around the file name of the probe.
SurfaceStated   == {"assistant_ownership_required", "user_turn_matches_excluded"}
SurfaceRepeated == {"fixed_probe_filename"}
SurfaceRefused  == {}
Surface(preflight) ==
    Reading(Contract(SurfaceStated, SurfaceRepeated, SurfaceRefused),
            FALSE, Shown, preflight)

\* SurfaceV2: anchored at the two probe turns.
SurfaceV2Stated == Anchored \cup {"user_prompt_cannot_become_artifact_evidence"}
SurfaceV2Repeated == {"fixed_probe_filename"}
SurfaceV2Refused  == {}
SurfaceV2(preflight) ==
    Reading(Contract(SurfaceV2Stated, SurfaceV2Repeated, SurfaceV2Refused),
            FALSE, ProbePair, preflight)

\* TopologyV3: the elements around each candidate.
TopologyV3Stated == Anchored \cup {"per_candidate_structural_only"}
TopologyV3Repeated == {"fixed_probe_filename"}
TopologyV3Refused  == {"react_prop_values_exported"}
TopologyV3(preflight) ==
    Reading(Contract(TopologyV3Stated, TopologyV3Repeated, TopologyV3Refused),
            FALSE, ProbePair, preflight)

\* NoncodeV4: candidates outside code blocks.
NoncodeV4Stated == Anchored \cup {"structural_key_names_only"}
NoncodeV4Repeated == {"pre_code_excluded"}
NoncodeV4Refused  == {"react_prop_values_exported"}
NoncodeV4(preflight) ==
    Reading(Contract(NoncodeV4Stated, NoncodeV4Repeated, NoncodeV4Refused),
            FALSE, ProbePair, preflight)

\* ActionV5: elements that can be acted upon.
ActionV5Stated == Anchored \cup {"structural_key_names_only"}
ActionV5Repeated == {"pre_code_svg_excluded", "host_action_only"}
ActionV5Refused  == {"react_prop_values_exported"}
ActionV5(preflight) ==
    Reading(Contract(ActionV5Stated, ActionV5Repeated, ActionV5Refused),
            FALSE, ProbePair, preflight)

\* FiberStateV6: the page's component state.
FiberStateV6Stated   == Anchored
FiberStateV6Repeated ==
    {"fiber_graph_bounded", "artifact_relevant_keys_only",
     "accessor_properties_skipped", "dom_state_node_values_excluded"}
FiberStateV6Refused  == ReactValues
FiberStateV6(preflight) ==
    Reading(Contract(FiberStateV6Stated, FiberStateV6Repeated, FiberStateV6Refused),
            FALSE, ProbePair, preflight)

\* SubtreeV7: the subtrees of artifact roots.
SubtreeV7Stated   == Anchored
SubtreeV7Repeated ==
    {"fiber_graph_bounded", "structural_artifact_roots_only",
     "dotted_localization_keys_excluded", "svg_use_fibers_excluded",
     "accessor_properties_skipped", "dom_state_node_values_excluded"}
SubtreeV7Refused  == ReactValues \cup {"artifact_subtree_values_exported"}
SubtreeV7(preflight) ==
    Reading(Contract(SubtreeV7Stated, SubtreeV7Repeated, SubtreeV7Refused),
            FALSE, {"placement_proven"}, preflight)

\* RootShapeV8: the types and sizes of those roots.
RootShapeV8Stated   == Anchored
RootShapeV8Repeated ==
    {"fiber_graph_bounded", "structural_artifact_roots_only",
     "dotted_localization_keys_excluded", "svg_use_fibers_excluded",
     "accessor_properties_skipped", "dom_state_node_values_excluded",
     "root_value_types_only", "root_cardinality_bucket_only"}
RootShapeV8Refused  ==
    ReactValues \cup {"root_values_exported", "child_values_exported"}
RootShapeV8(preflight) ==
    Reading(Contract(RootShapeV8Stated, RootShapeV8Repeated, RootShapeV8Refused),
            TRUE, {"placement_proven", "ordered_pair"}, preflight)

\* RootKeyShapeV9: the shapes of their keys.
RootKeyShapeV9Stated   == Anchored
RootKeyShapeV9Repeated ==
    {"fiber_graph_bounded", "structural_artifact_roots_only",
     "dotted_localization_keys_excluded", "svg_use_fibers_excluded",
     "accessor_properties_skipped", "dom_state_node_values_excluded",
     "nonempty_roots_only", "key_shape_classification_only",
     "known_structural_key_whitelist_only"}
RootKeyShapeV9Refused  ==
    ReactValues
      \cup {"raw_root_keys_exported", "raw_root_values_exported", "child_values_exported"}
RootKeyShapeV9(preflight) ==
    Reading(Contract(RootKeyShapeV9Stated, RootKeyShapeV9Repeated, RootKeyShapeV9Refused),
            TRUE, {"placement_proven", "ordered_pair"}, preflight)

\* ArrayElementShapeV10: the elements of attachment roots.
ArrayElementShapeV10Stated   == Anchored
ArrayElementShapeV10Repeated ==
    {"fiber_graph_bounded", "attachment_roots_only",
     "nonempty_attachment_roots_only", "opaque_array_children_only",
     "array_elements_bounded", "element_value_types_only",
     "string_element_shape_classification_only",
     "known_structural_key_whitelist_only", "accessor_properties_skipped",
     "dom_state_node_values_excluded"}
ArrayElementShapeV10Refused  ==
    ReactValues
      \cup {"raw_attachment_child_keys_exported", "raw_array_element_values_exported",
            "raw_string_values_exported", "raw_root_values_exported"}
ArrayElementShapeV10(preflight) ==
    Reading(Contract(ArrayElementShapeV10Stated, ArrayElementShapeV10Repeated,
                     ArrayElementShapeV10Refused),
            TRUE, {"placement_proven", "ordered_pair"}, preflight)

\* The event of an explicit artifact: one turn, whose events are looked at.
ArtifactSupport ==
    Ask(Yes({"supported", "explicit_artifact_identity_required"})
        ++ No({"artifact_locator_exported", "grants_download_authority",
               "grants_overwrite_authority", "write_performed"}))

OneTurn == Turn(NewChat, "", {Recorded})

ArtifactEvent(preflight) ==
    Plan("PERSISTENT", 1,
         << Exact, ArtifactSupport >> \o IF preflight THEN <<>> ELSE << OneTurn >>,
         IF preflight THEN {} ELSE {<<1, Recorded>>})

\* The same for the shape of what the stream carries, on top of that gate.
ShapeSupport ==
    Ask(Yes({"supported", "probe_filename_anchored"})
        ++ No({"raw_payload_exported", "artifact_locator_exported", "write_performed"}))

ArtifactShape(preflight) ==
    IF preflight THEN Plan("PERSISTENT", 1, << Exact, ShapeSupport >>, {})
    ELSE [ArtifactEvent(FALSE) EXCEPT !.steps = << Exact, ShapeSupport >> \o @]

\* The same for the canonical conversation, read once more after the turn.
CanonicalShape(preflight) ==
    LET base == ArtifactEvent(preflight)
    IN  IF preflight THEN base
        ELSE [base EXCEPT !.steps = @ \o << Check(Yes({"payload_present", "shape_found"})) >>]

=============================================================================
