----------------------------- MODULE MCLiveGate -----------------------------
(* All the gates: every schema of rich input, every authority, picker and   *)
(* Temporary gate, and the artifact gates with and without their snapshot. *)
EXTENDS LiveGate

MCGates ==
    << Gate7, Gate8, Gate9, Gate10, Gate11, Gate12, Gate13, Gate14, Gate15, Gate16,
       Gate17, Gate18, Gate19, Gate20, Gate21, Gate22, Gate23, Gate24, Gate25,
       Gate26, Gate27, Gate28, Gate29 >>
    \o << DefaultGate, TwoWriteGate, Characterization, Replication, PhaseCost,
          InstantLatency, SelectionRepair, Forensics(FALSE), Forensics(TRUE),
          TemporaryGate, SessionGate, StartupGate >>
    \o << Surface(FALSE), SurfaceV2(FALSE), TopologyV3(FALSE), NoncodeV4(FALSE),
          ActionV5(FALSE), FiberStateV6(FALSE), SubtreeV7(FALSE), RootShapeV8(FALSE),
          RootKeyShapeV9(FALSE), ArrayElementShapeV10(FALSE), ActionV5(TRUE),
          ArrayElementShapeV10(TRUE), ArtifactEvent(FALSE), ArtifactEvent(TRUE),
          ArtifactShape(FALSE), ArtifactShape(TRUE), CanonicalShape(FALSE),
          CanonicalShape(TRUE) >>

MCRetained == BOOLEAN
=============================================================================
