-------------------------- MODULE MCDashboardBatch --------------------------
(* Two batches that share an artifact, and an artifact for a worksheet of theirs. *)
EXTENDS DashboardBatch

CONSTANTS b1, b2, s1, a1, a2, a3, p, q

TwoBatches == {b1, b2}
OneSingle == {s1}
ThreeArtifacts == {a1, a2, a3}
TwoSheets == {p, q}
TargetOf == (a1 :> p) @@ (a2 :> q) @@ (a3 :> p)
WantedBy == (b1 :> <<a1>>) @@ (b2 :> <<a2, a1>>) @@ (s1 :> <<a3>>)
=============================================================================
