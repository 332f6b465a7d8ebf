----------------------------- MODULE MCPipeline -----------------------------
(* Small instances of the pipeline.  The cfg files choose which requests are *)
(* sent and which faults happen.                                             *)
EXTENDS PipelineProperties, TLC

CONSTANTS r1, r2, r3, a1, a2, e1, e2, w1, w2, s1, s2, m1, m2

None == {}
OneReviewer == {r1}
TwoReviewers == {r1, r2}
ThreeReviewers == {r1, r2, r3}
OneApplier == {a1}
TwoAppliers == {a1, a2}
OneExporter == {e1}
TwoExporters == {e1, e2}
OneWorker == {w1}
TwoWorkers == {w1, w2}
OneSpan == {s1}
TwoSpans == {s1, s2}
OneManual == {m1}
NoCandidate == {0}
OneCandidate == {1}
MaybeOne == {0, 1}
TwoManual == {m1, m2}

CrashAndError == {"crash", "error"}
AllFaults == {"crash", "error", "redeliver", "handoff", "fail_job"}
Handoff == {"handoff"}
Redelivery == {"redeliver"}
Recoverable == {"crash", "error", "redeliver"}

(* Permutations of the sets of an instance, not of all the names above, so   *)
(* that TLC has no more of them to try than there are.                       *)
Symmetry == Permutations(Reviewer) \cup Permutations(Applier)
              \cup Permutations(Exporter) \cup Permutations(Worker)

=============================================================================
