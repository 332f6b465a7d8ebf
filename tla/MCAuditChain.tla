---------------------------- MODULE MCAuditChain ----------------------------
(* AuditChain on a small instance: three sessions racing on one job.        *)
EXTENDS AuditChain, TLC

CONSTANTS t1, t2, t3, a, b

MCTx == {t1, t2, t3}
MCPayload == {a, b}

Symmetry == Permutations(MCTx) \cup Permutations(MCPayload)

=============================================================================
