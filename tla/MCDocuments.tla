---------------------------- MODULE MCDocuments ----------------------------
(* Documents on a small instance: three requests of two organizations on   *)
(* two documents, files at the size limit and just above it.               *)
EXTENDS Documents, TLC

CONSTANTS r1, r2, r3, o1, o2, d1, d2, none

MCCaller == {r1, r2, r3}
MCOrg == {o1, o2}
MCDoc == {d1, d2}
MCSize == {3, 4}

\* The chunks of a file add up to the file, and only the last one may be short.
ASSUME ChunksAddUp ==
  \A n \in 0..25, k \in 1..6 :
    LET chunks == iter_file_chunks(n, k)
    IN /\ FoldSeq(LAMBDA x, y : x + y, 0, chunks) = n
       /\ \A i \in DOMAIN chunks : chunks[i] \in 1..k /\ (i < Len(chunks) => chunks[i] = k)

Symmetry == Permutations(MCCaller) \cup Permutations(MCOrg) \cup Permutations(MCDoc)

=============================================================================
