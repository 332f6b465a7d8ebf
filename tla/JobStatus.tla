------------------------------ MODULE JobStatus ------------------------------
(* The statuses of a redaction job and the edges between them.               *)

NoJob == "no_job"   \* the row is not committed yet

JobStatuses == {"uploaded", "ingested", "detected", "in_review",
                "applying", "verified", "exported", "failed"}

VALID_TRANSITIONS ==
  [uploaded  |-> {"ingested", "failed"},
   ingested  |-> {"detected", "failed"},
   detected  |-> {"in_review", "failed"},
   in_review |-> {"applying", "failed"},
   applying  |-> {"verified", "failed"},
   verified  |-> {"exported", "failed"},
   exported  |-> {},
   failed    |-> {}]

Allowed(from, to) == to \in VALID_TRANSITIONS[from]

=============================================================================
