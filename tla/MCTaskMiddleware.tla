-------------------------- MODULE MCTaskMiddleware --------------------------
(* Two ingest messages, of which one is for the job of the detect message.  *)
EXTENDS TaskMiddleware

MCtask_name(m) == IF m = "detect 1" THEN "detect_job" ELSE "ingest_job"
MCjob_id(m) == IF m = "ingest 2" THEN "job 2" ELSE "job 1"

=============================================================================
