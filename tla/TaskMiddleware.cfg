SPECIFICATION Spec
CONSTANTS
  Message = {"ingest 1", "ingest 2", "detect 1"}
  task_name <- MCtask_name
  job_id <- MCjob_id
  none = none
  MaxCrashes = 1
CHECK_DEADLOCK FALSE
INVARIANTS
  MiddlewareTypeOK
  LogTellsEachTask
  MetricsAddUp
