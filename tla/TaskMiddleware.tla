--------------------------- MODULE TaskMiddleware ---------------------------
(***************************************************************************)
(* The three middlewares around a task in the TaskIQ worker: the job id in *)
(* the logging context, the log lines at the boundaries of a task, and the *)
(* Prometheus metrics.  RedactionPipeline has what is inside of the tasks. *)
(*                                                                         *)
(* The receiver of TaskIQ, external, executes several messages at a time.  *)
(* It calls the hooks before a task in the order of registration and those *)
(* after it in reverse, on_error AND post_execute when the task raised, and*)
(* acknowledges at the end: a worker that dies gets the message again, and *)
(* starts with fresh metrics.  Hooks of two messages may interleave.       *)
(***************************************************************************)
EXTENDS Integers, Sequences, FiniteSets

CONSTANTS
  Message,        \* messages in the queue
  task_name(_),   \* the task a message is for
  job_id(_),      \* the job_id of its keyword arguments, or none
  none,
  MaxCrashes      \* bound

ASSUME ConstantsAssumption == IsFiniteSet(Message) /\ MaxCrashes \in Nat

VARIABLES
  stage,     \* what the receiver does next with a message
  is_err,    \* result.is_err of the task
  ctx,       \* _job_id_var in the asyncio task of the message
  lines,     \* the log lines of the middleware about a message
  started, completed, failed, in_progress, observed,   \* the metrics, by task name
  crashes

metrics == <<started, completed, failed, in_progress, observed>>
vars == <<stage, is_err, ctx, lines, metrics, crashes>>

TaskName == {task_name(m) : m \in Message}

\* Mutant: the order before the fix that the docstring tells of.
register_middleware_LoggingFirst == <<"logging", "job_context", "metrics">>

\* broker.middlewares
register_middleware == <<"job_context", "logging", "metrics">>

Position == DOMAIN register_middleware
At(hook, position) == [hook |-> hook, position |-> position]

\* The hook, or what follows once its last middleware had it.
AfterPre(k) == IF k = Len(register_middleware) THEN At("task", 0) ELSE At("pre_execute", k + 1)
AfterError(k) == IF k = 1 THEN At("post_execute", Len(register_middleware)) ELSE At("on_error", k - 1)
AfterPost(k) == IF k = 1 THEN At("acknowledged", 0) ELSE At("post_execute", k - 1)

Stage == {At(h, k) : h \in {"pre_execute", "on_error", "post_execute"}, k \in Position}
           \cup {At(h, 0) : h \in {"queued", "task", "acknowledged"}}

MiddlewareTypeOK ==
  /\ stage \in [Message -> Stage] /\ is_err \in [Message -> BOOLEAN]
  /\ \A m \in Message : ctx[m] \in {none, job_id(m)}
  /\ \A m \in Message : \A i \in DOMAIN lines[m] :
       lines[m][i].event \in {"task_started", "task_completed", "task_exception"}
  /\ \A n \in TaskName : in_progress[n] \in 0..Cardinality(Message)
  /\ crashes \in 0..MaxCrashes

Zero == [n \in TaskName |-> 0]

Init ==
  /\ stage = [m \in Message |-> At("queued", 0)]
  /\ is_err = [m \in Message |-> FALSE]
  /\ ctx = [m \in Message |-> none]
  /\ lines = [m \in Message |-> << >>]
  /\ started = Zero /\ completed = Zero /\ failed = Zero /\ in_progress = Zero /\ observed = Zero
  /\ crashes = 0

-----------------------------------------------------------------------------
(* The hooks *)

set_job_context(m) == IF job_id(m) = none THEN ctx ELSE [ctx EXCEPT ![m] = job_id(m)]
clear_job_context(m) == [ctx EXCEPT ![m] = none]

Logged(m, event) == [lines EXCEPT ![m] = Append(@, [event |-> event, job_id |-> ctx[m]])]

Plus(counter, m) == [counter EXCEPT ![task_name(m)] = @ + 1]
Minus(gauge, m) == [gauge EXCEPT ![task_name(m)] = @ - 1]

metrics_pre_execute(m) ==
  /\ started' = Plus(started, m) /\ in_progress' = Plus(in_progress, m)
  /\ UNCHANGED <<completed, failed, observed>>

\* Mutant: a task that raised is recorded here, too.
metrics_post_execute_Always(m) ==
  /\ in_progress' = Minus(in_progress, m)
  /\ observed' = Plus(observed, m) /\ completed' = Plus(completed, m)
  /\ UNCHANGED <<started, failed>>

metrics_post_execute(m) ==
  IF is_err[m] THEN UNCHANGED metrics
  ELSE /\ in_progress' = Minus(in_progress, m)
       /\ observed' = Plus(observed, m) /\ completed' = Plus(completed, m)
       /\ UNCHANGED <<started, failed>>

\* Mutant: the gauge is left to post_execute.
metrics_on_error_KeepsGauge(m) ==
  /\ failed' = Plus(failed, m) /\ observed' = Plus(observed, m)
  /\ UNCHANGED <<started, completed, in_progress>>

metrics_on_error(m) ==
  /\ in_progress' = Minus(in_progress, m)
  /\ failed' = Plus(failed, m) /\ observed' = Plus(observed, m)
  /\ UNCHANGED <<started, completed>>

\* Mutant: the end of a task that raised is logged twice.
logging_post_execute_Always(m) == Logged(m, "task_completed")

logging_post_execute(m) == IF is_err[m] THEN lines ELSE Logged(m, "task_completed")

-----------------------------------------------------------------------------
(* The receiver *)

Receive(m) ==
  /\ stage[m] = At("queued", 0)
  /\ stage' = [stage EXCEPT ![m] = At("pre_execute", 1)]
  /\ UNCHANGED <<is_err, ctx, lines, metrics, crashes>>

PreExecute(m) ==
  /\ stage[m].hook = "pre_execute"
  /\ stage' = [stage EXCEPT ![m] = AfterPre(@.position)]
  /\ \/ /\ register_middleware[stage[m].position] = "job_context"
        /\ ctx' = set_job_context(m) /\ UNCHANGED <<lines, metrics>>
     \/ /\ register_middleware[stage[m].position] = "logging"
        /\ lines' = Logged(m, "task_started") /\ UNCHANGED <<ctx, metrics>>
     \/ /\ register_middleware[stage[m].position] = "metrics"
        /\ metrics_pre_execute(m) /\ UNCHANGED <<ctx, lines>>
  /\ UNCHANGED <<is_err, crashes>>

\* The task returns or raises.
Task(m) ==
  /\ stage[m] = At("task", 0)
  /\ \E raised \in BOOLEAN :
       /\ is_err' = [is_err EXCEPT ![m] = raised]
       /\ stage' = [stage EXCEPT ![m] = At(IF raised THEN "on_error" ELSE "post_execute",
                                           Len(register_middleware))]
  /\ UNCHANGED <<ctx, lines, metrics, crashes>>

OnError(m) ==
  /\ stage[m].hook = "on_error"
  /\ stage' = [stage EXCEPT ![m] = AfterError(@.position)]
  /\ \/ /\ register_middleware[stage[m].position] = "job_context"
        /\ ctx' = clear_job_context(m) /\ UNCHANGED <<lines, metrics>>
     \/ /\ register_middleware[stage[m].position] = "logging"
        /\ lines' = Logged(m, "task_exception") /\ UNCHANGED <<ctx, metrics>>
     \/ /\ register_middleware[stage[m].position] = "metrics"
        /\ metrics_on_error(m) /\ UNCHANGED <<ctx, lines>>
  /\ UNCHANGED <<is_err, crashes>>

PostExecute(m) ==
  /\ stage[m].hook = "post_execute"
  /\ stage' = [stage EXCEPT ![m] = AfterPost(@.position)]
  /\ \/ /\ register_middleware[stage[m].position] = "job_context"
        /\ ctx' = clear_job_context(m) /\ UNCHANGED <<lines, metrics>>
     \/ /\ register_middleware[stage[m].position] = "logging"
        /\ lines' = logging_post_execute(m) /\ UNCHANGED <<ctx, metrics>>
     \/ /\ register_middleware[stage[m].position] = "metrics"
        /\ metrics_post_execute(m) /\ UNCHANGED <<ctx, lines>>
  /\ UNCHANGED <<is_err, crashes>>

\* The process dies: what it has not acknowledged is delivered again.
Crash ==
  /\ crashes < MaxCrashes /\ crashes' = crashes + 1
  /\ stage' = [m \in Message |-> IF stage[m].hook = "acknowledged" THEN stage[m] ELSE At("queued", 0)]
  /\ is_err' = [m \in Message |-> FALSE]
  /\ ctx' = [m \in Message |-> none]
  /\ started' = Zero /\ completed' = Zero /\ failed' = Zero /\ in_progress' = Zero /\ observed' = Zero
  /\ UNCHANGED lines

Handles(m) == Receive(m) \/ PreExecute(m) \/ Task(m) \/ OnError(m) \/ PostExecute(m)

Next == Crash \/ \E m \in Message : Handles(m)

Spec == Init /\ [][Next]_vars

-----------------------------------------------------------------------------

\* Each line about a message has the job id of that message, at its start and at its
\* end, whatever other messages the worker has in hand.
LinesCarryTheJob == \A m \in Message : \A i \in DOMAIN lines[m] : lines[m][i].job_id = job_id(m)

Outcome(line) == line.event # "task_started"

\* The log tells each execution once: a line about an end follows the line about its
\* start, with nothing between, and the last line about an acknowledged message tells
\* whether its task raised.
OneOutcomeLine ==
  \A m \in Message :
    /\ \A i \in DOMAIN lines[m] : Outcome(lines[m][i]) => i > 1 /\ ~ Outcome(lines[m][i - 1])
    /\ (stage[m].hook = "acknowledged" /\ crashes = 0) =>
         lines[m][Len(lines[m])].event = IF is_err[m] THEN "task_exception" ELSE "task_completed"

\* The log tells of each task: its own job, its start and, once, how it ended.
LogTellsEachTask == LinesCarryTheJob /\ OneOutcomeLine

OfMetrics == CHOOSE i \in Position : register_middleware[i] = "metrics"

\* The middleware that pre_execute has passed, and that the way back has not.
Entered(m) ==
  CASE stage[m].hook = "pre_execute" -> OfMetrics < stage[m].position
    [] stage[m].hook = "task" -> TRUE
    [] stage[m].hook = "on_error" -> OfMetrics <= stage[m].position
    [] stage[m].hook = "post_execute" -> ~ is_err[m] /\ OfMetrics <= stage[m].position
    [] OTHER -> FALSE

\* The gauge is the number of tasks being executed, and each one that started in this
\* process is in progress, completed or failed, with its duration observed at its end.
MetricsAddUp ==
  \A n \in TaskName :
    /\ in_progress[n] = Cardinality({m \in Message : task_name(m) = n /\ Entered(m)})
    /\ started[n] = in_progress[n] + completed[n] + failed[n]
    /\ observed[n] = completed[n] + failed[n]

=============================================================================
