------------------------ MODULE TaskMiddleware_proofs ------------------------
(* The log lines and the metrics of the worker, for any number of messages   *)
(* in hand, any tasks and any number of crashes.                             *)
EXTENDS TaskMiddleware, FiniteSetTheorems, SequenceTheorems, TLAPS

Event == {"task_started", "task_completed", "task_exception"}

Line == [event : Event, job_id : {none} \cup {job_id(m) : m \in Message}]

StateTypes ==
  /\ stage \in [Message -> Stage]
  /\ is_err \in [Message -> BOOLEAN]
  /\ ctx \in [Message -> {none} \cup {job_id(m) : m \in Message}]
  /\ lines \in [Message -> Seq(Line)]
  /\ started \in [TaskName -> Int] /\ completed \in [TaskName -> Int]
  /\ failed \in [TaskName -> Int] /\ in_progress \in [TaskName -> Int]
  /\ observed \in [TaskName -> Int]
  /\ crashes \in 0 .. MaxCrashes

(* The context variable of a message is set from its pre_execute to the hook *)
(* that clears it, the one after the last line about the message.            *)
Carrying(m) ==
  \/ stage[m].hook = "pre_execute" /\ stage[m].position > 1
  \/ stage[m].hook \in {"task", "on_error"}
  \/ stage[m].hook = "post_execute" /\ ~ is_err[m]

LastEvent(m, event) == lines[m] # << >> /\ lines[m][Len(lines[m])].event = event

(* Its start is logged and its end is not. *)
Opened(m) ==
  \/ stage[m].hook = "pre_execute" /\ stage[m].position = 3
  \/ stage[m].hook = "task"
  \/ stage[m].hook = "on_error" /\ stage[m].position > 1
  \/ stage[m].hook = "post_execute" /\ ~ is_err[m] /\ stage[m].position > 1

(* Its end is logged; a crash forgets how an acknowledged task ended.        *)
Closed(m) ==
  \/ stage[m].hook = "on_error" /\ stage[m].position = 1
  \/ stage[m].hook = "post_execute" /\ (is_err[m] \/ stage[m].position = 1)
  \/ stage[m].hook = "acknowledged" /\ crashes = 0

MessageInv(m) ==
  /\ ctx[m] = IF Carrying(m) THEN job_id(m) ELSE none
  /\ stage[m].hook = "on_error" => is_err[m]
  /\ Opened(m) => LastEvent(m, "task_started")
  /\ Closed(m) => LastEvent(m, IF is_err[m] THEN "task_exception" ELSE "task_completed")

(* Each line is about the message, and an outcome follows a start.           *)
LinesInv(m) ==
  \A i \in DOMAIN lines[m] :
    /\ lines[m][i].job_id = job_id(m)
    /\ Outcome(lines[m][i]) => i > 1 /\ ~ Outcome(lines[m][i - 1])

IInv ==
  /\ StateTypes
  /\ \A m \in Message : MessageInv(m) /\ LinesInv(m)
  /\ MetricsAddUp

-----------------------------------------------------------------------------
(* The order of registration, and where a message is on its way.             *)

LEMMA Order ==
  /\ Position = 1 .. 3
  /\ Len(register_middleware) = 3
  /\ register_middleware[1] = "job_context"
  /\ register_middleware[2] = "logging"
  /\ register_middleware[3] = "metrics"
BY DEF Position, register_middleware

LEMMA StageOf ==
  ASSUME StateTypes, NEW m \in Message
  PROVE  /\ stage[m] = At(stage[m].hook, stage[m].position)
         /\ stage[m].hook \in {"pre_execute", "on_error", "post_execute"} => stage[m].position \in 1 .. 3
         /\ stage[m].hook \in {"queued", "pre_execute", "task", "on_error", "post_execute", "acknowledged"}
BY Order DEF StateTypes, Stage, At

(* The messages whose task the gauge counts. *)
Counted(m) ==
  \/ stage[m].hook = "task"
  \/ stage[m].hook = "on_error" /\ stage[m].position = 3
  \/ stage[m].hook = "post_execute" /\ ~ is_err[m] /\ stage[m].position = 3

LEMMA EnteredIs == StateTypes => \A m \in Message : Entered(m) <=> Counted(m)
<1> SUFFICES ASSUME StateTypes, NEW m \in Message
             PROVE  Entered(m) <=> Counted(m)
  OBVIOUS
<1>1. OfMetrics = 3
  <2>1. \A i \in Position : register_middleware[i] = "metrics" <=> i = 3
    BY Order
  <2>2. 3 \in Position
    BY Order
  <2>3. QED
    BY <2>1, <2>2 DEF OfMetrics
<1>2. CASE stage[m].hook = "pre_execute"
  BY <1>1, <1>2, StageOf DEF Entered, Counted
<1>3. CASE stage[m].hook = "task"
  BY <1>3 DEF Entered, Counted
<1>4. CASE stage[m].hook = "on_error"
  BY <1>1, <1>4, StageOf DEF Entered, Counted
<1>5. CASE stage[m].hook = "post_execute"
  BY <1>1, <1>5, StageOf DEF Entered, Counted
<1>6. CASE stage[m].hook \in {"queued", "acknowledged"}
  BY <1>6 DEF Entered, Counted
<1>7. QED
  BY <1>2, <1>3, <1>4, <1>5, <1>6, StageOf

-----------------------------------------------------------------------------
(* The steps of a message: which middleware runs, and what comes next.       *)

To(m, h, k) == stage' = [stage EXCEPT ![m] = At(h, k)]

Before(m) ==
  /\ UNCHANGED <<is_err, crashes>>
  /\ \/ /\ stage[m] = At("queued", 0) /\ To(m, "pre_execute", 1)
        /\ UNCHANGED <<ctx, lines, metrics>>
     \/ /\ stage[m] = At("pre_execute", 1) /\ To(m, "pre_execute", 2)
        /\ ctx' = set_job_context(m) /\ UNCHANGED <<lines, metrics>>
     \/ /\ stage[m] = At("pre_execute", 2) /\ To(m, "pre_execute", 3)
        /\ lines' = Logged(m, "task_started") /\ UNCHANGED <<ctx, metrics>>
     \/ /\ stage[m] = At("pre_execute", 3) /\ To(m, "task", 0)
        /\ metrics_pre_execute(m) /\ UNCHANGED <<ctx, lines>>

AfterRaise(m) ==
  /\ UNCHANGED <<is_err, crashes>>
  /\ \/ /\ stage[m] = At("on_error", 3) /\ To(m, "on_error", 2)
        /\ metrics_on_error(m) /\ UNCHANGED <<ctx, lines>>
     \/ /\ stage[m] = At("on_error", 2) /\ To(m, "on_error", 1)
        /\ lines' = Logged(m, "task_exception") /\ UNCHANGED <<ctx, metrics>>
     \/ /\ stage[m] = At("on_error", 1) /\ To(m, "post_execute", 3)
        /\ ctx' = clear_job_context(m) /\ UNCHANGED <<lines, metrics>>

After(m) ==
  /\ UNCHANGED <<is_err, crashes>>
  /\ \/ /\ stage[m] = At("post_execute", 3) /\ To(m, "post_execute", 2)
        /\ metrics_post_execute(m) /\ UNCHANGED <<ctx, lines>>
     \/ /\ stage[m] = At("post_execute", 2) /\ To(m, "post_execute", 1)
        /\ lines' = logging_post_execute(m) /\ UNCHANGED <<ctx, metrics>>
     \/ /\ stage[m] = At("post_execute", 1) /\ To(m, "acknowledged", 0)
        /\ ctx' = clear_job_context(m) /\ UNCHANGED <<lines, metrics>>

Runs(m) ==
  /\ stage[m] = At("task", 0)
  /\ \E raised \in BOOLEAN :
       /\ is_err' = [is_err EXCEPT ![m] = raised]
       /\ To(m, IF raised THEN "on_error" ELSE "post_execute", 3)
  /\ UNCHANGED <<ctx, lines, metrics, crashes>>

LEMMA HandlesSteps ==
  ASSUME StateTypes, NEW m \in Message, Handles(m)
  PROVE  Before(m) \/ Runs(m) \/ AfterRaise(m) \/ After(m)
<1> DEFINE h == stage[m].hook
           k == stage[m].position
<1>1. CASE Receive(m)
  BY <1>1 DEF Receive, Before, To
<1>2. CASE Task(m)
  BY <1>2, Order DEF Task, Runs, To
<1>4. CASE PreExecute(m)
  <2>1. k \in 1 .. 3 /\ stage[m] = At("pre_execute", k) /\ stage' = [stage EXCEPT ![m] = AfterPre(k)]
    BY <1>4, StageOf DEF PreExecute, StateTypes
  <2>2. CASE k = 1
    BY <1>4, <2>1, <2>2, Order DEF PreExecute, AfterPre, Before, To
  <2>3. CASE k = 2
    BY <1>4, <2>1, <2>3, Order DEF PreExecute, AfterPre, Before, To
  <2>4. CASE k = 3
    BY <1>4, <2>1, <2>4, Order DEF PreExecute, AfterPre, Before, To
  <2>5. QED
    BY <2>1, <2>2, <2>3, <2>4
<1>5. CASE OnError(m)
  <2>1. k \in 1 .. 3 /\ stage[m] = At("on_error", k) /\ stage' = [stage EXCEPT ![m] = AfterError(k)]
    BY <1>5, StageOf DEF OnError, StateTypes
  <2>2. CASE k = 1
    BY <1>5, <2>1, <2>2, Order DEF OnError, AfterError, AfterRaise, To
  <2>3. CASE k = 2
    BY <1>5, <2>1, <2>3, Order DEF OnError, AfterError, AfterRaise, To
  <2>4. CASE k = 3
    BY <1>5, <2>1, <2>4, Order DEF OnError, AfterError, AfterRaise, To
  <2>5. QED
    BY <2>1, <2>2, <2>3, <2>4
<1>6. CASE PostExecute(m)
  <2>1. k \in 1 .. 3 /\ stage[m] = At("post_execute", k) /\ stage' = [stage EXCEPT ![m] = AfterPost(k)]
    BY <1>6, StageOf DEF PostExecute, StateTypes
  <2>2. CASE k = 1
    BY <1>6, <2>1, <2>2, Order DEF PostExecute, AfterPost, After, To
  <2>3. CASE k = 2
    BY <1>6, <2>1, <2>3, Order DEF PostExecute, AfterPost, After, To
  <2>4. CASE k = 3
    BY <1>6, <2>1, <2>4, Order DEF PostExecute, AfterPost, After, To
  <2>5. QED
    BY <2>1, <2>2, <2>3, <2>4
<1>7. QED
  BY <1>1, <1>2, <1>4, <1>5, <1>6 DEF Handles

-----------------------------------------------------------------------------
(* Types *)

LEMMA CounterTypes ==
  ASSUME NEW c \in [TaskName -> Int], NEW m \in Message
  PROVE  /\ Plus(c, m) \in [TaskName -> Int]
         /\ Minus(c, m) \in [TaskName -> Int]
         /\ Plus(c, m)[task_name(m)] = c[task_name(m)] + 1
         /\ Minus(c, m)[task_name(m)] = c[task_name(m)] - 1
         /\ \A n \in TaskName \ {task_name(m)} : Plus(c, m)[n] = c[n] /\ Minus(c, m)[n] = c[n]
BY DEF Plus, Minus, TaskName

LEMMA LineTypes ==
  ASSUME StateTypes, NEW m \in Message, NEW e \in Event
  PROVE  /\ Logged(m, e) \in [Message -> Seq(Line)]
         /\ Logged(m, e)[m] = Append(lines[m], [event |-> e, job_id |-> ctx[m]])
         /\ \A q \in Message \ {m} : Logged(m, e)[q] = lines[q]
<1> DEFINE line == [event |-> e, job_id |-> ctx[m]]
<1>1. line \in Line
  BY DEF StateTypes, Line
<1>2. lines \in [Message -> Seq(Line)]
  BY DEF StateTypes
<1>3. Logged(m, e) = [lines EXCEPT ![m] = Append(lines[m], line)]
  BY <1>2 DEF Logged
<1> HIDE DEF line
<1>4. Append(lines[m], line) \in Seq(Line)
  BY <1>1, <1>2
<1>5. QED
  BY <1>2, <1>3, <1>4 DEF line

LEMMA HookStages ==
  /\ At("pre_execute", 1) \in Stage /\ At("pre_execute", 2) \in Stage /\ At("pre_execute", 3) \in Stage
  /\ At("on_error", 1) \in Stage /\ At("on_error", 2) \in Stage /\ At("on_error", 3) \in Stage
  /\ At("post_execute", 1) \in Stage /\ At("post_execute", 2) \in Stage
  /\ At("post_execute", 3) \in Stage
  /\ At("queued", 0) \in Stage /\ At("task", 0) \in Stage /\ At("acknowledged", 0) \in Stage
BY Order DEF Stage, At

MetricTypes ==
  /\ started \in [TaskName -> Int] /\ completed \in [TaskName -> Int]
  /\ failed \in [TaskName -> Int] /\ in_progress \in [TaskName -> Int]
  /\ observed \in [TaskName -> Int]

LEMMA MetricTypesNext ==
  ASSUME MetricTypes, NEW m \in Message,
         \/ UNCHANGED metrics
         \/ metrics_pre_execute(m)
         \/ metrics_on_error(m)
         \/ metrics_post_execute(m)
  PROVE  MetricTypes'
<1>1. CASE UNCHANGED metrics
  BY <1>1 DEF metrics, MetricTypes
<1>2. CASE metrics_pre_execute(m)
  BY <1>2, CounterTypes DEF metrics_pre_execute, MetricTypes
<1>3. CASE metrics_on_error(m)
  BY <1>3, CounterTypes DEF metrics_on_error, MetricTypes
<1>4. CASE metrics_post_execute(m)
  BY <1>4, CounterTypes DEF metrics_post_execute, metrics, MetricTypes
<1>5. QED
  BY <1>1, <1>2, <1>3, <1>4

LEMMA TypesNext ==
  ASSUME StateTypes, [Next]_vars
  PROVE  StateTypes'
<1>1. CASE UNCHANGED vars
  BY <1>1 DEF vars, metrics, StateTypes
<1>2. CASE Crash
  <2>1. stage' \in [Message -> Stage]
    BY <1>2, HookStages DEF Crash, StateTypes
  <2>2. QED
    BY <1>2, <2>1, ConstantsAssumption DEF Crash, StateTypes, Zero
<1>3. ASSUME NEW m \in Message, Handles(m) PROVE StateTypes'
  <2>1. Before(m) \/ Runs(m) \/ AfterRaise(m) \/ After(m)
    BY <1>3, HandlesSteps
  <2>2. stage' \in [Message -> Stage]
    BY <2>1, HookStages DEF Before, Runs, AfterRaise, After, To, StateTypes
  <2>3. is_err' \in [Message -> BOOLEAN] /\ crashes' = crashes
    BY <2>1 DEF Before, Runs, AfterRaise, After, StateTypes
  <2>4. ctx' \in [Message -> {none} \cup {job_id(q) : q \in Message}]
    <3>1. ctx' = ctx \/ ctx' = set_job_context(m) \/ ctx' = clear_job_context(m)
      BY <2>1 DEF Before, Runs, AfterRaise, After
    <3>2. ctx \in [Message -> {none} \cup {job_id(q) : q \in Message}]
      BY DEF StateTypes
    <3>3. QED
      BY <3>1, <3>2 DEF set_job_context, clear_job_context
  <2>5. lines' \in [Message -> Seq(Line)]
    <3>1. lines' = lines \/ \E e \in Event : lines' = Logged(m, e)
      BY <2>1 DEF Before, Runs, AfterRaise, After, logging_post_execute, Event
    <3>2. lines \in [Message -> Seq(Line)]
      BY DEF StateTypes
    <3>3. \A e \in Event : Logged(m, e) \in [Message -> Seq(Line)]
      BY LineTypes
    <3>4. QED
      BY <3>1, <3>2, <3>3
  <2>6. MetricTypes'
    <3>1. \/ UNCHANGED metrics \/ metrics_pre_execute(m)
          \/ metrics_on_error(m) \/ metrics_post_execute(m)
      BY <2>1 DEF Before, Runs, AfterRaise, After
    <3>2. QED
      BY <3>1, MetricTypesNext DEF StateTypes, MetricTypes
  <2>7. QED
    BY <2>2, <2>3, <2>4, <2>5, <2>6 DEF StateTypes, MetricTypes
<1>4. QED
  BY <1>1, <1>2, <1>3 DEF Next

-----------------------------------------------------------------------------
(* Lines *)

MessagesInv == \A m \in Message : MessageInv(m) /\ LinesInv(m)

LEMMA MessagesInit == Init => MessagesInv
BY DEF Init, MessagesInv, MessageInv, LinesInv, Carrying, Opened, Closed, At

(* A message whose own state is left alone. *)
LEMMA MessageSame ==
  ASSUME NEW q \in Message, MessageInv(q), LinesInv(q),
         stage'[q] = stage[q], is_err'[q] = is_err[q], ctx'[q] = ctx[q], lines'[q] = lines[q],
         crashes' = crashes
  PROVE  MessageInv(q)' /\ LinesInv(q)'
BY DEF MessageInv, LinesInv, Carrying, Opened, Closed, LastEvent

LEMMA MessageCrash ==
  ASSUME MessagesInv, StateTypes, Crash
  PROVE  MessagesInv'
<1>1. SUFFICES ASSUME NEW m \in Message PROVE MessageInv(m)' /\ LinesInv(m)'
  BY DEF MessagesInv
<1>2. /\ stage'[m].hook \in {"queued", "acknowledged"}
      /\ ctx'[m] = none /\ lines' = lines
      /\ crashes' # 0
  BY DEF Crash, StateTypes, At
<1>3. MessageInv(m)'
  BY <1>2 DEF MessageInv, Carrying, Opened, Closed
<1>4. LinesInv(m)'
  BY <1>2 DEF MessagesInv, LinesInv
<1>5. QED
  BY <1>3, <1>4

(* A line is appended while the context is set; an outcome after a start.    *)
LEMMA LineAppended ==
  ASSUME StateTypes, NEW m \in Message, LinesInv(m), NEW e \in Event,
         lines' = Logged(m, e), ctx[m] = job_id(m),
         e # "task_started" => LastEvent(m, "task_started")
  PROVE  LinesInv(m)' /\ LastEvent(m, e)'
<1> DEFINE line == [event |-> e, job_id |-> ctx[m]]
<1>1. lines'[m] = Append(lines[m], line) /\ lines[m] \in Seq(Line)
  BY LineTypes DEF StateTypes
<1>2. /\ Len(lines'[m]) = Len(lines[m]) + 1 /\ Len(lines[m]) \in Nat
      /\ DOMAIN lines[m] = 1 .. Len(lines[m]) /\ DOMAIN lines'[m] = 1 .. Len(lines'[m])
      /\ lines'[m][Len(lines[m]) + 1] = line
      /\ \A i \in 1 .. Len(lines[m]) : lines'[m][i] = lines[m][i]
  BY <1>1
<1>3. LastEvent(m, e)'
  BY <1>1, <1>2 DEF LastEvent
<1>4. ASSUME NEW i \in DOMAIN lines'[m]
      PROVE  /\ lines'[m][i].job_id = job_id(m)
             /\ Outcome(lines'[m][i]) => i > 1 /\ ~ Outcome(lines'[m][i - 1])
  <2>1. CASE i \in 1 .. Len(lines[m])
    <3>1. Outcome(lines[m][i]) => i > 1 /\ ~ Outcome(lines[m][i - 1])
      BY <1>2, <2>1 DEF LinesInv
    <3>2. i > 1 => lines'[m][i - 1] = lines[m][i - 1]
      BY <1>2, <2>1
    <3>3. QED
      BY <1>2, <2>1, <3>1, <3>2 DEF LinesInv
  <2>2. CASE i = Len(lines[m]) + 1
    <3>1. lines'[m][i] = line
      BY <1>2, <2>2
    <3>2. Outcome(line) => e # "task_started"
      BY DEF Outcome
    <3>3. e # "task_started" => /\ Len(lines[m]) > 0
                                /\ lines[m][Len(lines[m])].event = "task_started"
      BY <1>1, <1>2 DEF LastEvent
    <3>4. Len(lines[m]) > 0 => lines'[m][i - 1] = lines[m][Len(lines[m])]
      BY <1>2, <2>2
    <3>5. QED
      BY <1>2, <2>2, <3>1, <3>2, <3>3, <3>4 DEF Outcome
  <2>3. QED
    BY <1>2, <1>4, <2>1, <2>2
<1>5. QED
  BY <1>3, <1>4 DEF LinesInv

LEMMA OthersAreLeft ==
  ASSUME StateTypes, NEW m \in Message, Before(m) \/ Runs(m) \/ AfterRaise(m) \/ After(m),
         NEW q \in Message \ {m}
  PROVE  /\ stage'[q] = stage[q] /\ is_err'[q] = is_err[q]
         /\ ctx'[q] = ctx[q] /\ lines'[q] = lines[q] /\ crashes' = crashes
<1>1. stage'[q] = stage[q] /\ is_err'[q] = is_err[q] /\ crashes' = crashes
  BY DEF Before, Runs, AfterRaise, After, To, StateTypes
<1>2. ctx'[q] = ctx[q]
  <2>1. ctx' = ctx \/ ctx' = set_job_context(m) \/ ctx' = clear_job_context(m)
    BY DEF Before, Runs, AfterRaise, After
  <2>2. ctx \in [Message -> {none} \cup {job_id(p) : p \in Message}]
    BY DEF StateTypes
  <2>3. QED
    BY <2>1, <2>2 DEF set_job_context, clear_job_context
<1>3. lines'[q] = lines[q]
  <2>1. lines' = lines \/ \E e \in Event : lines' = Logged(m, e)
    BY DEF Before, Runs, AfterRaise, After, logging_post_execute, Event
  <2>2. \A e \in Event : Logged(m, e)[q] = lines[q]
    BY LineTypes
  <2>3. QED
    BY <2>1, <2>2
<1>4. QED
  BY <1>1, <1>2, <1>3

LEMMA LinesSame ==
  ASSUME NEW m \in Message, UNCHANGED lines
  PROVE  /\ LinesInv(m) => LinesInv(m)'
         /\ \A e \in Event : LastEvent(m, e) => LastEvent(m, e)'
BY DEF LinesInv, LastEvent

(* The message whose step it is.                                             *)
LEMMA StageNext ==
  ASSUME StateTypes, NEW m \in Message, NEW h, NEW k, To(m, h, k)
  PROVE  stage'[m].hook = h /\ stage'[m].position = k
BY DEF StateTypes, To, At

LEMMA ContextNext ==
  ASSUME StateTypes, NEW m \in Message
  PROVE  /\ ctx[m] = none => set_job_context(m)[m] = job_id(m)
         /\ clear_job_context(m)[m] = none
BY DEF StateTypes, set_job_context, clear_job_context

LEMMA BeforeKeeps ==
  ASSUME StateTypes, NEW m \in Message, MessageInv(m), LinesInv(m), Before(m)
  PROVE  MessageInv(m)' /\ LinesInv(m)'
<1>0. is_err'[m] = is_err[m] /\ crashes' = crashes
  BY DEF Before
<1>1. CASE /\ stage[m] = At("queued", 0) /\ To(m, "pre_execute", 1)
           /\ UNCHANGED <<ctx, lines, metrics>>
  <2>1. /\ stage[m].hook = "queued" /\ stage[m].position = 0
        /\ stage'[m].hook = "pre_execute" /\ stage'[m].position = 1
    BY <1>1, StageNext DEF At
  <2>2. QED
    BY <1>0, <1>1, <2>1, LinesSame
      DEF MessageInv, Carrying, Opened, Closed, Event
<1>2. CASE /\ stage[m] = At("pre_execute", 1) /\ To(m, "pre_execute", 2)
           /\ ctx' = set_job_context(m) /\ UNCHANGED <<lines, metrics>>
  <2>1. /\ stage[m].hook = "pre_execute" /\ stage[m].position = 1
        /\ stage'[m].hook = "pre_execute" /\ stage'[m].position = 2
    BY <1>2, StageNext DEF At
  <2>2. ctx'[m] = job_id(m)
    BY <1>2, <2>1, ContextNext DEF MessageInv, Carrying
  <2>3. QED
    BY <1>0, <1>2, <2>1, <2>2, LinesSame
      DEF MessageInv, Carrying, Opened, Closed, Event
<1>3. CASE /\ stage[m] = At("pre_execute", 2) /\ To(m, "pre_execute", 3)
           /\ lines' = Logged(m, "task_started") /\ UNCHANGED <<ctx, metrics>>
  <2>0. /\ stage[m].hook = "pre_execute" /\ stage[m].position = 2
        /\ stage'[m].hook = "pre_execute" /\ stage'[m].position = 3
    BY <1>3, StageNext DEF At
  <2>1. ctx[m] = job_id(m)
    BY <2>0 DEF MessageInv, Carrying
  <2>2. LinesInv(m)' /\ LastEvent(m, "task_started")'
    BY <1>3, <2>1, LineAppended DEF Event
  <2>3. QED
    BY <1>0, <1>3, <2>0, <2>1, <2>2 DEF MessageInv, Carrying, Opened, Closed
<1>4. CASE /\ stage[m] = At("pre_execute", 3) /\ To(m, "task", 0)
           /\ metrics_pre_execute(m) /\ UNCHANGED <<ctx, lines>>
  <2>1. /\ stage[m].hook = "pre_execute" /\ stage[m].position = 3
        /\ stage'[m].hook = "task" /\ stage'[m].position = 0
    BY <1>4, StageNext DEF At
  <2>2. QED
    BY <1>0, <1>4, <2>1, LinesSame
      DEF MessageInv, Carrying, Opened, Closed, Event
<1>5. QED
  BY <1>1, <1>2, <1>3, <1>4 DEF Before

LEMMA RunsKeeps ==
  ASSUME StateTypes, NEW m \in Message, MessageInv(m), LinesInv(m), Runs(m)
  PROVE  MessageInv(m)' /\ LinesInv(m)'
<1>1. PICK raised \in BOOLEAN :
         /\ is_err' = [is_err EXCEPT ![m] = raised]
         /\ To(m, IF raised THEN "on_error" ELSE "post_execute", 3)
  BY DEF Runs
<1>2. /\ is_err'[m] = raised
      /\ stage'[m].hook = IF raised THEN "on_error" ELSE "post_execute"
      /\ stage'[m].position = 3
  BY <1>1, StageNext DEF StateTypes
<1>3. ctx' = ctx /\ lines' = lines /\ stage[m].hook = "task"
  BY DEF Runs, At
<1>4. QED
  BY <1>2, <1>3, LinesSame DEF MessageInv, Carrying, Opened, Closed, Event

LEMMA AfterRaiseKeeps ==
  ASSUME StateTypes, NEW m \in Message, MessageInv(m), LinesInv(m), AfterRaise(m)
  PROVE  MessageInv(m)' /\ LinesInv(m)'
<1>0. is_err'[m] = is_err[m] /\ crashes' = crashes
  BY DEF AfterRaise
<1>1. CASE /\ stage[m] = At("on_error", 3) /\ To(m, "on_error", 2)
           /\ metrics_on_error(m) /\ UNCHANGED <<ctx, lines>>
  <2>1. /\ stage[m].hook = "on_error" /\ stage[m].position = 3
        /\ stage'[m].hook = "on_error" /\ stage'[m].position = 2
    BY <1>1, StageNext DEF At
  <2>2. QED
    BY <1>0, <1>1, <2>1, LinesSame
      DEF MessageInv, Carrying, Opened, Closed, Event
<1>2. CASE /\ stage[m] = At("on_error", 2) /\ To(m, "on_error", 1)
           /\ lines' = Logged(m, "task_exception") /\ UNCHANGED <<ctx, metrics>>
  <2>0. /\ stage[m].hook = "on_error" /\ stage[m].position = 2
        /\ stage'[m].hook = "on_error" /\ stage'[m].position = 1
    BY <1>2, StageNext DEF At
  <2>1. ctx[m] = job_id(m) /\ LastEvent(m, "task_started") /\ is_err[m]
    BY <2>0 DEF MessageInv, Carrying, Opened
  <2>2. LinesInv(m)' /\ LastEvent(m, "task_exception")'
    BY <1>2, <2>1, LineAppended DEF Event
  <2>3. QED
    BY <1>0, <1>2, <2>0, <2>1, <2>2 DEF MessageInv, Carrying, Opened, Closed
<1>3. CASE /\ stage[m] = At("on_error", 1) /\ To(m, "post_execute", 3)
           /\ ctx' = clear_job_context(m) /\ UNCHANGED <<lines, metrics>>
  <2>1. /\ stage[m].hook = "on_error" /\ stage[m].position = 1
        /\ stage'[m].hook = "post_execute" /\ stage'[m].position = 3
    BY <1>3, StageNext DEF At
  <2>2. ctx'[m] = none
    BY <1>3, <2>1, ContextNext DEF MessageInv, Carrying
  <2>3. QED
    BY <1>0, <1>3, <2>1, <2>2, LinesSame
      DEF MessageInv, Carrying, Opened, Closed, Event
<1>4. QED
  BY <1>1, <1>2, <1>3 DEF AfterRaise

LEMMA AfterKeeps ==
  ASSUME StateTypes, NEW m \in Message, MessageInv(m), LinesInv(m), After(m)
  PROVE  MessageInv(m)' /\ LinesInv(m)'
<1>0. is_err'[m] = is_err[m] /\ crashes' = crashes
  BY DEF After
<1>1. CASE /\ stage[m] = At("post_execute", 3) /\ To(m, "post_execute", 2)
           /\ metrics_post_execute(m) /\ UNCHANGED <<ctx, lines>>
  <2>1. /\ stage[m].hook = "post_execute" /\ stage[m].position = 3
        /\ stage'[m].hook = "post_execute" /\ stage'[m].position = 2
    BY <1>1, StageNext DEF At
  <2>2. QED
    BY <1>0, <1>1, <2>1, LinesSame
      DEF MessageInv, Carrying, Opened, Closed, Event
<1>2. CASE /\ stage[m] = At("post_execute", 2) /\ To(m, "post_execute", 1)
           /\ lines' = logging_post_execute(m) /\ UNCHANGED <<ctx, metrics>>
  <2>0. /\ stage[m].hook = "post_execute" /\ stage[m].position = 2
        /\ stage'[m].hook = "post_execute" /\ stage'[m].position = 1
    BY <1>2, StageNext DEF At
  <2>1. CASE is_err[m]
    <3>1. lines' = lines /\ ctx' = ctx
      BY <1>2, <2>1 DEF logging_post_execute
    <3>2. QED
      BY <1>0, <2>0, <2>1, <3>1, LinesSame DEF MessageInv, Carrying, Opened, Closed, Event
  <2>2. CASE ~ is_err[m]
    <3>1. ctx[m] = job_id(m) /\ LastEvent(m, "task_started")
      BY <2>0, <2>2 DEF MessageInv, Carrying, Opened
    <3>2. lines' = Logged(m, "task_completed")
      BY <1>2, <2>2 DEF logging_post_execute
    <3>3. LinesInv(m)' /\ LastEvent(m, "task_completed")'
      BY <3>1, <3>2, LineAppended DEF Event
    <3>4. QED
      BY <1>0, <1>2, <2>0, <2>2, <3>1, <3>3 DEF MessageInv, Carrying, Opened, Closed
  <2>3. QED
    BY <2>1, <2>2
<1>3. CASE /\ stage[m] = At("post_execute", 1) /\ To(m, "acknowledged", 0)
           /\ ctx' = clear_job_context(m) /\ UNCHANGED <<lines, metrics>>
  <2>1. /\ stage[m].hook = "post_execute" /\ stage[m].position = 1
        /\ stage'[m].hook = "acknowledged" /\ stage'[m].position = 0
    BY <1>3, StageNext DEF At
  <2>2. ctx'[m] = none
    BY <1>3, <2>1, ContextNext DEF MessageInv, Carrying
  <2>3. QED
    BY <1>0, <1>3, <2>1, <2>2, LinesSame
      DEF MessageInv, Carrying, Opened, Closed, Event
<1>4. QED
  BY <1>1, <1>2, <1>3 DEF After

LEMMA MessagesNext ==
  ASSUME StateTypes, MessagesInv, [Next]_vars
  PROVE  MessagesInv'
<1>1. CASE UNCHANGED vars
  BY <1>1, MessageSame DEF vars, MessagesInv
<1>2. CASE Crash
  BY <1>2, MessageCrash
<1>3. ASSUME NEW m \in Message, Handles(m) PROVE MessagesInv'
  <2>1. Before(m) \/ Runs(m) \/ AfterRaise(m) \/ After(m)
    BY <1>3, HandlesSteps
  <2>2. MessageInv(m) /\ LinesInv(m)
    BY DEF MessagesInv
  <2>3. MessageInv(m)' /\ LinesInv(m)'
    BY <2>1, <2>2, BeforeKeeps, RunsKeeps, AfterRaiseKeeps, AfterKeeps
  <2>4. ASSUME NEW q \in Message \ {m} PROVE MessageInv(q)' /\ LinesInv(q)'
    <3>1. MessageInv(q) /\ LinesInv(q)
      BY DEF MessagesInv
    <3>2. /\ stage'[q] = stage[q] /\ is_err'[q] = is_err[q]
          /\ ctx'[q] = ctx[q] /\ lines'[q] = lines[q] /\ crashes' = crashes
      BY <2>1, OthersAreLeft
    <3>3. QED
      BY <3>1, <3>2, MessageSame
  <2>5. QED
    BY <2>3, <2>4 DEF MessagesInv
<1>4. QED
  BY <1>1, <1>2, <1>3 DEF Next

-----------------------------------------------------------------------------
(* Metrics *)

InHand(n) == {m \in Message : task_name(m) = n /\ Counted(m)}

Adds(n) ==
  /\ in_progress[n] = Cardinality(InHand(n))
  /\ started[n] = in_progress[n] + completed[n] + failed[n]
  /\ observed[n] = completed[n] + failed[n]

GaugesAddUp == \A n \in TaskName : Adds(n)

LEMMA AddUp == StateTypes => (MetricsAddUp <=> GaugesAddUp)
<1> SUFFICES ASSUME StateTypes PROVE MetricsAddUp <=> GaugesAddUp
  OBVIOUS
<1>1. \A n : {m \in Message : task_name(m) = n /\ Entered(m)} = InHand(n)
  BY EnteredIs DEF InHand
<1>2. QED
  BY <1>1 DEF MetricsAddUp, GaugesAddUp, Adds

LEMMA AddUpNext == StateTypes' => (MetricsAddUp' <=> GaugesAddUp')
BY AddUp, PTL

LEMMA InHandFinite ==
  ASSUME NEW n PROVE IsFiniteSet(InHand(n)) /\ Cardinality(InHand(n)) \in 0 .. Cardinality(Message)
<1>1. InHand(n) \subseteq Message /\ IsFiniteSet(Message)
  BY ConstantsAssumption DEF InHand
<1>2. QED
  BY <1>1, FS_Subset, FS_CardinalityType

(* The step of message m moves the gauge with the messages it counts.        *)
Enters(m) ==
  /\ ~ Counted(m) /\ Counted(m)'
  /\ started' = Plus(started, m) /\ in_progress' = Plus(in_progress, m)
  /\ UNCHANGED <<completed, failed, observed>>

Leaves(m) ==
  /\ Counted(m) /\ ~ Counted(m)'
  /\ in_progress' = Minus(in_progress, m) /\ observed' = Plus(observed, m)
  /\ \/ completed' = Plus(completed, m) /\ failed' = failed
     \/ failed' = Plus(failed, m) /\ completed' = completed
  /\ started' = started

Stays(m) == (Counted(m)' <=> Counted(m)) /\ UNCHANGED metrics

LEMMA BeforeGauge ==
  ASSUME StateTypes, NEW m \in Message, Before(m)
  PROVE  Enters(m) \/ Stays(m)
<1>1. CASE /\ stage[m] = At("queued", 0) /\ To(m, "pre_execute", 1)
           /\ UNCHANGED <<ctx, lines, metrics>>
  <2>1. stage[m].hook = "queued" /\ stage'[m].hook = "pre_execute"
    BY <1>1, StageNext DEF At
  <2>2. QED
    BY <1>1, <2>1 DEF Counted, Stays
<1>2. CASE /\ stage[m] = At("pre_execute", 1) /\ To(m, "pre_execute", 2)
           /\ ctx' = set_job_context(m) /\ UNCHANGED <<lines, metrics>>
  <2>1. stage[m].hook = "pre_execute" /\ stage'[m].hook = "pre_execute"
    BY <1>2, StageNext DEF At
  <2>2. QED
    BY <1>2, <2>1 DEF Counted, Stays
<1>3. CASE /\ stage[m] = At("pre_execute", 2) /\ To(m, "pre_execute", 3)
           /\ lines' = Logged(m, "task_started") /\ UNCHANGED <<ctx, metrics>>
  <2>1. stage[m].hook = "pre_execute" /\ stage'[m].hook = "pre_execute"
    BY <1>3, StageNext DEF At
  <2>2. QED
    BY <1>3, <2>1 DEF Counted, Stays
<1>4. CASE /\ stage[m] = At("pre_execute", 3) /\ To(m, "task", 0)
           /\ metrics_pre_execute(m) /\ UNCHANGED <<ctx, lines>>
  <2>1. stage[m].hook = "pre_execute" /\ stage'[m].hook = "task"
    BY <1>4, StageNext DEF At
  <2>2. QED
    BY <1>4, <2>1 DEF Counted, Enters, metrics_pre_execute
<1>5. QED
  BY <1>1, <1>2, <1>3, <1>4 DEF Before

LEMMA RunsGauge ==
  ASSUME StateTypes, NEW m \in Message, Runs(m)
  PROVE  Stays(m)
<1>1. PICK raised \in BOOLEAN :
         /\ is_err' = [is_err EXCEPT ![m] = raised]
         /\ To(m, IF raised THEN "on_error" ELSE "post_execute", 3)
  BY DEF Runs
<1>2. /\ is_err'[m] = raised
      /\ stage'[m].hook = IF raised THEN "on_error" ELSE "post_execute"
      /\ stage'[m].position = 3
  BY <1>1, StageNext DEF StateTypes
<1>3. stage[m].hook = "task" /\ UNCHANGED metrics
  BY DEF Runs, At
<1>4. QED
  BY <1>2, <1>3 DEF Counted, Stays

LEMMA AfterRaiseGauge ==
  ASSUME StateTypes, NEW m \in Message, MessageInv(m), AfterRaise(m)
  PROVE  Leaves(m) \/ Stays(m)
<1>0. is_err'[m] = is_err[m]
  BY DEF AfterRaise
<1>1. CASE /\ stage[m] = At("on_error", 3) /\ To(m, "on_error", 2)
           /\ metrics_on_error(m) /\ UNCHANGED <<ctx, lines>>
  <2>1. /\ stage[m].hook = "on_error" /\ stage[m].position = 3
        /\ stage'[m].hook = "on_error" /\ stage'[m].position = 2
    BY <1>1, StageNext DEF At
  <2>2. QED
    BY <1>1, <2>1 DEF Counted, Leaves, metrics_on_error
<1>2. CASE /\ stage[m] = At("on_error", 2) /\ To(m, "on_error", 1)
           /\ lines' = Logged(m, "task_exception") /\ UNCHANGED <<ctx, metrics>>
  <2>1. /\ stage[m].hook = "on_error" /\ stage[m].position = 2
        /\ stage'[m].hook = "on_error" /\ stage'[m].position = 1
    BY <1>2, StageNext DEF At
  <2>2. QED
    BY <1>2, <2>1 DEF Counted, Stays
<1>3. CASE /\ stage[m] = At("on_error", 1) /\ To(m, "post_execute", 3)
           /\ ctx' = clear_job_context(m) /\ UNCHANGED <<lines, metrics>>
  <2>1. /\ stage[m].hook = "on_error" /\ stage[m].position = 1
        /\ stage'[m].hook = "post_execute" /\ is_err[m]
    BY <1>3, StageNext DEF At, MessageInv
  <2>2. QED
    BY <1>0, <1>3, <2>1 DEF Counted, Stays
<1>4. QED
  BY <1>1, <1>2, <1>3 DEF AfterRaise

LEMMA AfterGauge ==
  ASSUME StateTypes, NEW m \in Message, After(m)
  PROVE  Leaves(m) \/ Stays(m)
<1>0. is_err'[m] = is_err[m]
  BY DEF After
<1>1. CASE /\ stage[m] = At("post_execute", 3) /\ To(m, "post_execute", 2)
           /\ metrics_post_execute(m) /\ UNCHANGED <<ctx, lines>>
  <2>1. /\ stage[m].hook = "post_execute" /\ stage[m].position = 3
        /\ stage'[m].hook = "post_execute" /\ stage'[m].position = 2
    BY <1>1, StageNext DEF At
  <2>2. CASE is_err[m]
    BY <1>0, <1>1, <2>1, <2>2 DEF Counted, Stays, metrics_post_execute
  <2>3. CASE ~ is_err[m]
    BY <1>1, <2>1, <2>3 DEF Counted, Leaves, metrics_post_execute
  <2>4. QED
    BY <2>2, <2>3
<1>2. CASE /\ stage[m] = At("post_execute", 2) /\ To(m, "post_execute", 1)
           /\ lines' = logging_post_execute(m) /\ UNCHANGED <<ctx, metrics>>
  <2>1. /\ stage[m].hook = "post_execute" /\ stage[m].position = 2
        /\ stage'[m].hook = "post_execute" /\ stage'[m].position = 1
    BY <1>2, StageNext DEF At
  <2>2. QED
    BY <1>2, <2>1 DEF Counted, Stays
<1>3. CASE /\ stage[m] = At("post_execute", 1) /\ To(m, "acknowledged", 0)
           /\ ctx' = clear_job_context(m) /\ UNCHANGED <<lines, metrics>>
  <2>1. /\ stage[m].hook = "post_execute" /\ stage[m].position = 1
        /\ stage'[m].hook = "acknowledged"
    BY <1>3, StageNext DEF At
  <2>2. QED
    BY <1>3, <2>1 DEF Counted, Stays
<1>4. QED
  BY <1>1, <1>2, <1>3 DEF After

LEMMA GaugeMoves ==
  ASSUME StateTypes, NEW m \in Message, Enters(m) \/ Leaves(m) \/ Stays(m),
         \A q \in Message \ {m} : Counted(q)' <=> Counted(q),
         NEW n \in TaskName, Adds(n)
  PROVE  Adds(n)'
<1> DEFINE card == Cardinality(InHand(n))
<1>1. IsFiniteSet(InHand(n)) /\ card \in Nat
  BY InHandFinite, FS_CardinalityType
<1>2. MetricTypes
  BY DEF StateTypes, MetricTypes
<1>3. /\ in_progress[n] = card /\ in_progress[n] \in Int /\ started[n] \in Int
      /\ completed[n] \in Int /\ failed[n] \in Int /\ observed[n] \in Int
      /\ started[n] = in_progress[n] + completed[n] + failed[n]
      /\ observed[n] = completed[n] + failed[n]
  BY <1>2 DEF Adds, MetricTypes
<1>4. CASE n # task_name(m)
  <2>1. InHand(n)' = InHand(n)
    BY <1>4 DEF InHand
  <2>2. \A c \in [TaskName -> Int] : Plus(c, m)[n] = c[n] /\ Minus(c, m)[n] = c[n]
    BY <1>4, CounterTypes
  <2>3. /\ in_progress'[n] = in_progress[n] /\ started'[n] = started[n]
        /\ completed'[n] = completed[n] /\ failed'[n] = failed[n] /\ observed'[n] = observed[n]
    BY <1>2, <2>2 DEF Enters, Leaves, Stays, metrics, MetricTypes
  <2>4. QED
    BY <1>3, <2>1, <2>3 DEF Adds
<1>5. CASE n = task_name(m)
  <2>1. \A c \in [TaskName -> Int] : Plus(c, m)[n] = c[n] + 1 /\ Minus(c, m)[n] = c[n] - 1
    BY <1>5, CounterTypes
  <2>2. CASE Enters(m)
    <3>1. InHand(n)' = InHand(n) \cup {m} /\ m \notin InHand(n)
      BY <1>5, <2>2 DEF InHand, Enters
    <3>2. Cardinality(InHand(n)') = card + 1
      BY <1>1, <3>1, FS_AddElement
    <3>3. /\ in_progress'[n] = in_progress[n] + 1 /\ started'[n] = started[n] + 1
          /\ completed'[n] = completed[n] /\ failed'[n] = failed[n] /\ observed'[n] = observed[n]
      BY <1>2, <2>1, <2>2 DEF Enters, MetricTypes
    <3>4. QED
      BY <1>1, <1>3, <3>2, <3>3 DEF Adds
  <2>3. CASE Leaves(m)
    <3>1. InHand(n)' = InHand(n) \ {m} /\ m \in InHand(n)
      BY <1>5, <2>3 DEF InHand, Leaves
    <3>2. Cardinality(InHand(n)') = card - 1
      BY <1>1, <3>1, FS_RemoveElement
    <3>3. /\ in_progress'[n] = in_progress[n] - 1 /\ started'[n] = started[n]
          /\ observed'[n] = observed[n] + 1
          /\ \/ completed'[n] = completed[n] + 1 /\ failed'[n] = failed[n]
             \/ failed'[n] = failed[n] + 1 /\ completed'[n] = completed[n]
      BY <1>2, <2>1, <2>3 DEF Leaves, MetricTypes
    <3>4. QED
      BY <1>1, <1>3, <3>2, <3>3 DEF Adds
  <2>4. CASE Stays(m)
    <3>1. InHand(n)' = InHand(n)
      BY <2>4 DEF InHand, Stays
    <3>2. QED
      BY <1>3, <2>4, <3>1 DEF Adds, Stays, metrics
  <2>5. QED
    BY <2>2, <2>3, <2>4
<1>6. QED
  BY <1>4, <1>5

LEMMA MetricsNext ==
  ASSUME StateTypes, StateTypes', MessagesInv, MetricsAddUp, [Next]_vars
  PROVE  MetricsAddUp'
<1>1. SUFFICES ASSUME NEW n \in TaskName PROVE Adds(n)'
  BY AddUpNext DEF GaugesAddUp
<1>2. Adds(n)
  BY AddUp DEF GaugesAddUp
<1>3. CASE UNCHANGED vars
  BY <1>2, <1>3 DEF vars, metrics, Adds, InHand, Counted
<1>4. CASE Crash
  <2>1. \A m \in Message : stage'[m].hook \in {"queued", "acknowledged"}
    BY <1>4 DEF Crash, StateTypes, At
  <2>2. InHand(n)' = {}
    BY <2>1 DEF InHand, Counted
  <2>3. Cardinality(InHand(n)') = 0
    BY <2>2, FS_EmptySet
  <2>4. QED
    BY <1>4, <2>3 DEF Crash, Zero, Adds
<1>5. ASSUME NEW m \in Message, Handles(m) PROVE Adds(n)'
  <2>1. Before(m) \/ Runs(m) \/ AfterRaise(m) \/ After(m)
    BY <1>5, HandlesSteps
  <2>2. Enters(m) \/ Leaves(m) \/ Stays(m)
    BY <2>1, BeforeGauge, RunsGauge, AfterRaiseGauge, AfterGauge DEF MessagesInv
  <2>3. \A q \in Message \ {m} : stage'[q] = stage[q] /\ is_err'[q] = is_err[q]
    BY <2>1, OthersAreLeft
  <2>4. \A q \in Message \ {m} : Counted(q)' <=> Counted(q)
    BY <2>3 DEF Counted
  <2>5. QED
    BY <1>2, <2>2, <2>4, GaugeMoves
<1>6. QED
  BY <1>3, <1>4, <1>5 DEF Next

-----------------------------------------------------------------------------
(* The invariant, and what it says.                                          *)

LEMMA InvInit == Init => IInv
<1> SUFFICES ASSUME Init PROVE IInv
  OBVIOUS
<1>1. StateTypes
  BY HookStages, ConstantsAssumption DEF Init, StateTypes, Zero
<1>2. ASSUME NEW n \in TaskName PROVE Adds(n)
  <2>1. InHand(n) = {}
    BY DEF Init, InHand, Counted, At
  <2>2. Cardinality(InHand(n)) = 0
    BY <2>1, FS_EmptySet
  <2>3. /\ in_progress[n] = 0 /\ started[n] = 0 /\ completed[n] = 0
        /\ failed[n] = 0 /\ observed[n] = 0
    BY DEF Init, Zero
  <2>4. QED
    BY <2>2, <2>3 DEF Adds
<1>3. MetricsAddUp
  BY <1>1, <1>2, AddUp DEF GaugesAddUp
<1>4. QED
  BY <1>1, <1>3, MessagesInit DEF IInv, MessagesInv

LEMMA InvNext == IInv /\ [Next]_vars => IInv'
<1> SUFFICES ASSUME IInv, [Next]_vars PROVE IInv'
  OBVIOUS
<1>1. StateTypes /\ MessagesInv /\ MetricsAddUp
  BY DEF IInv, MessagesInv
<1>2. StateTypes' /\ MessagesInv'
  BY <1>1, TypesNext, MessagesNext
<1>3. MetricsAddUp'
  BY <1>1, <1>2, MetricsNext
<1>4. QED
  BY <1>2, <1>3 DEF IInv, MessagesInv

LEMMA Invariance == Spec => []IInv
BY InvInit, InvNext, PTL DEF Spec

(* The variables have their types; the gauge of a task is never negative nor *)
(* above the number of messages.                                             *)
THEOREM TypesHold == Spec => []MiddlewareTypeOK
<1>1. IInv => MiddlewareTypeOK
  <2> SUFFICES ASSUME IInv PROVE MiddlewareTypeOK
    OBVIOUS
  <2>1. StateTypes /\ MessagesInv /\ MetricsAddUp
    BY DEF IInv, MessagesInv
  <2>2. \A m \in Message : ctx[m] \in {none, job_id(m)}
    BY <2>1 DEF MessagesInv, MessageInv
  <2>3. ASSUME NEW m \in Message, NEW i \in DOMAIN lines[m]
        PROVE  lines[m][i].event \in Event
    <3>1. lines[m] \in Seq(Line)
      BY <2>1 DEF StateTypes
    <3>2. lines[m][i] \in Line
      BY <2>3, <3>1
    <3>3. QED
      BY <3>2 DEF Line
  <2>4. ASSUME NEW n \in TaskName PROVE in_progress[n] \in 0 .. Cardinality(Message)
    BY <2>1, AddUp, InHandFinite DEF GaugesAddUp, Adds
  <2>5. QED
    BY <2>1, <2>2, <2>3, <2>4 DEF MiddlewareTypeOK, StateTypes, Event
<1>2. QED
  BY <1>1, Invariance, PTL

(* Each line of the log carries the job of its message, a line about the end *)
(* of a task follows the one about its start, and the last line about an     *)
(* acknowledged message tells whether its task raised.                       *)
THEOREM LogTells == Spec => []LogTellsEachTask
<1>1. IInv => LogTellsEachTask
  <2> SUFFICES ASSUME IInv PROVE LogTellsEachTask
    OBVIOUS
  <2>1. ASSUME NEW m \in Message, stage[m].hook = "acknowledged", crashes = 0
        PROVE  lines[m][Len(lines[m])].event
                 = IF is_err[m] THEN "task_exception" ELSE "task_completed"
    BY <2>1 DEF IInv, MessageInv, Closed, LastEvent
  <2>2. QED
    BY <2>1 DEF IInv, LinesInv, LogTellsEachTask, LinesCarryTheJob, OneOutcomeLine
<1>2. QED
  BY <1>1, Invariance, PTL

(* The gauge of a task is the number of its messages being executed, and the *)
(* counters account for each one that started in this process.               *)
THEOREM MetricsHold == Spec => []MetricsAddUp
<1>1. IInv => MetricsAddUp
  BY DEF IInv
<1>2. QED
  BY <1>1, Invariance, PTL

=============================================================================
