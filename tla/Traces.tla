------------------------------- MODULE Traces -------------------------------
(***************************************************************************)
(* The trace pipeline of telemetry.rs: a span around every tool call       *)
(* (mcp.rs), the batch processor that telemetry::init sets up behind it,   *)
(* and telemetry::shutdown, which asks the meter provider and then the     *)
(* tracer provider for what they still hold. The processor is the          *)
(* OpenTelemetry SDK's: a bounded queue and a thread that exports batches. *)
(***************************************************************************)
EXTENDS Integers

CONSTANTS
  MaxQueue,    \* spans the processor holds for its thread
  MaxBatch,    \* spans in one export
  MaxSpans     \* bound: spans begun in a behaviour

ASSUME TracesAssumption ==
  /\ MaxQueue \in Nat \ {0}
  /\ MaxBatch \in Nat \ {0}
  /\ MaxSpans \in Nat

VARIABLES
  phase,      \* main: "boot", "serving", "metrics", "traces" or "exited"
  tracer,     \* TRACER_PROVIDER: "none", or "sdk" once init has set it
  open,       \* tool calls inside their span
  ended,      \* history: spans that have ended
  queue,      \* ended spans that wait for the thread
  batch,      \* spans of the export under way
  sent,       \* spans the collector has taken
  lost,       \* spans of exports that failed
  dropped,    \* spans the processor has refused
  report      \* provider.shutdown(): "no", "asked", "ok", "failed" or "late"

spanVars == <<open, ended, queue, batch, sent, lost, dropped>>
vars == <<phase, tracer, spanVars, report>>

Init ==
  /\ phase = "boot"
  /\ tracer = "none"
  /\ open = 0 /\ ended = 0
  /\ queue = 0 /\ batch = 0
  /\ sent = 0 /\ lost = 0 /\ dropped = 0
  /\ report = "no"

\* init sets a tracer provider when there is an endpoint; main goes on to serve.
InitTracer ==
  /\ phase = "boot"
  /\ phase' = "serving"
  /\ tracer' \in {"none", "sdk"}
  /\ UNCHANGED <<spanVars, report>>

-----------------------------------------------------------------------------
(* The tool calls. Several workers of the runtime may be in one.           *)

EnterCall ==
  /\ phase = "serving"
  /\ open + ended < MaxSpans
  /\ open' = open + 1
  /\ UNCHANGED <<phase, tracer, ended, queue, batch, sent, lost, dropped, report>>

\* Mutant: off by one.
LeaveCallOneOver ==
  /\ open > 0
  /\ open' = open - 1
  /\ ended' = ended + 1
  /\ \/ tracer = "none" /\ UNCHANGED <<queue, dropped>>
     \/ /\ tracer = "sdk" /\ report = "no" /\ queue <= MaxQueue
        /\ queue' = queue + 1 /\ UNCHANGED dropped
     \/ /\ tracer = "sdk" /\ (report # "no" \/ queue > MaxQueue)
        /\ dropped' = dropped + 1 /\ UNCHANGED queue
  /\ UNCHANGED <<phase, tracer, batch, sent, lost, report>>

\* The span ends when the call returns. The caller never waits for the queue: a
\* span that finds it full, or comes after the shutdown, is dropped.
LeaveCall ==
  /\ open > 0
  /\ open' = open - 1
  /\ ended' = ended + 1
  /\ \/ tracer = "none" /\ UNCHANGED <<queue, dropped>>
     \/ /\ tracer = "sdk" /\ report = "no" /\ queue < MaxQueue
        /\ queue' = queue + 1 /\ UNCHANGED dropped
     \/ /\ tracer = "sdk" /\ (report # "no" \/ queue >= MaxQueue)
        /\ dropped' = dropped + 1 /\ UNCHANGED queue
  /\ UNCHANGED <<phase, tracer, batch, sent, lost, report>>

-----------------------------------------------------------------------------
(* The processor's thread. It has ended once it has reported.              *)

Exporting == phase # "exited" /\ tracer = "sdk" /\ report \in {"no", "asked", "late"}

TakeBatch ==
  /\ Exporting
  /\ batch = 0
  /\ queue > 0
  /\ batch' = IF queue < MaxBatch THEN queue ELSE MaxBatch
  /\ queue' = queue - batch'
  /\ UNCHANGED <<phase, tracer, open, ended, sent, lost, dropped, report>>

\* An export that fails, or passes EXPORT_TIMEOUT, is not tried again.
ExportBatch ==
  /\ Exporting
  /\ batch > 0
  /\ batch' = 0
  /\ \/ sent' = sent + batch /\ UNCHANGED lost
     \/ lost' = lost + batch /\ UNCHANGED sent
  /\ UNCHANGED <<phase, tracer, open, ended, queue, dropped, report>>

\* Asked to shut down, the thread exports what the queue holds, batch by batch,
\* and reports how the last of it went.
Report ==
  /\ Exporting
  /\ report = "asked"
  /\ queue = 0 /\ batch = 0
  /\ report' \in {"ok", "failed"}
  /\ UNCHANGED <<phase, tracer, spanVars>>

-----------------------------------------------------------------------------
(* main, once the server has been told to stop.                            *)

\* Mutant: main does not wait for the calls under way.
StopServingAtOnce ==
  /\ phase = "serving"
  /\ phase' = "metrics"
  /\ UNCHANGED <<tracer, spanVars, report>>

\* serve() has returned: no request, and so no tool call, is left.
StopServing ==
  /\ phase = "serving"
  /\ open = 0
  /\ phase' = "metrics"
  /\ UNCHANGED <<tracer, spanVars, report>>

\* Mutant: an error of the meter provider ends the shutdown.
ShutdownMetricsOrReturn ==
  /\ phase = "metrics"
  /\ \/ phase' = "traces" /\ report' = IF tracer = "sdk" THEN "asked" ELSE report
     \/ tracer = "sdk" /\ phase' = "exited" /\ UNCHANGED report
  /\ UNCHANGED <<tracer, spanVars>>

\* The meter provider is shut down. Its error, if it has one, is logged, and the
\* tracer provider is asked all the same.
ShutdownMetrics ==
  /\ phase = "metrics"
  /\ phase' = "traces"
  /\ report' = IF tracer = "sdk" THEN "asked" ELSE report
  /\ UNCHANGED <<tracer, spanVars>>

\* Mutant: shutdown() waits for the export under way.
GiveUpBetween ==
  /\ report = "asked"
  /\ batch = 0
  /\ report' = "late"
  /\ UNCHANGED <<phase, tracer, spanVars>>

\* shutdown() waits a few seconds for the thread.
GiveUp ==
  /\ report = "asked"
  /\ report' = "late"
  /\ UNCHANGED <<phase, tracer, spanVars>>

\* The tracer provider's error is logged as well, and main returns.
Exit ==
  /\ phase = "traces"
  /\ tracer = "sdk" => report \in {"ok", "failed", "late"}
  /\ phase' = "exited"
  /\ UNCHANGED <<tracer, spanVars, report>>

Next ==
  \/ InitTracer \/ EnterCall \/ LeaveCall
  \/ TakeBatch \/ ExportBatch \/ Report
  \/ StopServing \/ ShutdownMetrics \/ GiveUp \/ Exit

Spec == Init /\ [][Next]_vars

\* main goes on when it can, and its waiting has an end. Nothing is assumed of
\* the collector, nor of the thread that waits for it.
FairSpec == Spec /\ WF_vars(ShutdownMetrics) /\ WF_vars(GiveUp) /\ WF_vars(Exit)

-----------------------------------------------------------------------------

\* The counts are counts.
TypeOK ==
  /\ phase \in {"boot", "serving", "metrics", "traces", "exited"}
  /\ tracer \in {"none", "sdk"}
  /\ {open, ended, batch, sent, lost, dropped} \subseteq Nat
  /\ queue \in 0 .. MaxQueue
  /\ report \in {"no", "asked", "ok", "failed", "late"}

\* A process that ends through main has asked for its spans whatever became of
\* the metrics, and has them all exported, or tried, unless it was told that the
\* processor is late (shutdown, telemetry.rs).
ExitMeansFlushed ==
  phase = "exited" /\ tracer = "sdk" =>
    /\ report \in {"ok", "failed", "late"}
    /\ report # "late" => ended = sent + lost + dropped

\* Only a full queue drops a span: no call ends after main has begun to shut the
\* providers down, because serve() returns first (main.rs).
DropsOnlyWhenFull == [][dropped' > dropped => queue = MaxQueue]_vars

\* A collector that does not answer cannot hold the process: once the server has
\* stopped, main comes to its end (shutdown, telemetry.rs).
ShutdownEnds == phase = "metrics" ~> phase = "exited"
=============================================================================
